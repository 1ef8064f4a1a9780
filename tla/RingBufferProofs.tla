-------------------------- MODULE RingBufferProofs --------------------------
(***************************************************************************)
(* The ring for any number of producers, consumers, slots and pushes, and  *)
(* for counters of any width that start anywhere.                          *)
(*                                                                         *)
(* The counters are numbers of slots reserved, published, taken and given  *)
(* back, modulo Wrap.  The proof is about those numbers: two of them are   *)
(* Len(pushed) and Len(popped), the other two are bound in the invariant.  *)
(***************************************************************************)
EXTENDS RingBuffer, Integers, TLAPS

\* No thread sleeps between loading head and its exchange for so long that
\* the counter comes round to the value it has loaded.
NotLapped ==
    /\ \A p \in Producers : pc[p] = "reserve" => Len(pushed) < seen[p] + Wrap
    /\ \A c \in Consumers : pc[c] = "take" => Len(popped) < seen[c] + Wrap

\* What the counter is after n slots, and the slot it stands for; b is where
\* the counters began
At(b, n) == (b + n) % Wrap
Place(b, n) == (b + n) % Entries

-----------------------------------------------------------------------------
(* The invariant *)

Items == Producers \X Nat

Typed ==
    /\ data = [s \in 0 .. Entries - 1 |-> data[s]]
    /\ pc = [t \in Threads |-> pc[t]]
    /\ head = [t \in Threads |-> head[t]] /\ seen \in [Threads -> Nat]
    /\ tail = [c \in Consumers |-> tail[c]] /\ nxt = [c \in Consumers |-> nxt[c]]
    /\ ticket = [c \in Consumers |-> ticket[c]] /\ pushes \in [Producers -> Nat]
    /\ pushed \in Seq(Items) /\ popped \in Seq(Items \cup {Pending})

\* pt slots have been published, ct given back.
Counting(b, pt, ct) ==
    /\ prodHead = At(b, Len(pushed)) /\ prodTail = At(b, pt)
    /\ consHead = At(b, Len(popped)) /\ consTail = At(b, ct)
    /\ ct <= Len(popped) /\ Len(popped) <= pt
    /\ pt <= Len(pushed) /\ Len(pushed) <= ct + Entries

\* A slot that is reserved, or taken, by a thread
Reserved(p) == pc[p] \in {"write", "publish"}
Taken(c) == pc[c] \in {"read", "release"}

Producing(b, pt, ct, p) ==
    /\ pc[p] \in {"room", "reload", "reserve", "write", "publish"} =>
          head[p] = At(b, seen[p]) /\ seen[p] <= Len(pushed)
    /\ pc[p] = "reserve" /\ seen[p] = Len(pushed) => Len(pushed) < ct + Entries
    /\ Reserved(p) => pt <= seen[p] /\ seen[p] < Len(pushed) /\ pushed[seen[p] + 1] = Item(p)
    /\ pc[p] = "publish" => data[Place(b, seen[p])] = Item(p)

Consuming(b, pt, ct, c) ==
    /\ pc[c] \in {"tail", "next", "take", "read", "release"} =>
          head[c] = At(b, seen[c]) /\ seen[c] <= Len(popped)
    /\ pc[c] = "next" /\ tail[c] # head[c] => seen[c] < pt
    /\ pc[c] = "take" /\ seen[c] = Len(popped) => seen[c] < pt /\ nxt[c] = At(b, seen[c] + 1)
    /\ Taken(c) => /\ ct <= seen[c] /\ seen[c] < Len(popped)
                   /\ ticket[c] = seen[c] + 1 /\ nxt[c] = At(b, seen[c] + 1)

Apart ==
    /\ \A p, q \in Producers : p # q /\ Reserved(p) /\ Reserved(q) => seen[p] # seen[q]
    /\ \A c, d \in Consumers : c # d /\ Taken(c) /\ Taken(d) => seen[c] # seen[d]

\* What was published and not given back is in its place.
Stored(b, pt, ct) == \A n \in ct .. pt - 1 : data[Place(b, n)] = pushed[n + 1]

InvAt(b, pt, ct) ==
    /\ Counting(b, pt, ct)
    /\ \A p \in Producers : Producing(b, pt, ct, p)
    /\ \A c \in Consumers : Consuming(b, pt, ct, c)
    /\ Stored(b, pt, ct)

Inv ==
    /\ Typed /\ Apart /\ PopsInOrder
    /\ \E b \in 0 .. Wrap - 1, pt \in 0 .. Len(pushed), ct \in 0 .. Len(popped) : InvAt(b, pt, ct)

-----------------------------------------------------------------------------
(* Arithmetic modulo the width of the counters *)

\* Division with remainder
LEMMA ModParts ==
    ASSUME NEW a \in Nat, NEW W \in Nat \ {0}
    PROVE  \E k \in Nat, v \in 0 .. W - 1 : a = k * W + v /\ a % W = v
<1>1. a = W * (a \div W) + (a % W) OBVIOUS
<1>2. a \div W \in Nat /\ a % W \in 0 .. W - 1 OBVIOUS
<1>3. PICK k \in Nat : k = a \div W BY <1>2
<1>4. PICK v \in 0 .. W - 1 : v = a % W BY <1>2
<1>5. W * k = k * W OBVIOUS
<1>6. a = k * W + v BY <1>1, <1>3, <1>4, <1>5
<1> QED BY <1>4, <1>6

\* is unique.
LEMMA ModIs ==
    ASSUME NEW a \in Nat, NEW W \in Nat \ {0}, NEW k \in Nat, NEW v \in 0 .. W - 1,
           a = k * W + v
    PROVE  a % W = v
OBVIOUS

\* Numbers less than W apart have different remainders.
LEMMA ModSame ==
    ASSUME NEW a \in Nat, NEW b \in Nat, NEW W \in Nat \ {0},
           a % W = b % W, a <= b, b < a + W
    PROVE  a = b
<1>1. PICK k \in Nat, v \in 0 .. W - 1 : a = k * W + v /\ a % W = v BY ModParts
<1>2. PICK j \in Nat, u \in 0 .. W - 1 : b = j * W + u /\ b % W = u BY ModParts
<1>3. u = v BY <1>1, <1>2
<1>4. PICK d \in Int : d = j - k OBVIOUS
<1>5. d * W < W /\ d * W >= 0 BY <1>1, <1>2, <1>3, <1>4
<1>6. d = 0 BY <1>5
<1> QED BY <1>1, <1>2, <1>3, <1>4, <1>6

\* Wrap and Entries are positive.
LEMMA Widths == Wrap \in Nat \ {0} /\ Entries \in Nat \ {0} /\ Entries + 1 < Wrap
BY RingAssumption

\* A counter is a number below Wrap.
LEMMA AtBounds ==
    ASSUME NEW b \in Nat, NEW n \in Nat PROVE At(b, n) \in 0 .. Wrap - 1
<1>1. b + n \in Nat OBVIOUS
<1> QED BY <1>1, Widths, ModParts DEF At

\* The counter after one more slot
LEMMA AtNext ==
    ASSUME NEW b \in Nat, NEW n \in Nat PROVE Inc(At(b, n)) = At(b, n + 1)
<1>0. Wrap \in Nat \ {0} BY Widths
<1>1. PICK k \in Nat, u \in 0 .. Wrap - 1 : b + n = k * Wrap + u /\ (b + n) % Wrap = u
  <2>1. b + n \in Nat OBVIOUS
  <2> QED BY <1>0, <2>1, ModParts
<1>2. PICK j \in Nat, v \in 0 .. Wrap - 1 : u + 1 = j * Wrap + v /\ (u + 1) % Wrap = v
  <2>1. u + 1 \in Nat BY <1>0
  <2> QED BY <1>0, <2>1, ModParts
<1>3. PICK i \in Nat : i = k + j OBVIOUS
<1>4. b + (n + 1) = i * Wrap + v BY <1>0, <1>1, <1>2, <1>3
<1>5. (b + (n + 1)) % Wrap = v
  <2>1. b + (n + 1) \in Nat OBVIOUS
  <2> QED BY <1>0, <1>4, <2>1, ModIs
<1> QED BY <1>1, <1>2, <1>5 DEF Inc, At

\* Less than a turn apart, counters tell numbers apart ...
LEMMA AtSame ==
    ASSUME NEW b \in Nat, NEW m \in Nat, NEW n \in Nat,
           m <= n, n < m + Wrap, At(b, m) = At(b, n)
    PROVE  m = n
<1>1. b + m \in Nat /\ b + n \in Nat /\ b + m <= b + n /\ b + n < (b + m) + Wrap BY Widths
<1>2. (b + m) % Wrap = (b + n) % Wrap BY DEF At
<1>3. b + m = b + n
  <2> DEFINE x == b + m  y == b + n
  <2>1. x \in Nat /\ y \in Nat /\ x <= y /\ y < x + Wrap /\ x % Wrap = y % Wrap BY <1>1, <1>2
  <2> HIDE DEF x, y
  <2>2. x = y BY <2>1, Widths, ModSame
  <2> QED BY <2>2 DEF x, y
<1> QED BY <1>3

\* ... and give their difference, across the wrap too.
LEMMA AtMinus ==
    ASSUME NEW b \in Nat, NEW m \in Nat, NEW n \in Nat, m <= n, n < m + Wrap
    PROVE  Minus(At(b, n), At(b, m)) = n - m
<1>0. Wrap \in Nat \ {0} BY Widths
<1>1. PICK k \in Nat, u \in 0 .. Wrap - 1 : b + m = k * Wrap + u /\ (b + m) % Wrap = u
  <2>1. b + m \in Nat OBVIOUS
  <2> QED BY <1>0, <2>1, ModParts
<1>2. PICK j \in Nat, v \in 0 .. Wrap - 1 : b + n = j * Wrap + v /\ (b + n) % Wrap = v
  <2>1. b + n \in Nat OBVIOUS
  <2> QED BY <1>0, <2>1, ModParts
<1>3. PICK d \in Int : d = j - k OBVIOUS
<1>4. n - m = d * Wrap + (v - u) BY <1>0, <1>1, <1>2, <1>3
<1>5. d * Wrap < 2 * Wrap /\ d * Wrap > 0 - Wrap BY <1>0, <1>4
<1>6. d = 0 \/ d = 1 BY <1>0, <1>5
<1>7. PICK x \in Nat : x = (v + Wrap) - u BY <1>0
<1>8. PICK y \in 0 .. Wrap - 1 : y = n - m BY <1>0
<1>9. x % Wrap = y
  <2>1. CASE d = 0
    <3>1. x = 1 * Wrap + y BY <1>0, <1>4, <1>7, <1>8, <2>1
    <3> QED BY <1>0, <3>1, ModIs
  <2>2. CASE d = 1
    <3>1. x = 0 * Wrap + y BY <1>0, <1>4, <1>7, <1>8, <2>2
    <3> QED BY <1>0, <3>1, ModIs
  <2> QED BY <1>6, <2>1, <2>2
<1> QED BY <1>1, <1>2, <1>7, <1>8, <1>9 DEF Minus, At

\* The slot a thread computes from its counter is the place of its number.
LEMMA SlotAt ==
    ASSUME NEW b \in Nat, NEW n \in Nat PROVE Slot(At(b, n)) = Place(b, n)
<1>0. Wrap \in Nat \ {0} /\ Entries \in Nat \ {0} BY Widths
<1>1. PICK k \in Nat, u \in 0 .. Wrap - 1 : b + n = k * Wrap + u /\ (b + n) % Wrap = u
  <2>1. b + n \in Nat OBVIOUS
  <2> QED BY <1>0, <2>1, ModParts
<1>2. PICK e \in Nat, z \in 0 .. Entries - 1 : Wrap = e * Entries + z /\ Wrap % Entries = z
  BY <1>0, ModParts
<1>3. Wrap = e * Entries BY <1>0, <1>2, RingAssumption
<1>4. PICK j \in Nat, v \in 0 .. Entries - 1 : u = j * Entries + v /\ u % Entries = v
  <2>1. u \in Nat BY <1>0
  <2> QED BY <1>0, <2>1, ModParts
<1>5. PICK i \in Nat : i = k * e + j OBVIOUS
<1>6. k * Wrap = (k * e) * Entries BY <1>0, <1>3
<1>7. b + n = i * Entries + v
  <2>1. PICK x \in Nat : x = k * e OBVIOUS
  <2>2. (x + j) * Entries = x * Entries + j * Entries BY <1>0
  <2> QED BY <1>0, <1>1, <1>4, <1>5, <1>6, <2>1, <2>2
<1>8. (b + n) % Entries = v
  <2>1. b + n \in Nat OBVIOUS
  <2> QED BY <1>0, <1>7, <2>1, ModIs
<1> QED BY <1>1, <1>4, <1>8 DEF Slot, At, Place

\* A place is a slot.
LEMMA PlaceBounds ==
    ASSUME NEW b \in Nat, NEW n \in Nat PROVE Place(b, n) \in 0 .. Entries - 1
<1>1. b + n \in Nat OBVIOUS
<1> QED BY <1>1, Widths, ModParts DEF Place

\* Numbers less than Entries apart have different places.
LEMMA PlaceSame ==
    ASSUME NEW b \in Nat, NEW m \in Nat, NEW n \in Nat,
           m <= n, n < m + Entries, Place(b, m) = Place(b, n)
    PROVE  m = n
<1> DEFINE x == b + m  y == b + n
<1>1. x \in Nat /\ y \in Nat /\ x <= y /\ y < x + Entries /\ x % Entries = y % Entries
  BY Widths DEF Place
<1> HIDE DEF x, y
<1>2. x = y BY <1>1, Widths, ModSame
<1> QED BY <1>2 DEF x, y

-----------------------------------------------------------------------------
(* The threads that do not take the step *)

Steady(t) == pc'[t] = pc[t] /\ head'[t] = head[t] /\ seen'[t] = seen[t]

\* A history has grown, or stayed as it is.
Grown(old, new) == Len(old) <= Len(new) /\ \A i \in 1 .. Len(old) : new[i] = old[i]

\* The numbers of an invariant that holds
Numbers(b, pt, ct) ==
    /\ b \in 0 .. Wrap - 1 /\ pt \in 0 .. Len(pushed) /\ ct \in 0 .. Len(popped)
    /\ InvAt(b, pt, ct)

\* The numbers the invariant speaks of
LEMMA NumbersExist == Inv => Typed /\ \E b, pt, ct : Numbers(b, pt, ct)
BY DEF Inv, Numbers

\* The numbers are natural numbers in this order.
LEMMA Orders ==
    ASSUME Typed, NEW b, NEW pt, NEW ct, Numbers(b, pt, ct)
    PROVE  /\ b \in Nat /\ pt \in Nat /\ ct \in Nat
           /\ Len(pushed) \in Nat /\ Len(popped) \in Nat
           /\ ct <= Len(popped) /\ Len(popped) <= pt
           /\ pt <= Len(pushed) /\ Len(pushed) <= ct + Entries
BY Widths DEF Typed, Numbers, InvAt, Counting

\* A producer that has reserved a slot keeps it while slots are published or
\* given back before it.
LEMMA ProducerStays ==
    ASSUME Typed, NEW b, NEW pt, NEW ct, Numbers(b, pt, ct), NEW p \in Producers,
           NEW qt \in Nat, NEW dt \in Nat, ct <= dt, Steady(p), pushes'[p] = pushes[p],
           Grown(pushed, pushed'), pushed' \in Seq(Items),
           Reserved(p) => qt <= seen[p],
           pc[p] = "publish" => data'[Place(b, seen[p])] = data[Place(b, seen[p])]
    PROVE  Producing(b, qt, dt, p)' /\ (Reserved(p)' <=> Reserved(p))
<1>1. /\ ct \in Nat /\ Len(pushed) \in Nat /\ Len(pushed') \in Nat /\ Entries \in Nat
      /\ seen[p] \in Nat
  BY Orders, Widths DEF Typed, Threads
<1>2. Producing(b, pt, ct, p) BY DEF Numbers, InvAt
<1>3. /\ pc'[p] = pc[p] /\ head'[p] = head[p] /\ seen'[p] = seen[p] /\ Len(pushed) <= Len(pushed')
      /\ \A i \in 1 .. Len(pushed) : pushed'[i] = pushed[i]
  BY DEF Steady, Grown
<1>4. Item(p)' = Item(p) BY DEF Item
<1>5. Reserved(p)' <=> Reserved(p) BY <1>3 DEF Reserved
<1>6. pc'[p] \in {"room", "reload", "reserve", "write", "publish"} =>
          head'[p] = At(b, seen'[p]) /\ seen'[p] <= Len(pushed')
  BY <1>1, <1>2, <1>3 DEF Producing
<1>7. pc'[p] = "reserve" /\ seen'[p] = Len(pushed') => Len(pushed') < dt + Entries
  BY <1>1, <1>2, <1>3 DEF Producing
<1>8. ASSUME Reserved(p)
      PROVE  qt <= seen'[p] /\ seen'[p] < Len(pushed') /\ pushed'[seen'[p] + 1] = Item(p)'
  <2>1. seen[p] < Len(pushed) /\ pushed[seen[p] + 1] = Item(p) BY <1>2, <1>8 DEF Producing
  <2>2. seen[p] + 1 \in 1 .. Len(pushed) BY <1>1, <2>1
  <2> QED BY <1>1, <1>3, <1>4, <1>8, <2>1, <2>2
<1>9. pc'[p] = "publish" => data'[Place(b, seen'[p])] = Item(p)'
  BY <1>2, <1>3, <1>4 DEF Producing
<1> QED BY <1>5, <1>6, <1>7, <1>8, <1>9 DEF Producing

\* A consumer that has taken a slot keeps it while others are published or
\* given back.
LEMMA ConsumerStays ==
    ASSUME Typed, NEW b, NEW pt, NEW ct, Numbers(b, pt, ct), NEW c \in Consumers,
           NEW qt \in Nat, NEW dt \in Nat, pt <= qt, Steady(c),
           tail'[c] = tail[c], nxt'[c] = nxt[c], ticket'[c] = ticket[c],
           Len(popped') \in Nat, Len(popped) <= Len(popped'),
           Taken(c) => dt <= seen[c]
    PROVE  Consuming(b, qt, dt, c)' /\ (Taken(c)' <=> Taken(c))
<1>1. pt \in Nat /\ Len(popped) \in Nat /\ seen[c] \in Nat BY Orders DEF Typed, Threads
<1>2. Consuming(b, pt, ct, c) BY DEF Numbers, InvAt
<1>3. pc'[c] = pc[c] /\ head'[c] = head[c] /\ seen'[c] = seen[c] BY DEF Steady
<1>4. Taken(c)' <=> Taken(c) BY <1>3 DEF Taken
<1>5. pc'[c] \in {"tail", "next", "take", "read", "release"} =>
          head'[c] = At(b, seen'[c]) /\ seen'[c] <= Len(popped')
  BY <1>1, <1>2, <1>3 DEF Consuming
<1>6. pc'[c] = "next" /\ tail'[c] # head'[c] => seen'[c] < qt
  BY <1>1, <1>2, <1>3 DEF Consuming
<1>7. pc'[c] = "take" /\ seen'[c] = Len(popped') => seen'[c] < qt /\ nxt'[c] = At(b, seen'[c] + 1)
  <2> SUFFICES ASSUME pc'[c] = "take", seen'[c] = Len(popped')
               PROVE  seen'[c] < qt /\ nxt'[c] = At(b, seen'[c] + 1)
    OBVIOUS
  <2>1. seen[c] <= Len(popped) BY <1>2, <1>3 DEF Consuming
  <2>2. seen[c] = Len(popped) BY <1>1, <1>3, <2>1
  <2>3. seen[c] < pt /\ nxt[c] = At(b, seen[c] + 1) BY <1>2, <1>3, <2>2 DEF Consuming
  <2> QED BY <1>1, <1>3, <2>3
<1>8. Taken(c)' => /\ dt <= seen'[c] /\ seen'[c] < Len(popped')
                   /\ ticket'[c] = seen'[c] + 1 /\ nxt'[c] = At(b, seen'[c] + 1)
  BY <1>1, <1>2, <1>3, <1>4 DEF Consuming
<1> QED BY <1>4, <1>5, <1>6, <1>7, <1>8 DEF Consuming

-----------------------------------------------------------------------------
(* Steps that move no counter *)

\* What each part of the invariant comes to
LEMMA Gather ==
    ASSUME Typed', Apart', PopsInOrder', NEW b \in 0 .. Wrap - 1,
           NEW qt \in 0 .. Len(pushed'), NEW dt \in 0 .. Len(popped'),
           Counting(b, qt, dt)', Stored(b, qt, dt)',
           \A p \in Producers : Producing(b, qt, dt, p)',
           \A c \in Consumers : Consuming(b, qt, dt, c)'
    PROVE  Inv'
<1>1. InvAt(b, qt, dt)' BY DEF InvAt
<1> QED BY <1>1 DEF Inv

\* A producer and a consumer are different threads.
LEMMA Different == \A p \in Producers, c \in Consumers : p # c
BY RingAssumption

Shared == <<data, counters, pushed, popped>>
OthersSteady(t) == \A u \in Threads \ {t} : Steady(u)

\* A producer before its reservation
LEMMA LocalProducer ==
    ASSUME Inv, NEW p \in Producers, UNCHANGED <<Shared, tail, nxt, ticket>>, OthersSteady(p),
           \A q \in Producers \ {p} : pushes'[q] = pushes[q], Typed', ~ Reserved(p), ~ Reserved(p)',
           \A b, pt, ct : Numbers(b, pt, ct) => Producing(b, pt, ct, p)'
    PROVE  Inv'
<1>0. Typed /\ Apart /\ PopsInOrder BY DEF Inv
<1>1. PICK b, pt, ct : Numbers(b, pt, ct) BY NumbersExist
<1>2. /\ b \in 0 .. Wrap - 1 /\ pt \in 0 .. Len(pushed') /\ ct \in 0 .. Len(popped')
      /\ pt \in Nat /\ ct \in Nat
  BY <1>0, <1>1, Orders DEF Numbers, Shared
<1>3. UNCHANGED <<data, prodHead, prodTail, consHead, consTail, pushed, popped, tail, nxt, ticket>>
  BY DEF Shared, counters
<1>4. pushed' \in Seq(Items) /\ Grown(pushed, pushed') /\ Len(popped') \in Nat
  BY <1>0, <1>3 DEF Grown, Typed
<1>5. ASSUME NEW q \in Producers PROVE Producing(b, pt, ct, q)' /\ (Reserved(q)' <=> Reserved(q))
  <2>1. CASE q = p BY <1>1, <2>1
  <2>2. CASE q # p
    <3>1. Steady(q) /\ pushes'[q] = pushes[q] BY <2>2 DEF OthersSteady, Threads
    <3>2. Reserved(q) => pt <= seen[q] BY <1>1 DEF Numbers, InvAt, Producing
    <3>3. ct <= ct BY <1>2
    <3> QED BY <1>0, <1>1, <1>2, <1>3, <1>4, <3>1, <3>2, <3>3, ProducerStays
  <2> QED BY <2>1, <2>2
<1>6. ASSUME NEW c \in Consumers
      PROVE  Consuming(b, pt, ct, c)' /\ (Taken(c)' <=> Taken(c)) /\ seen'[c] = seen[c]
  <2>1. Steady(c) BY Different DEF OthersSteady, Threads
  <2>2. Taken(c) => ct <= seen[c] BY <1>1 DEF Numbers, InvAt, Consuming
  <2>3. pt <= pt /\ Len(popped) <= Len(popped') BY <1>2, <1>3, <1>4
  <2> QED BY <1>0, <1>1, <1>2, <1>3, <1>4, <2>1, <2>2, <2>3, ConsumerStays DEF Steady
<1>7. Counting(b, pt, ct)' /\ Stored(b, pt, ct)' /\ PopsInOrder'
  BY <1>0, <1>1, <1>3 DEF Numbers, InvAt, Counting, Stored, PopsInOrder
<1>8. Apart'
  <2>1. ASSUME NEW q \in Producers, Reserved(q)' PROVE seen'[q] = seen[q] /\ Reserved(q)
    <3>1. q # p BY <2>1 DEF Reserved
    <3> QED BY <1>5, <2>1, <3>1 DEF OthersSteady, Steady, Threads
  <2> QED BY <1>0, <1>6, <2>1 DEF Apart
<1> QED BY <1>2, <1>5, <1>6, <1>7, <1>8, Gather

\* A consumer that has taken no slot
LEMMA LocalConsumer ==
    ASSUME Inv, NEW c \in Consumers, UNCHANGED <<Shared, pushes>>, OthersSteady(c),
           \A d \in Consumers \ {c} : tail'[d] = tail[d] /\ nxt'[d] = nxt[d] /\ ticket'[d] = ticket[d],
           Typed', ~ Taken(c), ~ Taken(c)',
           \A b, pt, ct : Numbers(b, pt, ct) => Consuming(b, pt, ct, c)'
    PROVE  Inv'
<1>0. Typed /\ Apart /\ PopsInOrder BY DEF Inv
<1>1. PICK b, pt, ct : Numbers(b, pt, ct) BY NumbersExist
<1>2. /\ b \in 0 .. Wrap - 1 /\ pt \in 0 .. Len(pushed') /\ ct \in 0 .. Len(popped')
      /\ pt \in Nat /\ ct \in Nat
  BY <1>0, <1>1, Orders DEF Numbers, Shared
<1>3. UNCHANGED <<data, prodHead, prodTail, consHead, consTail, pushed, popped, pushes>>
  BY DEF Shared, counters
<1>4. pushed' \in Seq(Items) /\ Grown(pushed, pushed') /\ Len(popped') \in Nat
  BY <1>0, <1>3 DEF Grown, Typed
<1>5. ASSUME NEW q \in Producers
      PROVE  Producing(b, pt, ct, q)' /\ (Reserved(q)' <=> Reserved(q)) /\ seen'[q] = seen[q]
  <2>1. Steady(q) /\ pushes'[q] = pushes[q] BY <1>3, Different DEF OthersSteady, Threads
  <2>2. Reserved(q) => pt <= seen[q] BY <1>1 DEF Numbers, InvAt, Producing
  <2>3. ct <= ct BY <1>2
  <2> QED BY <1>0, <1>1, <1>2, <1>3, <1>4, <2>1, <2>2, <2>3, ProducerStays DEF Steady
<1>6. ASSUME NEW d \in Consumers PROVE Consuming(b, pt, ct, d)' /\ (Taken(d)' <=> Taken(d))
  <2>1. CASE d = c BY <1>1, <2>1
  <2>2. CASE d # c
    <3>1. Steady(d) /\ tail'[d] = tail[d] /\ nxt'[d] = nxt[d] /\ ticket'[d] = ticket[d]
      BY <2>2 DEF OthersSteady, Threads
    <3>2. Taken(d) => ct <= seen[d] BY <1>1 DEF Numbers, InvAt, Consuming
    <3>3. pt <= pt /\ Len(popped) <= Len(popped') BY <1>2, <1>3, <1>4
    <3> QED BY <1>0, <1>1, <1>2, <1>4, <3>1, <3>2, <3>3, ConsumerStays
  <2> QED BY <2>1, <2>2
<1>7. Counting(b, pt, ct)' /\ Stored(b, pt, ct)' /\ PopsInOrder'
  BY <1>0, <1>1, <1>3 DEF Numbers, InvAt, Counting, Stored, PopsInOrder
<1>8. Apart'
  <2>1. ASSUME NEW d \in Consumers, Taken(d)' PROVE seen'[d] = seen[d] /\ Taken(d)
    <3>1. d # c BY <2>1 DEF Taken
    <3> QED BY <1>6, <2>1, <3>1 DEF OthersSteady, Steady, Threads
  <2> QED BY <1>0, <1>5, <2>1 DEF Apart
<1> QED BY <1>2, <1>5, <1>6, <1>7, <1>8, Gather

\* push loads prodHead_: when it begins, when it starts over, when the exchange fails.
LEMMA LoadProdInv ==
    ASSUME Inv, NEW p \in Producers, Goto(p, "room"), LoadProd(p), ~ Reserved(p),
           UNCHANGED <<Shared, tail, nxt, ticket>>,
           \/ UNCHANGED pushes
           \/ pushes' = [pushes EXCEPT ![p] = @ + 1]
    PROVE  Inv'
<1>0. Typed BY DEF Inv
<1>1. pc' = [pc EXCEPT ![p] = "room"] /\ head' = [head EXCEPT ![p] = prodHead]
      /\ seen' = [seen EXCEPT ![p] = Len(pushed)] /\ p \in Threads
  BY DEF Goto, LoadProd, Threads
<1>2. UNCHANGED <<data, pushed, popped, tail, nxt, ticket>> BY DEF Shared
<1>3. Typed'
  <2>1. pushes' \in [Producers -> Nat] BY <1>0 DEF Typed
  <2>2. Len(pushed) \in Nat BY <1>0 DEF Typed
  <2>3. pc' = [t \in Threads |-> pc'[t]] /\ head' = [t \in Threads |-> head'[t]] BY <1>0, <1>1 DEF Typed
  <2>4. seen' \in [Threads -> Nat] BY <1>0, <1>1, <2>2 DEF Typed
  <2> QED BY <1>0, <1>2, <2>1, <2>3, <2>4 DEF Typed
<1>4. OthersSteady(p) /\ pc'[p] = "room" /\ head'[p] = prodHead /\ seen'[p] = Len(pushed)
  BY <1>0, <1>1 DEF OthersSteady, Steady, Typed
<1>5. ~ Reserved(p)' BY <1>4 DEF Reserved
<1>6. \A q \in Producers \ {p} : pushes'[q] = pushes[q] BY <1>0 DEF Typed
<1>7. ASSUME NEW b, NEW pt, NEW ct, Numbers(b, pt, ct) PROVE Producing(b, pt, ct, p)'
  <2>1. prodHead = At(b, Len(pushed)) BY <1>7 DEF Numbers, InvAt, Counting
  <2>2. Len(pushed) \in Nat /\ Len(pushed') = Len(pushed) BY <1>0, <1>2 DEF Typed
  <2> QED BY <1>4, <1>5, <2>1, <2>2 DEF Producing, Reserved
<1> QED BY <1>3, <1>4, <1>5, <1>6, <1>7, LocalProducer

\* push finds room: a head that is not stale has a free slot, because consTail_
\* is at most Entries behind, which the counters can tell.
LEMMA PushRoomInv ==
    ASSUME Inv, NEW p \in Producers, PushRoom(p) PROVE Inv'
<1>0. Typed BY DEF Inv
<1>1. PICK l \in {"reload", "reserve"} :
        /\ l = "reserve" => ~ (Minus(Inc(head[p]), consTail) > Entries)
        /\ pc' = [pc EXCEPT ![p] = l]
  BY DEF PushRoom, Goto
<1>2. /\ pc[p] = "room" /\ p \in Threads
      /\ UNCHANGED <<data, counters, head, seen, tail, nxt, pushes, pushed, ticket, popped>>
  BY DEF PushRoom, Threads
<1>3. Typed' BY <1>0, <1>1, <1>2 DEF Typed
<1>4. OthersSteady(p) /\ pc'[p] = l BY <1>0, <1>1, <1>2 DEF OthersSteady, Steady, Typed
<1>5. ~ Reserved(p) /\ ~ Reserved(p)' BY <1>2, <1>4 DEF Reserved
<1>6. ASSUME NEW b, NEW pt, NEW ct, Numbers(b, pt, ct) PROVE Producing(b, pt, ct, p)'
  <2>1. Producing(b, pt, ct, p) /\ Counting(b, pt, ct) BY <1>6 DEF Numbers, InvAt
  <2>2. head[p] = At(b, seen[p]) /\ seen[p] <= Len(pushed) BY <1>2, <2>1 DEF Producing
  <2>3. /\ b \in Nat /\ ct \in Nat /\ Len(pushed) \in Nat /\ ct <= Len(pushed)
        /\ Len(pushed) <= ct + Entries
    BY <1>0, <1>6, Orders
  <2>4. l = "reserve" /\ seen[p] = Len(pushed) => Len(pushed) < ct + Entries
    <3> SUFFICES ASSUME l = "reserve", seen[p] = Len(pushed) PROVE Len(pushed) < ct + Entries
      OBVIOUS
    <3>1. Inc(head[p]) = At(b, Len(pushed) + 1) BY <2>2, <2>3, AtNext
    <3>2. PICK n \in Nat : n = Len(pushed) + 1 BY <2>3
    <3>3. ct <= n /\ n < ct + Wrap BY <2>3, <3>2, Widths
    <3>4. Minus(At(b, n), At(b, ct)) = n - ct BY <2>3, <3>3, AtMinus
    <3>5. ~ (n - ct > Entries) BY <1>1, <2>1, <3>1, <3>2, <3>4 DEF Counting
    <3> QED BY <2>3, <3>2, <3>5, Widths
  <2> QED BY <1>2, <1>4, <1>5, <2>2, <2>4 DEF Producing, Reserved
<1> QED BY <1>2, <1>3, <1>4, <1>5, <1>6, LocalProducer DEF Shared

\* pop loads consHead_: when it begins and when the exchange fails.
LEMMA LoadConsInv ==
    ASSUME Inv, NEW c \in Consumers, Goto(c, "tail"), LoadCons(c), ~ Taken(c),
           UNCHANGED <<Shared, pushes, tail, nxt, ticket>>
    PROVE  Inv'
<1>0. Typed BY DEF Inv
<1>1. pc' = [pc EXCEPT ![c] = "tail"] /\ head' = [head EXCEPT ![c] = consHead]
      /\ seen' = [seen EXCEPT ![c] = Len(popped)] /\ c \in Threads
  BY DEF Goto, LoadCons, Threads
<1>2. UNCHANGED <<data, pushed, popped, pushes, tail, nxt, ticket>> BY DEF Shared
<1>3. Typed'
  <2>2. Len(popped) \in Nat BY <1>0 DEF Typed
  <2>3. pc' = [t \in Threads |-> pc'[t]] /\ head' = [t \in Threads |-> head'[t]] BY <1>0, <1>1 DEF Typed
  <2>4. seen' \in [Threads -> Nat] BY <1>0, <1>1, <2>2 DEF Typed
  <2> QED BY <1>0, <1>2, <2>3, <2>4 DEF Typed
<1>4. OthersSteady(c) /\ pc'[c] = "tail" /\ head'[c] = consHead /\ seen'[c] = Len(popped)
  BY <1>0, <1>1 DEF OthersSteady, Steady, Typed
<1>5. ~ Taken(c)' BY <1>4 DEF Taken
<1>6. ASSUME NEW b, NEW pt, NEW ct, Numbers(b, pt, ct) PROVE Consuming(b, pt, ct, c)'
  <2>1. consHead = At(b, Len(popped)) BY <1>6 DEF Numbers, InvAt, Counting
  <2>2. Len(popped) \in Nat /\ Len(popped') = Len(popped) BY <1>0, <1>2 DEF Typed
  <2> QED BY <1>4, <1>5, <2>1, <2>2 DEF Consuming, Taken
<1>7. \A d \in Consumers \ {c} : tail'[d] = tail[d] /\ nxt'[d] = nxt[d] /\ ticket'[d] = ticket[d]
  BY <1>2
<1> QED BY <1>3, <1>4, <1>5, <1>6, <1>7, LocalConsumer

\* pop loads prodTail_: if it is not the head, something is published behind that.
LEMMA PopTailInv ==
    ASSUME Inv, NEW c \in Consumers, PopTail(c) PROVE Inv'
<1>0. Typed BY DEF Inv
<1>1. /\ pc[c] = "tail" /\ c \in Threads /\ pc' = [pc EXCEPT ![c] = "next"]
      /\ tail' = [tail EXCEPT ![c] = prodTail]
      /\ UNCHANGED <<data, counters, head, seen, nxt, pushes, pushed, ticket, popped>>
  BY DEF PopTail, Goto, Threads
<1>2. Typed' BY <1>0, <1>1 DEF Typed
<1>3. OthersSteady(c) /\ pc'[c] = "next" /\ tail'[c] = prodTail
  BY <1>0, <1>1 DEF OthersSteady, Steady, Typed
<1>4. ~ Taken(c) /\ ~ Taken(c)' BY <1>1, <1>3 DEF Taken
<1>5. \A d \in Consumers \ {c} : tail'[d] = tail[d] /\ nxt'[d] = nxt[d] /\ ticket'[d] = ticket[d]
  BY <1>0, <1>1 DEF Typed
<1>6. ASSUME NEW b, NEW pt, NEW ct, Numbers(b, pt, ct) PROVE Consuming(b, pt, ct, c)'
  <2>1. Consuming(b, pt, ct, c) /\ Counting(b, pt, ct) BY <1>6 DEF Numbers, InvAt
  <2>2. head[c] = At(b, seen[c]) /\ seen[c] <= Len(popped) BY <1>1, <2>1 DEF Consuming
  <2>3. pt \in Nat /\ Len(popped) \in Nat /\ Len(popped) <= pt /\ seen[c] \in Nat
    BY <1>0, <1>1, <1>6, Orders DEF Typed
  <2>4. prodTail # head[c] => seen[c] < pt BY <2>1, <2>2, <2>3 DEF Counting
  <2> QED BY <1>1, <1>3, <1>4, <2>2, <2>4 DEF Consuming, Taken
<1> QED BY <1>1, <1>2, <1>3, <1>4, <1>5, <1>6, LocalConsumer DEF Shared

\* pop finds the ring empty, or computes the next head.
LEMMA PopNextInv ==
    ASSUME Inv, NEW c \in Consumers, PopNext(c) PROVE Inv'
<1>0. Typed BY DEF Inv
<1>1. /\ pc[c] = "next" /\ c \in Threads /\ tail' = [tail EXCEPT ![c] = 0]
      /\ UNCHANGED <<data, counters, pushes, pushed, ticket, popped>>
  BY DEF PopNext, Threads
<1>2. CASE Minus(tail[c], head[c]) = 0
  <2>1. /\ pc' = [pc EXCEPT ![c] = "idle"] /\ head' = [head EXCEPT ![c] = 0]
        /\ seen' = [seen EXCEPT ![c] = 0] /\ nxt' = nxt
    BY <1>2 DEF PopNext, Return, Goto
  <2>2. Typed' BY <1>0, <1>1, <2>1 DEF Typed
  <2>3. OthersSteady(c) /\ pc'[c] = "idle" BY <1>0, <1>1, <2>1 DEF OthersSteady, Steady, Typed
  <2>4. ~ Taken(c) /\ ~ Taken(c)' BY <1>1, <2>3 DEF Taken
  <2>5. \A d \in Consumers \ {c} : tail'[d] = tail[d] /\ nxt'[d] = nxt[d] /\ ticket'[d] = ticket[d]
    BY <1>0, <1>1, <2>1 DEF Typed
  <2>6. \A b, pt, ct : Numbers(b, pt, ct) => Consuming(b, pt, ct, c)'
    BY <2>3 DEF Consuming, Taken
  <2> QED BY <1>1, <2>2, <2>3, <2>4, <2>5, <2>6, LocalConsumer DEF Shared
<1>3. CASE Minus(tail[c], head[c]) # 0
  <2>1. /\ pc' = [pc EXCEPT ![c] = "take"] /\ nxt' = [nxt EXCEPT ![c] = Inc(consHead)]
        /\ UNCHANGED <<head, seen>>
    BY <1>3 DEF PopNext, Goto
  <2>2. Typed' BY <1>0, <1>1, <2>1 DEF Typed
  <2>3. OthersSteady(c) /\ pc'[c] = "take" /\ nxt'[c] = Inc(consHead)
    BY <1>0, <1>1, <2>1 DEF OthersSteady, Steady, Typed
  <2>4. ~ Taken(c) /\ ~ Taken(c)' BY <1>1, <2>3 DEF Taken
  <2>5. \A d \in Consumers \ {c} : tail'[d] = tail[d] /\ nxt'[d] = nxt[d] /\ ticket'[d] = ticket[d]
    BY <1>0, <1>1, <2>1 DEF Typed
  <2>6. ASSUME NEW b, NEW pt, NEW ct, Numbers(b, pt, ct) PROVE Consuming(b, pt, ct, c)'
    <3>1. Consuming(b, pt, ct, c) /\ Counting(b, pt, ct) BY <2>6 DEF Numbers, InvAt
    <3>2. head[c] = At(b, seen[c]) /\ seen[c] <= Len(popped) BY <1>1, <3>1 DEF Consuming
    <3>3. b \in Nat /\ seen[c] \in Nat /\ Len(popped) \in Nat
      BY <1>0, <1>1, <2>6, Orders DEF Typed
    <3>4. tail[c] # head[c]
      <4> SUFFICES ASSUME tail[c] = head[c] PROVE Minus(tail[c], head[c]) = 0 BY <1>3
      <4>1. seen[c] <= seen[c] /\ seen[c] < seen[c] + Wrap BY <3>3, Widths
      <4>2. Minus(head[c], head[c]) = seen[c] - seen[c] BY <3>2, <3>3, <4>1, AtMinus
      <4> QED BY <3>3, <4>2
    <3>5. seen[c] < pt BY <1>1, <3>1, <3>4 DEF Consuming
    <3>6. consHead = At(b, Len(popped)) BY <3>1 DEF Counting
    <3>7. Inc(consHead) = At(b, Len(popped) + 1) BY <3>3, <3>6, AtNext
    <3> QED BY <1>1, <2>1, <2>3, <2>4, <3>2, <3>5, <3>7 DEF Consuming, Taken
  <2> QED BY <1>1, <2>1, <2>2, <2>3, <2>4, <2>5, <2>6, LocalConsumer DEF Shared
<1> QED BY <1>2, <1>3

-----------------------------------------------------------------------------
(* Steps of a push that moves a counter or writes *)

\* The exchange on prodHead_ succeeds: the head is not stale, so the slot is free.
LEMMA ReserveInv ==
    ASSUME Inv, NotLapped, NEW p \in Producers, PushReserve(p), prodHead = head[p]
    PROVE  Inv'
<1>0. Typed /\ Apart /\ PopsInOrder BY DEF Inv
<1>1. /\ pc[p] = "reserve" /\ p \in Threads /\ pc' = [pc EXCEPT ![p] = "write"]
      /\ prodHead' = Inc(head[p]) /\ pushed' = Append(pushed, Item(p))
      /\ UNCHANGED <<head, seen, data, prodTail, consHead, consTail, tail, nxt, pushes, ticket, popped>>
  BY DEF PushReserve, Goto, Threads
<1>2. PICK b, pt, ct : Numbers(b, pt, ct) BY NumbersExist
<1>3. Producing(b, pt, ct, p) /\ Counting(b, pt, ct) /\ Stored(b, pt, ct) BY <1>2 DEF Numbers, InvAt
<1>4. /\ b \in Nat /\ pt \in Nat /\ ct \in Nat /\ Len(pushed) \in Nat /\ Len(popped) \in Nat
      /\ ct <= Len(popped) /\ Len(popped) <= pt /\ pt <= Len(pushed)
  BY <1>0, <1>2, Orders
<1>5. seen[p] = Len(pushed)
  <2>1. head[p] = At(b, seen[p]) /\ seen[p] <= Len(pushed) /\ seen[p] \in Nat
    BY <1>0, <1>1, <1>3 DEF Producing, Typed
  <2>2. Len(pushed) < seen[p] + Wrap BY <1>1 DEF NotLapped
  <2>3. At(b, seen[p]) = At(b, Len(pushed)) BY <1>3, <2>1 DEF Counting
  <2> QED BY <1>4, <2>1, <2>2, <2>3, AtSame
<1>6. Len(pushed) < ct + Entries BY <1>1, <1>3, <1>5 DEF Producing
<1>7. Item(p) \in Items /\ Item(p)' = Item(p) BY <1>0, <1>1 DEF Item, Items, Typed
<1>8. /\ pushed' \in Seq(Items) /\ Len(pushed') = Len(pushed) + 1
      /\ Grown(pushed, pushed') /\ pushed'[Len(pushed) + 1] = Item(p)
  BY <1>0, <1>1, <1>7 DEF Typed, Grown
<1>9. Typed'
  <2>1. pc' = [t \in Threads |-> pc'[t]] BY <1>0, <1>1 DEF Typed
  <2> QED BY <1>0, <1>1, <1>8, <2>1 DEF Typed
<1>10. OthersSteady(p) /\ pc'[p] = "write" BY <1>0, <1>1 DEF OthersSteady, Steady, Typed
<1>11. prodHead' = At(b, Len(pushed) + 1)
  BY <1>1, <1>3, <1>4, AtNext DEF Counting
<1>12. Counting(b, pt, ct)' BY <1>1, <1>3, <1>4, <1>6, <1>8, <1>11, Widths DEF Counting
<1>13. Stored(b, pt, ct)'
  <2> SUFFICES ASSUME NEW n \in ct .. pt - 1 PROVE data'[Place(b, n)] = pushed'[n + 1]
    BY DEF Stored
  <2>1. n + 1 \in 1 .. Len(pushed) BY <1>4
  <2>2. pushed'[n + 1] = pushed[n + 1] BY <1>8, <2>1 DEF Grown
  <2> QED BY <1>1, <1>3, <2>2 DEF Stored
<1>14. PopsInOrder'
  <2> SUFFICES ASSUME NEW i \in 1 .. Len(popped), popped[i] # Pending PROVE popped[i] = pushed'[i]
    BY <1>1 DEF PopsInOrder
  <2>1. i \in 1 .. Len(pushed) BY <1>4
  <2>2. pushed'[i] = pushed[i] BY <1>8, <2>1 DEF Grown
  <2> QED BY <1>0, <2>2 DEF PopsInOrder
<1>15. ASSUME NEW q \in Producers, q # p
       PROVE  /\ Producing(b, pt, ct, q)' /\ (Reserved(q)' <=> Reserved(q)) /\ seen'[q] = seen[q]
              /\ Reserved(q) => seen[q] < Len(pushed)
  <2>1. Steady(q) /\ pushes'[q] = pushes[q] BY <1>1, <1>10, <1>15 DEF OthersSteady, Threads
  <2>2. Reserved(q) => pt <= seen[q] /\ seen[q] < Len(pushed) BY <1>2 DEF Numbers, InvAt, Producing
  <2>3. ct <= ct BY <1>4
  <2> QED BY <1>0, <1>1, <1>2, <1>4, <1>8, <2>1, <2>2, <2>3, ProducerStays DEF Steady
<1>16. Producing(b, pt, ct, p)'
  <2>1. head[p] = At(b, seen[p]) BY <1>1, <1>3 DEF Producing
  <2> QED BY <1>1, <1>4, <1>5, <1>7, <1>8, <1>10, <2>1 DEF Producing, Reserved
<1>17. ASSUME NEW c \in Consumers
       PROVE  Consuming(b, pt, ct, c)' /\ (Taken(c)' <=> Taken(c)) /\ seen'[c] = seen[c]
  <2>1. Steady(c) BY <1>10, Different DEF OthersSteady, Threads
  <2>2. Taken(c) => ct <= seen[c] BY <1>2 DEF Numbers, InvAt, Consuming
  <2>3. pt <= pt /\ Len(popped) <= Len(popped') /\ Len(popped') \in Nat BY <1>1, <1>4
  <2> QED BY <1>0, <1>1, <1>2, <1>4, <2>1, <2>2, <2>3, ConsumerStays DEF Steady
<1>18. Apart'
  <2>1. \A q \in Producers : q # p /\ Reserved(q)' => seen'[q] # seen'[p]
    BY <1>1, <1>4, <1>5, <1>15
  <2>2. \A q, r \in Producers : q # p /\ r # p /\ q # r /\ Reserved(q)' /\ Reserved(r)' => seen'[q] # seen'[r]
    BY <1>0, <1>15 DEF Apart
  <2>3. \A c, d \in Consumers : c # d /\ Taken(c)' /\ Taken(d)' => seen'[c] # seen'[d]
    BY <1>0, <1>17 DEF Apart
  <2> QED BY <2>1, <2>2, <2>3 DEF Apart
<1>19. b \in 0 .. Wrap - 1 /\ pt \in 0 .. Len(pushed') /\ ct \in 0 .. Len(popped')
  BY <1>1, <1>2, <1>4, <1>8 DEF Numbers
<1>20. \A q \in Producers : Producing(b, pt, ct, q)' BY <1>15, <1>16
<1> QED BY <1>9, <1>12, <1>13, <1>14, <1>17, <1>18, <1>19, <1>20, Gather

\* The item is written into a slot that nobody else writes and that holds
\* nothing published.
LEMMA PushWriteInv ==
    ASSUME Inv, NEW p \in Producers, PushWrite(p) PROVE Inv'
<1>0. Typed /\ Apart /\ PopsInOrder BY DEF Inv
<1>1. /\ pc[p] = "write" /\ p \in Threads /\ pc' = [pc EXCEPT ![p] = "publish"]
      /\ data' = [data EXCEPT ![Slot(head[p])] = Item(p)]
      /\ UNCHANGED <<head, seen, prodHead, prodTail, consHead, consTail, tail, nxt, pushes, pushed, ticket, popped>>
  BY DEF PushWrite, Goto, Threads, counters
<1>2. PICK b, pt, ct : Numbers(b, pt, ct) BY NumbersExist
<1>3. Producing(b, pt, ct, p) /\ Counting(b, pt, ct) /\ Stored(b, pt, ct) BY <1>2 DEF Numbers, InvAt
<1>4. /\ b \in Nat /\ pt \in Nat /\ ct \in Nat /\ Len(pushed) \in Nat /\ Len(popped) \in Nat
      /\ ct <= Len(popped) /\ Len(popped) <= pt /\ pt <= Len(pushed) /\ Len(pushed) <= ct + Entries
  BY <1>0, <1>2, Orders
<1>5. /\ head[p] = At(b, seen[p]) /\ seen[p] \in Nat /\ pt <= seen[p] /\ seen[p] < Len(pushed)
      /\ pushed[seen[p] + 1] = Item(p) /\ Reserved(p)
  BY <1>0, <1>1, <1>3 DEF Producing, Reserved, Typed
<1>6. /\ data'[Place(b, seen[p])] = Item(p)
      /\ \A s \in 0 .. Entries - 1 : s # Place(b, seen[p]) => data'[s] = data[s]
  <2>1. Slot(head[p]) = Place(b, seen[p]) /\ Place(b, seen[p]) \in 0 .. Entries - 1
    BY <1>4, <1>5, SlotAt, PlaceBounds
  <2> QED BY <1>0, <1>1, <2>1 DEF Typed
<1>7. ASSUME NEW n \in Nat, ct <= n, n < ct + Entries, n # seen[p]
      PROVE  data'[Place(b, n)] = data[Place(b, n)]
  <2>1. n < seen[p] + Entries /\ seen[p] < n + Entries BY <1>4, <1>5, <1>7, Widths
  <2>2. n <= seen[p] \/ seen[p] <= n BY <1>5
  <2>3. Place(b, n) # Place(b, seen[p]) BY <1>4, <1>5, <1>7, <2>1, <2>2, PlaceSame
  <2> QED BY <1>4, <1>6, <2>3, PlaceBounds
<1>8. Typed'
  <2>1. pc' = [t \in Threads |-> pc'[t]] BY <1>0, <1>1 DEF Typed
  <2>2. data' = [s \in 0 .. Entries - 1 |-> data'[s]] BY <1>0, <1>1 DEF Typed
  <2> QED BY <1>0, <1>1, <2>1, <2>2 DEF Typed
<1>9. OthersSteady(p) /\ pc'[p] = "publish" BY <1>0, <1>1 DEF OthersSteady, Steady, Typed
<1>10. Counting(b, pt, ct)' /\ PopsInOrder' BY <1>0, <1>1, <1>3 DEF Counting, PopsInOrder
<1>11. Stored(b, pt, ct)'
  <2> SUFFICES ASSUME NEW n \in ct .. pt - 1 PROVE data'[Place(b, n)] = pushed[n + 1]
    BY <1>1 DEF Stored
  <2>1. n \in Nat /\ ct <= n /\ n < ct + Entries /\ n # seen[p] BY <1>4, <1>5, Widths
  <2> QED BY <1>3, <1>7, <2>1 DEF Stored
<1>12. ASSUME NEW q \in Producers, q # p
       PROVE  Producing(b, pt, ct, q)' /\ (Reserved(q)' <=> Reserved(q))
  <2>1. Steady(q) /\ pushes'[q] = pushes[q] BY <1>1, <1>9, <1>12 DEF OthersSteady, Threads
  <2>2. Reserved(q) => pt <= seen[q] /\ seen[q] < Len(pushed) BY <1>2 DEF Numbers, InvAt, Producing
  <2>3. pc[q] = "publish" => data'[Place(b, seen[q])] = data[Place(b, seen[q])]
    <3> SUFFICES ASSUME pc[q] = "publish" PROVE data'[Place(b, seen[q])] = data[Place(b, seen[q])]
      OBVIOUS
    <3>1. Reserved(q) BY DEF Reserved
    <3>2. seen[q] # seen[p] BY <1>0, <1>5, <1>12, <3>1 DEF Apart
    <3>3. seen[q] \in Nat BY <1>0 DEF Typed, Threads
    <3>4. ct <= seen[q] /\ seen[q] < ct + Entries BY <1>4, <2>2, <3>1, <3>3, Widths
    <3> QED BY <1>7, <3>2, <3>3, <3>4
  <2>4. ct <= ct /\ Grown(pushed, pushed') /\ pushed' \in Seq(Items)
    BY <1>0, <1>1, <1>4 DEF Grown, Typed
  <2> QED BY <1>0, <1>2, <1>4, <2>1, <2>2, <2>3, <2>4, ProducerStays
<1>13. Producing(b, pt, ct, p)'
  <2>1. Item(p)' = Item(p) BY <1>1 DEF Item
  <2> QED BY <1>1, <1>4, <1>5, <1>6, <1>9, <2>1 DEF Producing, Reserved
<1>14. ASSUME NEW c \in Consumers
       PROVE  Consuming(b, pt, ct, c)' /\ (Taken(c)' <=> Taken(c))
  <2>1. Steady(c) BY <1>9, Different DEF OthersSteady, Threads
  <2>2. Taken(c) => ct <= seen[c] BY <1>2 DEF Numbers, InvAt, Consuming
  <2>3. pt <= pt /\ Len(popped) <= Len(popped') /\ Len(popped') \in Nat BY <1>1, <1>4
  <2> QED BY <1>0, <1>1, <1>2, <1>4, <2>1, <2>2, <2>3, ConsumerStays
<1>15. Apart' BY <1>0, <1>1, <1>5, <1>12, <1>14 DEF Apart
<1>16. b \in 0 .. Wrap - 1 /\ pt \in 0 .. Len(pushed') /\ ct \in 0 .. Len(popped')
  BY <1>1, <1>2 DEF Numbers
<1>17. \A q \in Producers : Producing(b, pt, ct, q)' BY <1>12, <1>13
<1> QED BY <1>8, <1>10, <1>11, <1>14, <1>15, <1>16, <1>17, Gather

\* prodTail_ moves on: its spin has ended with the push that is next in turn.
LEMMA PushPublishInv ==
    ASSUME Inv, NEW p \in Producers, PushPublish(p) PROVE Inv'
<1>0. Typed /\ Apart /\ PopsInOrder BY DEF Inv
<1>1. /\ pc[p] = "publish" /\ p \in Threads /\ prodTail = head[p] /\ prodTail' = Inc(head[p])
      /\ pc' = [pc EXCEPT ![p] = "idle"] /\ head' = [head EXCEPT ![p] = 0]
      /\ seen' = [seen EXCEPT ![p] = 0]
      /\ UNCHANGED <<data, prodHead, consHead, consTail, tail, nxt, pushes, pushed, ticket, popped>>
  BY DEF PushPublish, Return, Goto, Threads
<1>2. PICK b, pt, ct : Numbers(b, pt, ct) BY NumbersExist
<1>3. Producing(b, pt, ct, p) /\ Counting(b, pt, ct) /\ Stored(b, pt, ct) BY <1>2 DEF Numbers, InvAt
<1>4. /\ b \in Nat /\ pt \in Nat /\ ct \in Nat /\ Len(pushed) \in Nat /\ Len(popped) \in Nat
      /\ ct <= Len(popped) /\ Len(popped) <= pt /\ pt <= Len(pushed) /\ Len(pushed) <= ct + Entries
  BY <1>0, <1>2, Orders
<1>5. /\ head[p] = At(b, seen[p]) /\ seen[p] \in Nat /\ pt <= seen[p] /\ seen[p] < Len(pushed)
      /\ pushed[seen[p] + 1] = Item(p) /\ Reserved(p) /\ data[Place(b, seen[p])] = Item(p)
  BY <1>0, <1>1, <1>3 DEF Producing, Reserved, Typed
<1>6. seen[p] = pt
  <2>1. seen[p] < pt + Wrap BY <1>4, <1>5, Widths
  <2>2. At(b, pt) = At(b, seen[p]) BY <1>1, <1>3, <1>5 DEF Counting
  <2> QED BY <1>4, <1>5, <2>1, <2>2, AtSame
<1>7. PICK qt \in Nat : qt = pt + 1 BY <1>4
<1>8. prodTail' = At(b, qt) BY <1>1, <1>4, <1>5, <1>6, <1>7, AtNext
<1>9. Typed' BY <1>0, <1>1 DEF Typed
<1>10. OthersSteady(p) /\ pc'[p] = "idle" BY <1>0, <1>1 DEF OthersSteady, Steady, Typed
<1>11. Counting(b, qt, ct)' /\ PopsInOrder'
  BY <1>0, <1>1, <1>3, <1>4, <1>5, <1>6, <1>7, <1>8 DEF Counting, PopsInOrder
<1>12. Stored(b, qt, ct)'
  <2> SUFFICES ASSUME NEW n \in ct .. qt - 1 PROVE data[Place(b, n)] = pushed[n + 1]
    BY <1>1 DEF Stored
  <2>1. n \in ct .. pt - 1 \/ n = pt BY <1>4, <1>7
  <2> QED BY <1>3, <1>5, <1>6, <2>1 DEF Stored
<1>13. ASSUME NEW q \in Producers, q # p
       PROVE  Producing(b, qt, ct, q)' /\ (Reserved(q)' <=> Reserved(q)) /\ seen'[q] = seen[q]
  <2>1. Steady(q) /\ pushes'[q] = pushes[q] BY <1>1, <1>10, <1>13 DEF OthersSteady, Threads
  <2>2. Reserved(q) => qt <= seen[q]
    <3> SUFFICES ASSUME Reserved(q) PROVE qt <= seen[q] OBVIOUS
    <3>1. pt <= seen[q] BY <1>2 DEF Numbers, InvAt, Producing
    <3>2. seen[q] # pt BY <1>0, <1>5, <1>6, <1>13 DEF Apart
    <3>3. seen[q] \in Nat BY <1>0 DEF Typed, Threads
    <3> QED BY <1>4, <1>7, <3>1, <3>2, <3>3
  <2>3. ct <= ct /\ Grown(pushed, pushed') /\ pushed' \in Seq(Items)
    BY <1>0, <1>1, <1>4 DEF Grown, Typed
  <2> QED BY <1>0, <1>1, <1>2, <1>4, <2>1, <2>2, <2>3, ProducerStays DEF Steady
<1>14. Producing(b, qt, ct, p)' /\ ~ Reserved(p)' BY <1>10 DEF Producing, Reserved
<1>15. ASSUME NEW c \in Consumers
       PROVE  Consuming(b, qt, ct, c)' /\ (Taken(c)' <=> Taken(c)) /\ seen'[c] = seen[c]
  <2>1. Steady(c) BY <1>10, Different DEF OthersSteady, Threads
  <2>2. Taken(c) => ct <= seen[c] BY <1>2 DEF Numbers, InvAt, Consuming
  <2>3. pt <= qt /\ Len(popped) <= Len(popped') /\ Len(popped') \in Nat BY <1>1, <1>4, <1>7
  <2> QED BY <1>0, <1>1, <1>2, <1>4, <2>1, <2>2, <2>3, ConsumerStays DEF Steady
<1>16. Apart'
  <2>1. \A q, r \in Producers : q # r /\ Reserved(q)' /\ Reserved(r)' => seen'[q] # seen'[r]
    BY <1>0, <1>13, <1>14 DEF Apart
  <2>2. \A c, d \in Consumers : c # d /\ Taken(c)' /\ Taken(d)' => seen'[c] # seen'[d]
    BY <1>0, <1>15 DEF Apart
  <2> QED BY <2>1, <2>2 DEF Apart
<1>17. b \in 0 .. Wrap - 1 /\ qt \in 0 .. Len(pushed') /\ ct \in 0 .. Len(popped')
  BY <1>1, <1>2, <1>4, <1>5, <1>6, <1>7 DEF Numbers
<1>18. \A q \in Producers : Producing(b, qt, ct, q)' BY <1>13, <1>14
<1> QED BY <1>9, <1>11, <1>12, <1>15, <1>16, <1>17, <1>18, Gather

-----------------------------------------------------------------------------
(* Steps of a pop that moves a counter or reads *)

\* A step of consumer c leaves the producers where they are.
LEMMA ProducersStay ==
    ASSUME Typed, NEW b, NEW pt, NEW ct, Numbers(b, pt, ct), NEW c \in Consumers, OthersSteady(c),
           UNCHANGED <<data, pushes, pushed>>, NEW dt \in Nat, ct <= dt
    PROVE  \A q \in Producers :
              Producing(b, pt, dt, q)' /\ (Reserved(q)' <=> Reserved(q)) /\ seen'[q] = seen[q]
<1> SUFFICES ASSUME NEW q \in Producers
             PROVE  Producing(b, pt, dt, q)' /\ (Reserved(q)' <=> Reserved(q)) /\ seen'[q] = seen[q]
  OBVIOUS
<1>1. Steady(q) /\ pushes'[q] = pushes[q] BY Different DEF OthersSteady, Threads
<1>2. Reserved(q) => pt <= seen[q] BY DEF Numbers, InvAt, Producing
<1>3. pt \in Nat /\ Grown(pushed, pushed') /\ pushed' \in Seq(Items) BY Orders DEF Grown, Typed
<1>4. Producing(b, pt, dt, q)' /\ (Reserved(q)' <=> Reserved(q)) BY <1>1, <1>2, <1>3, ProducerStays
<1> QED BY <1>1, <1>4 DEF Steady

\* The exchange on consHead_ succeeds: the head is not stale, so its slot is published.
LEMMA TakeInv ==
    ASSUME Inv, NotLapped, NEW c \in Consumers, PopTake(c), consHead = head[c]
    PROVE  Inv'
<1>0. Typed /\ Apart /\ PopsInOrder BY DEF Inv
<1>1. /\ pc[c] = "take" /\ c \in Threads /\ pc' = [pc EXCEPT ![c] = "read"]
      /\ consHead' = nxt[c] /\ ticket' = [ticket EXCEPT ![c] = Len(popped) + 1]
      /\ popped' = Append(popped, Pending)
      /\ UNCHANGED <<head, seen, data, prodHead, prodTail, consTail, tail, nxt, pushes, pushed>>
  BY DEF PopTake, Goto, Threads
<1>2. PICK b, pt, ct : Numbers(b, pt, ct) BY NumbersExist
<1>3. Consuming(b, pt, ct, c) /\ Counting(b, pt, ct) /\ Stored(b, pt, ct) BY <1>2 DEF Numbers, InvAt
<1>4. /\ b \in Nat /\ pt \in Nat /\ ct \in Nat /\ Len(pushed) \in Nat /\ Len(popped) \in Nat
      /\ ct <= Len(popped) /\ Len(popped) <= pt /\ pt <= Len(pushed) /\ Len(pushed) <= ct + Entries
  BY <1>0, <1>2, Orders
<1>5. seen[c] = Len(popped) /\ head[c] = At(b, seen[c])
  <2>1. head[c] = At(b, seen[c]) /\ seen[c] <= Len(popped) /\ seen[c] \in Nat
    BY <1>0, <1>1, <1>3 DEF Consuming, Typed
  <2>2. Len(popped) < seen[c] + Wrap BY <1>1 DEF NotLapped
  <2>3. At(b, seen[c]) = At(b, Len(popped)) BY <1>3, <2>1 DEF Counting
  <2> QED BY <1>4, <2>1, <2>2, <2>3, AtSame
<1>6. seen[c] < pt /\ nxt[c] = At(b, seen[c] + 1) BY <1>1, <1>3, <1>5 DEF Consuming
<1>7. /\ popped' \in Seq(Items \cup {Pending}) /\ Len(popped') = Len(popped) + 1
      /\ Grown(popped, popped') /\ popped'[Len(popped) + 1] = Pending
  BY <1>0, <1>1 DEF Typed, Grown
<1>8. Typed'
  <2>1. pc' = [t \in Threads |-> pc'[t]] BY <1>0, <1>1 DEF Typed
  <2>2. ticket' = [d \in Consumers |-> ticket'[d]] BY <1>0, <1>1 DEF Typed
  <2> QED BY <1>0, <1>1, <1>7, <2>1, <2>2 DEF Typed
<1>9. OthersSteady(c) /\ pc'[c] = "read" /\ ticket'[c] = Len(popped) + 1
  BY <1>0, <1>1 DEF OthersSteady, Steady, Typed
<1>10. Counting(b, pt, ct)' BY <1>1, <1>3, <1>4, <1>5, <1>6, <1>7 DEF Counting
<1>11. Stored(b, pt, ct)' BY <1>1, <1>3 DEF Stored
<1>12. PopsInOrder'
  <2> SUFFICES ASSUME NEW i \in 1 .. Len(popped) + 1, popped'[i] # Pending
               PROVE  popped'[i] = pushed[i]
    BY <1>1, <1>7 DEF PopsInOrder
  <2>1. i \in 1 .. Len(popped) BY <1>4, <1>7
  <2>2. popped'[i] = popped[i] BY <1>7, <2>1 DEF Grown
  <2> QED BY <1>0, <2>1, <2>2 DEF PopsInOrder
<1>13. \A q \in Producers :
          Producing(b, pt, ct, q)' /\ (Reserved(q)' <=> Reserved(q)) /\ seen'[q] = seen[q]
  <2>1. ct <= ct BY <1>4
  <2> QED BY <1>0, <1>1, <1>2, <1>4, <1>9, <2>1, ProducersStay
<1>14. ASSUME NEW d \in Consumers, d # c
       PROVE  /\ Consuming(b, pt, ct, d)' /\ (Taken(d)' <=> Taken(d)) /\ seen'[d] = seen[d]
              /\ Taken(d) => seen[d] < Len(popped)
  <2>1. Steady(d) /\ tail'[d] = tail[d] /\ nxt'[d] = nxt[d] /\ ticket'[d] = ticket[d]
    BY <1>0, <1>1, <1>9, <1>14 DEF OthersSteady, Threads, Typed
  <2>2. Taken(d) => ct <= seen[d] /\ seen[d] < Len(popped) BY <1>2 DEF Numbers, InvAt, Consuming
  <2>3. pt <= pt /\ Len(popped) <= Len(popped') /\ Len(popped') \in Nat BY <1>4, <1>7
  <2> QED BY <1>0, <1>2, <1>4, <2>1, <2>2, <2>3, ConsumerStays DEF Steady
<1>15. Consuming(b, pt, ct, c)'
  BY <1>1, <1>4, <1>5, <1>6, <1>7, <1>9 DEF Consuming, Taken
<1>16. Apart'
  <2>1. \A d \in Consumers : d # c /\ Taken(d)' => seen'[d] # seen'[c]
    BY <1>1, <1>4, <1>5, <1>14
  <2>2. \A d, e \in Consumers : d # c /\ e # c /\ d # e /\ Taken(d)' /\ Taken(e)' => seen'[d] # seen'[e]
    BY <1>0, <1>14 DEF Apart
  <2>3. \A p, q \in Producers : p # q /\ Reserved(p)' /\ Reserved(q)' => seen'[p] # seen'[q]
    BY <1>0, <1>13 DEF Apart
  <2> QED BY <2>1, <2>2, <2>3 DEF Apart
<1>17. b \in 0 .. Wrap - 1 /\ pt \in 0 .. Len(pushed') /\ ct \in 0 .. Len(popped')
  BY <1>1, <1>2, <1>4, <1>7 DEF Numbers
<1>18. \A d \in Consumers : Consuming(b, pt, ct, d)' BY <1>14, <1>15
<1> QED BY <1>8, <1>10, <1>11, <1>12, <1>13, <1>16, <1>17, <1>18, Gather

\* The slot still holds the item that was pushed as the ticket says.
LEMMA PopReadInv ==
    ASSUME Inv, NEW c \in Consumers, PopRead(c) PROVE Inv'
<1>0. Typed /\ Apart /\ PopsInOrder BY DEF Inv
<1>1. /\ pc[c] = "read" /\ c \in Threads /\ pc' = [pc EXCEPT ![c] = "release"]
      /\ popped' = [popped EXCEPT ![ticket[c]] = data[Slot(head[c])]]
      /\ UNCHANGED <<data, prodHead, prodTail, consHead, consTail, head, seen, tail, nxt, pushes, pushed, ticket>>
  BY DEF PopRead, Goto, Threads, counters
<1>2. PICK b, pt, ct : Numbers(b, pt, ct) BY NumbersExist
<1>3. Consuming(b, pt, ct, c) /\ Counting(b, pt, ct) /\ Stored(b, pt, ct) BY <1>2 DEF Numbers, InvAt
<1>4. /\ b \in Nat /\ pt \in Nat /\ ct \in Nat /\ Len(pushed) \in Nat /\ Len(popped) \in Nat
      /\ ct <= Len(popped) /\ Len(popped) <= pt /\ pt <= Len(pushed) /\ Len(pushed) <= ct + Entries
  BY <1>0, <1>2, Orders
<1>5. PICK n \in Nat : n = seen[c] BY <1>0, <1>1 DEF Typed
<1>6. /\ head[c] = At(b, n) /\ ct <= n /\ n < Len(popped) /\ ticket[c] = n + 1
      /\ nxt[c] = At(b, n + 1) /\ Taken(c)
  BY <1>1, <1>3, <1>5 DEF Consuming, Taken
<1>7. data[Slot(head[c])] = pushed[n + 1]
  <2>1. n \in ct .. pt - 1 BY <1>4, <1>6
  <2> QED BY <1>3, <1>4, <1>6, <2>1, SlotAt DEF Stored
<1>8. n + 1 \in 1 .. Len(popped) /\ n + 1 \in 1 .. Len(pushed) BY <1>4, <1>6
<1>9. pushed[n + 1] \in Items BY <1>0, <1>8 DEF Typed
<1>10. /\ popped' \in Seq(Items \cup {Pending}) /\ Len(popped') = Len(popped)
       /\ popped'[n + 1] = pushed[n + 1]
       /\ \A i \in 1 .. Len(popped) : i # n + 1 => popped'[i] = popped[i]
  BY <1>0, <1>1, <1>6, <1>7, <1>8, <1>9 DEF Typed
<1>11. Typed'
  <2>1. pc' = [t \in Threads |-> pc'[t]] BY <1>0, <1>1 DEF Typed
  <2> QED BY <1>0, <1>1, <1>10, <2>1 DEF Typed
<1>12. OthersSteady(c) /\ pc'[c] = "release" BY <1>0, <1>1 DEF OthersSteady, Steady, Typed
<1>13. Counting(b, pt, ct)' BY <1>1, <1>3, <1>10 DEF Counting
<1>14. Stored(b, pt, ct)' BY <1>1, <1>3 DEF Stored
<1>15. PopsInOrder' BY <1>0, <1>1, <1>10 DEF PopsInOrder
<1>16. \A q \in Producers :
          Producing(b, pt, ct, q)' /\ (Reserved(q)' <=> Reserved(q)) /\ seen'[q] = seen[q]
  <2>1. ct <= ct BY <1>4
  <2> QED BY <1>0, <1>1, <1>2, <1>4, <1>12, <2>1, ProducersStay
<1>17. ASSUME NEW d \in Consumers, d # c
       PROVE  Consuming(b, pt, ct, d)' /\ (Taken(d)' <=> Taken(d))
  <2>1. Steady(d) /\ tail'[d] = tail[d] /\ nxt'[d] = nxt[d] /\ ticket'[d] = ticket[d]
    BY <1>1, <1>12, <1>17 DEF OthersSteady, Threads
  <2>2. Taken(d) => ct <= seen[d] BY <1>2 DEF Numbers, InvAt, Consuming
  <2>3. pt <= pt /\ Len(popped) <= Len(popped') /\ Len(popped') \in Nat BY <1>4, <1>10
  <2> QED BY <1>0, <1>2, <1>4, <2>1, <2>2, <2>3, ConsumerStays
<1>18. Consuming(b, pt, ct, c)' BY <1>1, <1>4, <1>5, <1>6, <1>10, <1>12 DEF Consuming, Taken
<1>19. Apart' BY <1>0, <1>1, <1>6, <1>16, <1>17 DEF Apart
<1>20. b \in 0 .. Wrap - 1 /\ pt \in 0 .. Len(pushed') /\ ct \in 0 .. Len(popped')
  BY <1>1, <1>2, <1>10 DEF Numbers
<1>21. \A d \in Consumers : Consuming(b, pt, ct, d)' BY <1>17, <1>18
<1> QED BY <1>11, <1>13, <1>14, <1>15, <1>16, <1>19, <1>20, <1>21, Gather

\* consTail_ moves on: its spin has ended with the pop that is next in turn.
LEMMA PopReleaseInv ==
    ASSUME Inv, NEW c \in Consumers, PopRelease(c) PROVE Inv'
<1>0. Typed /\ Apart /\ PopsInOrder BY DEF Inv
<1>1. /\ pc[c] = "release" /\ c \in Threads /\ consTail = head[c] /\ consTail' = nxt[c]
      /\ pc' = [pc EXCEPT ![c] = "idle"] /\ head' = [head EXCEPT ![c] = 0]
      /\ seen' = [seen EXCEPT ![c] = 0] /\ nxt' = [nxt EXCEPT ![c] = 0]
      /\ ticket' = [ticket EXCEPT ![c] = 0]
      /\ UNCHANGED <<data, prodHead, prodTail, consHead, tail, pushes, pushed, popped>>
  BY DEF PopRelease, Return, Goto, Threads
<1>2. PICK b, pt, ct : Numbers(b, pt, ct) BY NumbersExist
<1>3. Consuming(b, pt, ct, c) /\ Counting(b, pt, ct) /\ Stored(b, pt, ct) BY <1>2 DEF Numbers, InvAt
<1>4. /\ b \in Nat /\ pt \in Nat /\ ct \in Nat /\ Len(pushed) \in Nat /\ Len(popped) \in Nat
      /\ ct <= Len(popped) /\ Len(popped) <= pt /\ pt <= Len(pushed) /\ Len(pushed) <= ct + Entries
  BY <1>0, <1>2, Orders
<1>5. /\ head[c] = At(b, seen[c]) /\ seen[c] \in Nat /\ ct <= seen[c] /\ seen[c] < Len(popped)
      /\ nxt[c] = At(b, seen[c] + 1) /\ Taken(c)
  BY <1>0, <1>1, <1>3 DEF Consuming, Taken, Typed
<1>6. seen[c] = ct
  <2>1. seen[c] < ct + Wrap BY <1>4, <1>5, Widths
  <2>2. At(b, ct) = At(b, seen[c]) BY <1>1, <1>3, <1>5 DEF Counting
  <2> QED BY <1>4, <1>5, <2>1, <2>2, AtSame
<1>7. PICK dt \in Nat : dt = ct + 1 BY <1>4
<1>8. consTail' = At(b, dt) BY <1>1, <1>5, <1>6, <1>7
<1>9. Typed' BY <1>0, <1>1 DEF Typed
<1>10. OthersSteady(c) /\ pc'[c] = "idle" BY <1>0, <1>1 DEF OthersSteady, Steady, Typed
<1>11. Counting(b, pt, dt)' /\ PopsInOrder'
  BY <1>0, <1>1, <1>3, <1>4, <1>5, <1>6, <1>7, <1>8, Widths DEF Counting, PopsInOrder
<1>12. Stored(b, pt, dt)'
  <2> SUFFICES ASSUME NEW n \in dt .. pt - 1 PROVE data[Place(b, n)] = pushed[n + 1]
    BY <1>1 DEF Stored
  <2>1. n \in ct .. pt - 1 BY <1>4, <1>7
  <2> QED BY <1>3, <2>1 DEF Stored
<1>13. \A q \in Producers :
          Producing(b, pt, dt, q)' /\ (Reserved(q)' <=> Reserved(q)) /\ seen'[q] = seen[q]
  <2>1. ct <= dt BY <1>4, <1>7
  <2> QED BY <1>0, <1>1, <1>2, <1>10, <2>1, ProducersStay
<1>14. ASSUME NEW d \in Consumers, d # c
       PROVE  Consuming(b, pt, dt, d)' /\ (Taken(d)' <=> Taken(d)) /\ seen'[d] = seen[d]
  <2>1. Steady(d) /\ tail'[d] = tail[d] /\ nxt'[d] = nxt[d] /\ ticket'[d] = ticket[d]
    BY <1>0, <1>1, <1>10, <1>14 DEF OthersSteady, Threads, Typed
  <2>2. Taken(d) => dt <= seen[d]
    <3> SUFFICES ASSUME Taken(d) PROVE dt <= seen[d] OBVIOUS
    <3>1. ct <= seen[d] BY <1>2 DEF Numbers, InvAt, Consuming
    <3>2. seen[d] # ct BY <1>0, <1>5, <1>6, <1>14 DEF Apart
    <3>3. seen[d] \in Nat BY <1>0 DEF Typed, Threads
    <3> QED BY <1>4, <1>7, <3>1, <3>2, <3>3
  <2>3. pt <= pt /\ Len(popped) <= Len(popped') /\ Len(popped') \in Nat BY <1>1, <1>4
  <2> QED BY <1>0, <1>2, <1>4, <2>1, <2>2, <2>3, ConsumerStays DEF Steady
<1>15. Consuming(b, pt, dt, c)' /\ ~ Taken(c)' BY <1>10 DEF Consuming, Taken
<1>16. Apart'
  <2>1. \A p, q \in Producers : p # q /\ Reserved(p)' /\ Reserved(q)' => seen'[p] # seen'[q]
    BY <1>0, <1>13 DEF Apart
  <2>2. \A d, e \in Consumers : d # e /\ Taken(d)' /\ Taken(e)' => seen'[d] # seen'[e]
    BY <1>0, <1>14, <1>15 DEF Apart
  <2> QED BY <2>1, <2>2 DEF Apart
<1>17. b \in 0 .. Wrap - 1 /\ pt \in 0 .. Len(pushed') /\ dt \in 0 .. Len(popped')
  BY <1>1, <1>2, <1>4, <1>5, <1>6, <1>7 DEF Numbers
<1>18. \A d \in Consumers : Consuming(b, pt, dt, d)' BY <1>14, <1>15
<1> QED BY <1>9, <1>11, <1>12, <1>13, <1>16, <1>17, <1>18, Gather

-----------------------------------------------------------------------------
(* The theorems *)

\* The empty ring, wherever its counters are
LEMMA InitInv == Init => Inv
<1> SUFFICES ASSUME Init PROVE Inv OBVIOUS
<1>1. PICK b \in Starts : prodHead = b /\ prodTail = b /\ consHead = b /\ consTail = b BY DEF Init
<1>2. b \in 0 .. Wrap - 1 /\ b \in Nat BY RingAssumption
<1>3. pushed = <<>> /\ popped = <<>> /\ \A t \in Threads : pc[t] = "idle" BY DEF Init
<1>4. Len(pushed) = 0 /\ Len(popped) = 0 BY <1>3
<1>5. At(b, 0) = b
  <2>1. b + 0 = 0 * Wrap + b /\ b + 0 \in Nat BY <1>2, Widths
  <2>2. (b + 0) % Wrap = b BY <1>2, <2>1, Widths, ModIs
  <2> QED BY <2>2 DEF At
<1>6. Typed BY DEF Init, Typed
<1>7. Counting(b, 0, 0) BY <1>1, <1>4, <1>5, Widths DEF Counting
<1>8. \A p \in Producers : Producing(b, 0, 0, p) /\ ~ Reserved(p)
  BY <1>3 DEF Producing, Reserved, Threads
<1>9. \A c \in Consumers : Consuming(b, 0, 0, c) /\ ~ Taken(c)
  BY <1>3 DEF Consuming, Taken, Threads
<1>10. Stored(b, 0, 0) BY DEF Stored
<1>11. Apart /\ PopsInOrder BY <1>4, <1>8, <1>9 DEF Apart, PopsInOrder
<1>12. InvAt(b, 0, 0) BY <1>7, <1>8, <1>9, <1>10 DEF InvAt
<1> QED BY <1>2, <1>4, <1>6, <1>11, <1>12 DEF Inv

\* A step of a producer
LEMMA PushInv ==
    ASSUME Inv, NotLapped, NEW p \in Producers, Push(p) PROVE Inv'
<1>1. CASE PushBegin(p) BY <1>1, LoadProdInv DEF PushBegin, Reserved, Shared
<1>2. CASE PushRoom(p) BY <1>2, PushRoomInv
<1>3. CASE PushReload(p) BY <1>3, LoadProdInv DEF PushReload, Reserved, Shared
<1>4. CASE PushReserve(p)
  <2>1. CASE prodHead = head[p] BY <1>4, <2>1, ReserveInv
  <2>2. CASE prodHead # head[p]
    BY <1>4, <2>2, LoadProdInv DEF PushReserve, Reserved, Shared, counters
  <2> QED BY <2>1, <2>2
<1>5. CASE PushWrite(p) BY <1>5, PushWriteInv
<1>6. CASE PushPublish(p) BY <1>6, PushPublishInv
<1> QED BY <1>1, <1>2, <1>3, <1>4, <1>5, <1>6 DEF Push

\* A step of a consumer
LEMMA PopInv ==
    ASSUME Inv, NotLapped, NEW c \in Consumers, Pop(c) PROVE Inv'
<1>1. CASE PopBegin(c) BY <1>1, LoadConsInv DEF PopBegin, Taken, Shared
<1>2. CASE PopTail(c) BY <1>2, PopTailInv
<1>3. CASE PopNext(c) BY <1>3, PopNextInv
<1>4. CASE PopTake(c)
  <2>1. CASE consHead = head[c] BY <1>4, <2>1, TakeInv
  <2>2. CASE consHead # head[c]
    BY <1>4, <2>2, LoadConsInv DEF PopTake, Taken, Shared, counters
  <2> QED BY <2>1, <2>2
<1>5. CASE PopRead(c) BY <1>5, PopReadInv
<1>6. CASE PopRelease(c) BY <1>6, PopReleaseInv
<1> QED BY <1>1, <1>2, <1>3, <1>4, <1>5, <1>6 DEF Pop

\* Every step keeps the invariant, as long as nobody is lapped.
LEMMA NextInv == Inv /\ NotLapped /\ [Next]_vars => Inv'
<1> SUFFICES ASSUME Inv, NotLapped, [Next]_vars PROVE Inv' OBVIOUS
<1>1. CASE Next BY <1>1, PushInv, PopInv DEF Next
<1>2. CASE UNCHANGED vars
  <2>0. UNCHANGED <<data, prodHead, prodTail, consHead, consTail, pc, head, tail, nxt, pushes,
                    pushed, seen, ticket, popped>>
    BY <1>2 DEF vars, counters, locals
  <2>1. Typed' /\ Apart' /\ PopsInOrder'
    BY <2>0 DEF Inv, Typed, Apart, PopsInOrder, Reserved, Taken
  <2>2. PICK b, pt, ct : Numbers(b, pt, ct) BY NumbersExist
  <2>3. Counting(b, pt, ct)' /\ Stored(b, pt, ct)'
    BY <2>0, <2>2 DEF Numbers, InvAt, Counting, Stored
  <2>4. \A p \in Producers : Producing(b, pt, ct, p)'
    BY <2>0, <2>2 DEF Numbers, InvAt, Producing, Reserved, Item
  <2>5. \A c \in Consumers : Consuming(b, pt, ct, c)'
    BY <2>0, <2>2 DEF Numbers, InvAt, Consuming, Taken
  <2>6. b \in 0 .. Wrap - 1 /\ pt \in 0 .. Len(pushed') /\ ct \in 0 .. Len(popped')
    BY <2>0, <2>2 DEF Numbers
  <2> QED BY <2>1, <2>3, <2>4, <2>5, <2>6, Gather
<1> QED BY <1>1, <1>2

\* The invariant holds for any number of threads, slots and pushes, as long as no
\* thread is lapped between loading head and its exchange.
THEOREM Invariance == Spec /\ []NotLapped => []Inv
BY InitInv, NextInv, PTL DEF Spec

\* The ring is a FIFO (push, pop): the i-th pop that took a slot returns the i-th
\* item that was given one.
THEOREM Fifo == Spec /\ []NotLapped => []PopsInOrder
<1>1. Inv => PopsInOrder BY DEF Inv
<1> QED BY <1>1, Invariance, PTL

\* No slot of data_ is written by two pushes at once, nor under a pop that has yet
\* to read it.
THEOREM NoRaceOnSlots == Spec /\ []NotLapped => []SlotsExclusive
<1>1. ASSUME Inv PROVE SlotsExclusive
  <2>0. Typed /\ Apart BY <1>1 DEF Inv
  <2>1. PICK b, pt, ct : Numbers(b, pt, ct) BY <1>1, NumbersExist
  <2>2. /\ b \in Nat /\ pt \in Nat /\ ct \in Nat /\ Len(pushed) \in Nat /\ Len(popped) \in Nat
        /\ ct <= Len(popped) /\ Len(popped) <= pt /\ pt <= Len(pushed) /\ Len(pushed) <= ct + Entries
    BY <2>0, <2>1, Orders
  <2>3. ASSUME NEW p \in Producers, Writing(p)
        PROVE  /\ seen[p] \in Nat /\ pt <= seen[p] /\ seen[p] < Len(pushed) /\ Reserved(p)
               /\ Slot(head[p]) = Place(b, seen[p])
    <3>1. Producing(b, pt, ct, p) /\ Reserved(p) /\ pc[p] = "write"
      BY <2>1, <2>3 DEF Numbers, InvAt, Writing, Reserved
    <3>2. seen[p] \in Nat BY <2>0 DEF Typed, Threads
    <3> QED BY <2>2, <3>1, <3>2, SlotAt DEF Producing
  <2>4. ASSUME NEW c \in Consumers, Reading(c)
        PROVE  /\ seen[c] \in Nat /\ ct <= seen[c] /\ seen[c] < Len(popped)
               /\ Slot(head[c]) = Place(b, seen[c])
    <3>1. Consuming(b, pt, ct, c) /\ Taken(c) /\ pc[c] = "read"
      BY <2>1, <2>4 DEF Numbers, InvAt, Reading, Taken
    <3>2. seen[c] \in Nat BY <2>0 DEF Typed, Threads
    <3> QED BY <2>2, <3>1, <3>2, SlotAt DEF Consuming
  <2>5. ASSUME NEW m \in Nat, NEW n \in Nat, m # n, ct <= m, m < ct + Entries, ct <= n, n < ct + Entries
        PROVE  Place(b, m) # Place(b, n)
    <3>1. (m <= n /\ n < m + Entries) \/ (n <= m /\ m < n + Entries) BY <2>2, <2>5, Widths
    <3> QED BY <2>2, <2>5, <3>1, PlaceSame
  <2>6. ASSUME NEW p \in Producers, NEW q \in Producers, p # q, Writing(p), Writing(q)
        PROVE  Slot(head[p]) # Slot(head[q])
    <3>1. seen[p] # seen[q] BY <2>0, <2>3, <2>6 DEF Apart
    <3>2. ct <= seen[p] /\ seen[p] < ct + Entries /\ ct <= seen[q] /\ seen[q] < ct + Entries
      BY <2>2, <2>3, <2>6, Widths
    <3>3. Place(b, seen[p]) # Place(b, seen[q]) BY <2>3, <2>5, <2>6, <3>1, <3>2
    <3> QED BY <2>3, <2>6, <3>3
  <2>7. ASSUME NEW p \in Producers, NEW c \in Consumers, Writing(p), Reading(c)
        PROVE  Slot(head[p]) # Slot(head[c])
    <3>1. /\ seen[p] \in Nat /\ pt <= seen[p] /\ seen[p] < Len(pushed)
          /\ seen[c] \in Nat /\ ct <= seen[c] /\ seen[c] < Len(popped)
      BY <2>3, <2>4, <2>7
    <3>2. /\ seen[p] # seen[c] /\ ct <= seen[p] /\ seen[p] < ct + Entries
          /\ ct <= seen[c] /\ seen[c] < ct + Entries
      BY <2>2, <3>1, Widths
    <3>3. Place(b, seen[p]) # Place(b, seen[c]) BY <2>5, <3>1, <3>2
    <3> QED BY <2>3, <2>4, <2>7, <3>3
  <2> QED BY <2>6, <2>7 DEF SlotsExclusive
<1>2. Inv => SlotsExclusive BY <1>1
<1> QED BY <1>2, Invariance, PTL

\* The four counters follow one another around the ring, also across the wrap,
\* and the ring never holds more than it has slots.
THEOREM CountersFollow == Spec /\ []NotLapped => []CountersOrdered
<1>1. ASSUME Inv PROVE CountersOrdered
  <2>0. Typed BY <1>1 DEF Inv
  <2>1. PICK b, pt, ct : Numbers(b, pt, ct) BY <1>1, NumbersExist
  <2>2. /\ b \in Nat /\ pt \in Nat /\ ct \in Nat /\ Len(pushed) \in Nat /\ Len(popped) \in Nat
        /\ ct <= Len(popped) /\ Len(popped) <= pt /\ pt <= Len(pushed) /\ Len(pushed) <= ct + Entries
    BY <2>0, <2>1, Orders
  <2>3. Counting(b, pt, ct) BY <2>1 DEF Numbers, InvAt
  <2>4. ASSUME NEW n \in Nat, ct <= n, n <= Len(pushed) PROVE Minus(At(b, n), At(b, ct)) = n - ct
    <3>1. n < ct + Wrap BY <2>2, <2>4, Widths
    <3> QED BY <2>2, <2>4, <3>1, AtMinus
  <2>5. /\ Minus(prodHead, consTail) = Len(pushed) - ct /\ Minus(prodTail, consTail) = pt - ct
        /\ Minus(consHead, consTail) = Len(popped) - ct
    BY <2>2, <2>3, <2>4 DEF Counting
  <2> QED BY <2>2, <2>5, Widths DEF CountersOrdered
<1>2. Inv => CountersOrdered BY <1>1
<1> QED BY <1>2, Invariance, PTL

\* Until the counters have come round once nobody can be lapped: up to that many
\* pushes the ring is a FIFO whatever its threads do.
THEOREM FifoWithinTurn == Spec /\ [](Len(pushed) < Wrap) => []PopsInOrder
<1>1. Inv /\ Len(pushed) < Wrap => NotLapped
  <2> SUFFICES ASSUME Inv, Len(pushed) < Wrap PROVE NotLapped OBVIOUS
  <2>0. Typed BY DEF Inv
  <2>1. PICK b, pt, ct : Numbers(b, pt, ct) BY NumbersExist
  <2>2. /\ pt \in Nat /\ Len(pushed) \in Nat /\ Len(popped) \in Nat
        /\ Len(popped) <= pt /\ pt <= Len(pushed)
    BY <2>0, <2>1, Orders
  <2>3. \A t \in Threads : seen[t] \in Nat BY <2>0 DEF Typed
  <2> QED BY <2>2, <2>3, Widths DEF NotLapped, Threads
<1>2. Inv => PopsInOrder BY DEF Inv
<1> QED BY <1>1, <1>2, InitInv, NextInv, PTL DEF Spec

=============================================================================
