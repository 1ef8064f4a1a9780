----------------------------- MODULE RingBuffer -----------------------------
(***************************************************************************)
(* The lock-free ring of util/RingBuffer.h, with any number of producers   *)
(* and consumers.  A push reserves a slot by moving prodHead_, writes it    *)
(* and publishes it by moving prodTail_ once all earlier pushes have; a pop *)
(* does the same with consHead_ and consTail_.  One action per atomic       *)
(* access of a thread; a spinning exchange is enabled when it succeeds.     *)
(***************************************************************************)
EXTENDS Naturals, Sequences, FiniteSets

CONSTANTS Producers, Consumers,
          Entries,   \* entries_
          Wrap,      \* 2^32: the counters are uint32_t
          Starts,    \* values the four counters of an empty ring may have reached
          MaxPush    \* bound: pushes of one producer

Threads == Producers \cup Consumers

\* A slot is a counter modulo entries_: across the wrap that is the next slot
\* only if entries_ divides 2^32.
ASSUME RingAssumption ==
    /\ Entries \in Nat \ {0} /\ Wrap \in Nat
    /\ Entries + 1 < Wrap /\ Wrap % Entries = 0
    /\ Starts \subseteq 0 .. Wrap - 1
    /\ MaxPush \in Nat
    /\ Producers \cap Consumers = {}

VARIABLES
    data,                                  \* data_
    prodHead, prodTail, consHead, consTail, \* the four counters
    pc,       \* where each thread is in push or pop
    head,     \* its local prodHead or consHead, 0 when it is idle
    tail,     \* a consumer's local prodTail
    nxt,      \* a consumer's local consNext (prodNext is always prodHead + 1)
    pushes,   \* pushes each producer has begun
    pushed,   \* history: items in the order in which their slots were reserved
    seen,     \* history: how many slots had been reserved when it loaded head
    ticket,   \* history: which pop a consumer is performing
    popped    \* history: popped[i], the item the i-th pop returned

counters == <<prodHead, prodTail, consHead, consTail>>
locals   == <<pc, head, tail, nxt>>
vars     == <<data, counters, locals, pushes, pushed, seen, ticket, popped>>

\* arithmetic of uint32_t
Inc(n)      == (n + 1) % Wrap
Minus(a, b) == ((a + Wrap) - b) % Wrap
Slot(n)     == n % Entries

None    == <<>>            \* never written
Pending == <<"pending">>   \* slot taken by a pop and not read yet
Item(p) == <<p, pushes[p]>>

Init ==
    /\ \E n \in Starts : prodHead = n /\ prodTail = n /\ consHead = n /\ consTail = n
    /\ data = [s \in 0 .. Entries - 1 |-> None]
    /\ pc = [t \in Threads |-> "idle"]
    /\ head = [t \in Threads |-> 0]
    /\ tail = [c \in Consumers |-> 0]
    /\ nxt = [c \in Consumers |-> 0]
    /\ pushes = [p \in Producers |-> 0]
    /\ pushed = <<>>
    /\ seen = [t \in Threads |-> 0]
    /\ ticket = [c \in Consumers |-> 0]
    /\ popped = <<>>

Goto(t, l) == pc' = [pc EXCEPT ![t] = l]
Return(t)  == /\ Goto(t, "idle")
              /\ head' = [head EXCEPT ![t] = 0] /\ seen' = [seen EXCEPT ![t] = 0]

\* loads prodHead_ or consHead_
LoadProd(p) == head' = [head EXCEPT ![p] = prodHead] /\ seen' = [seen EXCEPT ![p] = Len(pushed)]
LoadCons(c) == head' = [head EXCEPT ![c] = consHead] /\ seen' = [seen EXCEPT ![c] = Len(popped)]

-----------------------------------------------------------------------------
(* push *)

PushBegin(p) ==
    /\ pc[p] = "idle" /\ pushes[p] < MaxPush
    /\ pushes' = [pushes EXCEPT ![p] = @ + 1]
    /\ LoadProd(p)
    /\ Goto(p, "room")
    /\ UNCHANGED <<data, counters, tail, nxt, pushed, ticket, popped>>

\* mutant: one slot more than there is
PushRoomOneMore(p) ==
    /\ pc[p] = "room"
    /\ Goto(p, IF Minus(Inc(head[p]), consTail) > Entries + 1 THEN "reload" ELSE "reserve")
    /\ UNCHANGED <<data, counters, head, seen, tail, nxt, pushes, pushed, ticket, popped>>

\* loads consTail_ and compares: is there room behind the consumers?
PushRoom(p) ==
    /\ pc[p] = "room"
    /\ Goto(p, IF Minus(Inc(head[p]), consTail) > Entries THEN "reload" ELSE "reserve")
    /\ UNCHANGED <<data, counters, head, seen, tail, nxt, pushes, pushed, ticket, popped>>

\* full, or head was stale: start over
PushReload(p) ==
    /\ pc[p] = "reload"
    /\ LoadProd(p)
    /\ Goto(p, "room")
    /\ UNCHANGED <<data, counters, tail, nxt, pushes, pushed, ticket, popped>>

\* compare_exchange on prodHead_; a failed one leaves the current value in head
PushReserve(p) ==
    /\ pc[p] = "reserve"
    /\ IF prodHead = head[p]
       THEN /\ prodHead' = Inc(head[p])
            /\ pushed' = Append(pushed, Item(p))
            /\ Goto(p, "write")
            /\ UNCHANGED <<head, seen>>
       ELSE /\ LoadProd(p)
            /\ Goto(p, "room")
            /\ UNCHANGED <<prodHead, pushed>>
    /\ UNCHANGED <<data, prodTail, consHead, consTail, tail, nxt, pushes, ticket, popped>>

PushWrite(p) ==
    /\ pc[p] = "write"
    /\ data' = [data EXCEPT ![Slot(head[p])] = Item(p)]
    /\ Goto(p, "publish")
    /\ UNCHANGED <<counters, head, seen, tail, nxt, pushes, pushed, ticket, popped>>

\* mutant: without the copy of prodHead, the exchange succeeds at the second try
\* although earlier pushes have not published
PushPublishAtOnce(p) ==
    /\ pc[p] = "publish"
    /\ prodTail' = Inc(head[p])
    /\ Return(p)
    /\ UNCHANGED <<data, prodHead, consHead, consTail, tail, nxt, pushes, pushed, ticket, popped>>

\* the spin on prodTail_ ends when all earlier pushes have published
PushPublish(p) ==
    /\ pc[p] = "publish"
    /\ prodTail = head[p]
    /\ prodTail' = Inc(head[p])
    /\ Return(p)
    /\ UNCHANGED <<data, prodHead, consHead, consTail, tail, nxt, pushes, pushed, ticket, popped>>

-----------------------------------------------------------------------------
(* pop *)

PopBegin(c) ==
    /\ pc[c] = "idle"
    /\ LoadCons(c)
    /\ Goto(c, "tail")
    /\ UNCHANGED <<data, counters, tail, nxt, pushes, pushed, ticket, popped>>

PopTail(c) ==
    /\ pc[c] = "tail"
    /\ tail' = [tail EXCEPT ![c] = prodTail]
    /\ Goto(c, "next")
    /\ UNCHANGED <<data, counters, head, seen, nxt, pushes, pushed, ticket, popped>>

\* consNext comes from consHead_ itself, the test for emptiness from the local
\* copy; an empty ring ends the pop without a result
PopNext(c) ==
    /\ pc[c] = "next"
    /\ tail' = [tail EXCEPT ![c] = 0]
    /\ IF Minus(tail[c], head[c]) = 0
       THEN Return(c) /\ UNCHANGED nxt
       ELSE nxt' = [nxt EXCEPT ![c] = Inc(consHead)] /\ Goto(c, "take") /\ UNCHANGED <<head, seen>>
    /\ UNCHANGED <<data, counters, pushes, pushed, ticket, popped>>

PopTake(c) ==
    /\ pc[c] = "take"
    /\ IF consHead = head[c]
       THEN /\ consHead' = nxt[c]
            /\ ticket' = [ticket EXCEPT ![c] = Len(popped) + 1]
            /\ popped' = Append(popped, Pending)
            /\ Goto(c, "read")
            /\ UNCHANGED <<head, seen>>
       ELSE /\ LoadCons(c)
            /\ Goto(c, "tail")
            /\ UNCHANGED <<consHead, ticket, popped>>
    /\ UNCHANGED <<data, prodHead, prodTail, consTail, tail, nxt, pushes, pushed>>

PopRead(c) ==
    /\ pc[c] = "read"
    /\ popped' = [popped EXCEPT ![ticket[c]] = data[Slot(head[c])]]
    /\ Goto(c, "release")
    /\ UNCHANGED <<data, counters, head, seen, tail, nxt, pushes, pushed, ticket>>

\* mutant: gives the slots back out of order
PopReleaseAtOnce(c) ==
    /\ pc[c] = "release"
    /\ consTail' = nxt[c]
    /\ Return(c)
    /\ nxt' = [nxt EXCEPT ![c] = 0]
    /\ ticket' = [ticket EXCEPT ![c] = 0]
    /\ UNCHANGED <<data, prodHead, prodTail, consHead, tail, pushes, pushed, popped>>

\* mutant: the slot is not given back
PopKeep(c) ==
    /\ pc[c] = "release"
    /\ Return(c)
    /\ nxt' = [nxt EXCEPT ![c] = 0]
    /\ ticket' = [ticket EXCEPT ![c] = 0]
    /\ UNCHANGED <<data, counters, tail, pushes, pushed, popped>>

\* the spin on consTail_ ends when all earlier pops have released
PopRelease(c) ==
    /\ pc[c] = "release"
    /\ consTail = head[c]
    /\ consTail' = nxt[c]
    /\ Return(c)
    /\ nxt' = [nxt EXCEPT ![c] = 0]
    /\ ticket' = [ticket EXCEPT ![c] = 0]
    /\ UNCHANGED <<data, prodHead, prodTail, consHead, tail, pushes, pushed, popped>>

-----------------------------------------------------------------------------

Push(p) == \/ PushBegin(p) \/ PushRoom(p) \/ PushReload(p)
           \/ PushReserve(p) \/ PushWrite(p) \/ PushPublish(p)
Pop(c)  == \/ PopBegin(c) \/ PopTail(c) \/ PopNext(c)
           \/ PopTake(c) \/ PopRead(c) \/ PopRelease(c)

Next == (\E p \in Producers : Push(p)) \/ (\E c \in Consumers : Pop(c))

\* Every thread runs, and the consumers ask again when the ring was empty.
Fairness == /\ \A p \in Producers : WF_vars(Push(p))
            /\ \A c \in Consumers : WF_vars(Pop(c))

Spec == Init /\ [][Next]_vars /\ Fairness

-----------------------------------------------------------------------------

\* The i-th pop that took a slot returns the i-th item that was given one: no item
\* is lost, returned twice or overtaken, and none is read before it is written.
PopsInOrder ==
    \A i \in 1 .. Len(popped) : popped[i] # Pending => popped[i] = pushed[i]

Reading(c) == pc[c] = "read"
Writing(p) == pc[p] = "write"

\* A slot is never written by two pushes at once, nor while a pop still has to
\* read it: the data race on data_ that the four counters are there to exclude.
SlotsExclusive ==
    /\ \A p, q \in Producers : p # q /\ Writing(p) /\ Writing(q) => Slot(head[p]) # Slot(head[q])
    /\ \A p \in Producers, c \in Consumers :
          Writing(p) /\ Reading(c) => Slot(head[p]) # Slot(head[c])

\* The counters follow one another around the ring, also across the wrap, and
\* the ring never holds more than it has slots.
CountersOrdered ==
    /\ Minus(prodHead, consTail) <= Entries
    /\ Minus(prodTail, consTail) <= Minus(prodHead, consTail)
    /\ Minus(consHead, consTail) <= Minus(prodTail, consTail)

AllPopped == /\ Len(popped) = MaxPush * Cardinality(Producers)
             /\ \A i \in 1 .. Len(popped) : popped[i] # Pending

\* Every item pushed is popped: no thread waits for another one for ever.
EverythingPopped == <>AllPopped

=============================================================================
