--------------------------- MODULE RoutingProofs ---------------------------
(***************************************************************************)
(* Where the clients send their parts, for any number of clients and       *)
(* servers, any hash and any programs.  Under "even" the clients fill the  *)
(* servers in turn, which is why clients that dispatch the same fields     *)
(* choose the same servers although each counts on its own.                *)
(***************************************************************************)
EXTENDS Routing, TLAPS, FiniteSetTheorems

Messages == Keys \cup Broadcasts

\* destinations_ after key k was placed on server s
Extended(d, k, s) == [j \in DOMAIN d \cup {k} |-> IF j = k THEN s ELSE d[j]]

-----------------------------------------------------------------------------
(* The invariant *)

Typed ==
    /\ distType \in Distributions /\ program \in Programs
    /\ pos \in [Clients -> Nat]
    /\ counters \in [Clients -> [Servers -> Nat]]
    /\ destinations = [c \in Clients |-> destinations[c]]
    /\ reached = [c \in Clients |-> [m \in Messages |-> reached[c][m]]]

\* The server that a client has settled on for a key
Settled(c, k) ==
    CASE distType = "hashed_cyclic" -> {(ServerId(c) + (Hash[k] % UsedServers)) % ServerCount}
      [] distType = "hashed_to_single" -> {Hash[k] % ServerCount}
      [] distType = "even" -> IF k \in DOMAIN destinations[c] THEN {destinations[c][k]} ELSE {}

\* Messages have gone where the client has settled, and nowhere else.
SentToSettled == \A c \in Clients, k \in Keys : reached[c][k] \subseteq Settled(c, k)

\* destinations_ are servers of finitely many keys.
Remembered ==
    \A c \in Clients :
        /\ destinations[c] = [k \in DOMAIN destinations[c] |-> destinations[c][k]]
        /\ DOMAIN destinations[c] \subseteq Keys /\ IsFiniteSet(DOMAIN destinations[c])
        /\ \A k \in DOMAIN destinations[c] : destinations[c][k] \in Servers

\* The servers below j are one ahead of the others.
FilledTo(ctr, j, v) ==
    /\ j \in Servers /\ v \in Nat
    /\ ctr = [s \in Servers |-> IF s < j THEN v + 1 ELSE v]

InTurn == \A c \in Clients : \E j, v : FilledTo(counters[c], j, v)

PlacedOn(d, s) == {k \in DOMAIN d : d[k] = s}

CountersCount ==
    \A c \in Clients, s \in Servers : counters[c][s] = Cardinality(PlacedOn(destinations[c], s))

Least(ctr) ==
    CHOOSE s \in Servers : \A t \in Servers : ctr[s] < ctr[t] \/ (ctr[s] = ctr[t] /\ s <= t)

\* What dispatching key k makes of destinations d and counters ctr
Placement(d, ctr, k, d2, ctr2) ==
    \/ k \in DOMAIN d /\ d2 = d /\ ctr2 = ctr
    \/ /\ k \notin DOMAIN d
       /\ d2 = Extended(d, k, Least(ctr))
       /\ ctr2 = [ctr EXCEPT ![Least(ctr)] = @ + 1]

\* D[n] and K[n] are the destinations and counters of any client after n fields.
Course(N, D, K) ==
    /\ N \in Nat
    /\ \A c \in Clients : pos[c] <= N /\ destinations[c] = D[pos[c]] /\ counters[c] = K[pos[c]]
    /\ \A c \in Clients, n \in 0 .. N - 1 :
          Placement(D[n], K[n], program[c][n + 1], D[n + 1], K[n + 1])
    /\ \A m, n \in 0 .. N : m <= n =>
          \A k \in DOMAIN D[m] : k \in DOMAIN D[n] /\ D[n][k] = D[m][k]

\* Clients that dispatch the same fields go through the same states.
Alike == distType = "even" /\ Agreed => \E N, D, K : Course(N, D, K)

Inv == Typed /\ SentToSettled /\ Remembered /\ InTurn /\ CountersCount

-----------------------------------------------------------------------------
(* Initial states *)

LEMMA InitInv == Init => Inv /\ Alike
<1> SUFFICES ASSUME Init PROVE Inv /\ Alike OBVIOUS
<1>1. Typed BY DEF Init, Typed, Messages
<1>2. SentToSettled BY DEF Init, SentToSettled
<1>3. \A c \in Clients : destinations[c] = <<>> /\ DOMAIN destinations[c] = {} BY DEF Init
<1>4. Remembered BY <1>3, FS_EmptySet DEF Remembered
<1>5. InTurn
  <2>1. 0 \in Servers BY RoutingAssumption DEF Servers
  <2>2. \A c \in Clients : FilledTo(counters[c], 0, 0) BY <2>1 DEF Init, FilledTo, Servers
  <2> QED BY <2>2 DEF InTurn
<1>6. CountersCount
  <2>1. \A c \in Clients, s \in Servers : PlacedOn(destinations[c], s) = {} BY <1>3 DEF PlacedOn
  <2> QED BY <2>1, FS_EmptySet DEF Init, CountersCount
<1>7. Alike
  <2>1. PICK D : D = [n \in {0} |-> <<>>] OBVIOUS
  <2>2. PICK K : K = [n \in {0} |-> [s \in Servers |-> 0]] OBVIOUS
  <2>3. Course(0, D, K) BY <2>1, <2>2 DEF Course, Init
  <2> QED BY <2>3 DEF Alike
<1> QED BY <1>1, <1>2, <1>4, <1>5, <1>6, <1>7 DEF Inv

-----------------------------------------------------------------------------
(* "even" *)

\* The servers being filled in turn, the next one is the first that is behind.
LEMMA LeastIsNext ==
    ASSUME NEW ctr, NEW j, NEW v, FilledTo(ctr, j, v)
    PROVE  Least(ctr) = j
<1>1. \A t \in Servers : ctr[j] < ctr[t] \/ (ctr[j] = ctr[t] /\ j <= t)
  BY DEF FilledTo, Servers
<1>2. \A s \in Servers : ctr[s] \in Nat BY DEF FilledTo
<1>3. ASSUME NEW s \in Servers,
             \A t \in Servers : ctr[s] < ctr[t] \/ (ctr[s] = ctr[t] /\ s <= t)
      PROVE  s = j
  <2>1. j \in Servers BY DEF FilledTo
  <2>2. ctr[s] < ctr[j] \/ (ctr[s] = ctr[j] /\ s <= j) BY <1>3, <2>1
  <2>3. ctr[j] < ctr[s] \/ (ctr[j] = ctr[s] /\ j <= s) BY <1>1
  <2> QED BY <1>2, <2>1, <2>2, <2>3, RoutingAssumption DEF Servers
<1> QED BY <1>1, <1>3 DEF Least, FilledTo

\* Placing one more key keeps the turn.
LEMMA TurnKept ==
    ASSUME NEW ctr, NEW j, NEW v, FilledTo(ctr, j, v)
    PROVE  \E i, w : FilledTo([ctr EXCEPT ![j] = @ + 1], i, w)
<1> DEFINE new == [ctr EXCEPT ![j] = @ + 1]
<1>0. /\ j \in Nat /\ v \in Nat /\ j < ServerCount /\ ServerCount \in Nat
      /\ \A s \in Servers : s \in Nat /\ s < ServerCount
  BY RoutingAssumption DEF FilledTo, Servers
<1>1. new = [s \in Servers |-> IF s < j + 1 THEN v + 1 ELSE v]
  <2>1. \A s \in Servers : new[s] = IF s < j + 1 THEN v + 1 ELSE v BY <1>0 DEF FilledTo
  <2>2. new = [s \in Servers |-> new[s]] BY DEF FilledTo
  <2> HIDE DEF new
  <2> QED BY <2>1, <2>2
<1> HIDE DEF new
<1>2. CASE j + 1 < ServerCount
  <2>1. j + 1 \in Servers BY <1>0, <1>2 DEF Servers
  <2>2. FilledTo(new, j + 1, v) BY <1>0, <1>1, <2>1 DEF FilledTo
  <2> QED BY <2>2 DEF new
<1>3. CASE ~ (j + 1 < ServerCount)
  <2>1. \A s \in Servers : s < j + 1 /\ ~ (s < 0) BY <1>0, <1>3
  <2>2. new = [s \in Servers |-> IF s < 0 THEN (v + 1) + 1 ELSE v + 1] BY <1>1, <2>1
  <2>3. FilledTo(new, 0, v + 1) BY <1>0, <2>2, RoutingAssumption DEF FilledTo, Servers
  <2> QED BY <2>3 DEF new
<1> QED BY <1>2, <1>3

\* Counters and destinations of a client that places one more key
LEMMA PlacedOneMore ==
    ASSUME NEW d, NEW k, NEW j \in Servers, NEW ctr \in [Servers -> Nat],
           k \notin DOMAIN d, IsFiniteSet(DOMAIN d),
           \A s \in Servers : ctr[s] = Cardinality(PlacedOn(d, s))
    PROVE  LET e == Extended(d, k, j)
           IN  /\ IsFiniteSet(DOMAIN e)
               /\ \A s \in Servers :
                     [ctr EXCEPT ![j] = @ + 1][s] = Cardinality(PlacedOn(e, s))
<1> DEFINE e == Extended(d, k, j)
<1>1. DOMAIN e = DOMAIN d \cup {k} BY DEF Extended
<1>2. IsFiniteSet(DOMAIN e) BY <1>1, FS_AddElement
<1>3. ASSUME NEW s \in Servers
      PROVE  [ctr EXCEPT ![j] = @ + 1][s] = Cardinality(PlacedOn(e, s))
  <2>1. IsFiniteSet(PlacedOn(d, s)) /\ k \notin PlacedOn(d, s) BY FS_Subset DEF PlacedOn
  <2>2. CASE s = j
    <3>1. PlacedOn(e, s) = PlacedOn(d, s) \cup {k} BY <2>2 DEF PlacedOn, Extended
    <3>2. Cardinality(PlacedOn(e, s)) = Cardinality(PlacedOn(d, s)) + 1
      BY <2>1, <3>1, FS_AddElement
    <3> QED BY <2>2, <3>2
  <2>3. CASE s # j
    <3>1. PlacedOn(e, s) = PlacedOn(d, s) BY <2>3 DEF PlacedOn, Extended
    <3> QED BY <2>3, <3>1
  <2> QED BY <2>2, <2>3
<1> QED BY <1>2, <1>3

-----------------------------------------------------------------------------
(* Steps *)

\* A message to a server that the client has settled on
LEMMA SendSettled ==
    ASSUME Inv, NEW c \in Clients, NEW m \in Messages, NEW S, SendTo(c, m, S),
           m \in Keys => S \subseteq Settled(c, m)',
           \A b \in Clients, k \in Keys : Settled(b, k) \subseteq Settled(b, k)'
    PROVE  /\ SentToSettled'
           /\ reached' = [b \in Clients |-> [n \in Messages |-> reached'[b][n]]]
<1>1. reached = [b \in Clients |-> [n \in Messages |-> reached[b][n]]] BY DEF Inv, Typed
<1>2. reached' = [reached EXCEPT ![c][m] = @ \cup S] BY DEF SendTo
<1>3. reached' = [b \in Clients |-> [n \in Messages |->
                    IF b = c /\ n = m THEN reached[b][n] \cup S ELSE reached[b][n]]]
  BY <1>1, <1>2
<1>4. ASSUME NEW b \in Clients, NEW k \in Keys PROVE reached'[b][k] \subseteq Settled(b, k)'
  BY <1>3 DEF Inv, SentToSettled, Messages
<1>5. SentToSettled' BY <1>4 DEF SentToSettled
<1>6. reached' = [b \in Clients |-> [n \in Messages |-> reached'[b][n]]] BY <1>3
<1> QED BY <1>5, <1>6

LEMMA BroadcastInv ==
    ASSUME Inv, NEW c \in Clients, NEW m \in Broadcasts, Broadcast(c, m)
    PROVE  Inv'
<1>1. /\ SendTo(c, m, Servers) /\ m \in Messages /\ m \notin Keys
      /\ UNCHANGED <<distType, program, destinations, counters, pos>>
  BY RoutingAssumption DEF Broadcast, Messages
<1>2. \A b \in Clients, k \in Keys : Settled(b, k)' = Settled(b, k) BY <1>1 DEF Settled
<1>3. SentToSettled' /\ reached' = [b \in Clients |-> [n \in Messages |-> reached'[b][n]]]
  BY <1>1, <1>2, SendSettled
<1> QED BY <1>1, <1>3 DEF Inv, Typed, Remembered, InTurn, CountersCount

\* pos, whichever way the server is chosen
LEMMA DispatchFacts ==
    ASSUME Inv, NEW c \in Clients, NEW k \in Keys, Dispatch(c, k)
    PROVE  /\ pos' = [pos EXCEPT ![c] = @ + 1] /\ pos' \in [Clients -> Nat]
           /\ UNCHANGED <<distType, program>> /\ k \in Messages
           /\ k = program[c][pos[c] + 1]
BY DEF Dispatch, Inv, Typed, Messages

LEMMA DispatchKeepInv ==
    ASSUME Inv, NEW c \in Clients, NEW k \in Keys, Dispatch(c, k),
           HashedCyclic(c, k) \/ HashedToSingle(c, k) \/ EvenKnown(c, k)
    PROVE  Inv'
<1>1. UNCHANGED <<destinations, counters, distType, program>>
  BY DispatchFacts DEF HashedCyclic, HashedToSingle, EvenKnown
<1>2. \A b \in Clients, j \in Keys : Settled(b, j)' = Settled(b, j) BY <1>1 DEF Settled
<1>3. PICK S : SendTo(c, k, S) /\ S \subseteq Settled(c, k)
  BY DEF HashedCyclic, HashedToSingle, EvenKnown, Settled
<1>4. SentToSettled' /\ reached' = [b \in Clients |-> [n \in Messages |-> reached'[b][n]]]
  BY <1>2, <1>3, SendSettled, DispatchFacts
<1> QED BY <1>1, <1>4, DispatchFacts DEF Inv, Typed, Remembered, InTurn, CountersCount

LEMMA DispatchNewInv ==
    ASSUME Inv, NEW c \in Clients, NEW k \in Keys, Dispatch(c, k), EvenNew(c, k)
    PROVE  Inv'
<1>1. PICK j, v : FilledTo(counters[c], j, v) BY DEF Inv, InTurn
<1>2. LeastUsed(c) = j BY <1>1, LeastIsNext DEF LeastUsed, Least
<1>3. j \in Servers BY <1>1 DEF FilledTo
<1> DEFINE ctr == [counters[c] EXCEPT ![j] = @ + 1]
           d == Extended(destinations[c], k, j)
<1>4. /\ distType = "even" /\ k \notin DOMAIN destinations[c]
      /\ counters' = [counters EXCEPT ![c] = ctr]
      /\ destinations' = [destinations EXCEPT ![c] = d]
      /\ SendTo(c, k, {j})
  BY <1>2 DEF EvenNew, Extended, Inv, Typed
<1>5. destinations'[c] = d /\ counters'[c] = ctr BY <1>4 DEF Inv, Typed
<1>6. \A b \in Clients \ {c} :
        destinations'[b] = destinations[b] /\ counters'[b] = counters[b]
  BY <1>4 DEF Inv, Typed
<1>7. /\ IsFiniteSet(DOMAIN destinations[c]) /\ counters[c] \in [Servers -> Nat]
      /\ DOMAIN destinations[c] \subseteq Keys
      /\ \A i \in DOMAIN destinations[c] : destinations[c][i] \in Servers
      /\ \A s \in Servers : counters[c][s] = Cardinality(PlacedOn(destinations[c], s))
  BY DEF Inv, Typed, Remembered, CountersCount
<1>8. IsFiniteSet(DOMAIN d) /\ \A s \in Servers : ctr[s] = Cardinality(PlacedOn(d, s))
  BY <1>3, <1>4, <1>7, PlacedOneMore
<1>9. /\ d = [i \in DOMAIN d |-> d[i]] /\ DOMAIN d \subseteq Keys /\ d[k] = j /\ k \in DOMAIN d
      /\ \A i \in DOMAIN d : d[i] \in Servers
      /\ \A i \in DOMAIN destinations[c] : i \in DOMAIN d /\ d[i] = destinations[c][i]
  BY <1>3, <1>4, <1>7 DEF Extended
<1>10. ctr \in [Servers -> Nat] BY <1>3, <1>7
<1>11. \E i, w : FilledTo(ctr, i, w) BY <1>1, TurnKept
<1> HIDE DEF d, ctr
<1>12. distType' = distType BY DispatchFacts
<1>13. \A b \in Clients, i \in Keys : Settled(b, i) \subseteq Settled(b, i)'
  BY <1>4, <1>5, <1>6, <1>9, <1>12 DEF Settled
<1>14. {j} \subseteq Settled(c, k)' BY <1>4, <1>5, <1>9, <1>12 DEF Settled
<1>15. SentToSettled' /\ reached' = [b \in Clients |-> [n \in Messages |-> reached'[b][n]]]
  BY <1>4, <1>13, <1>14, SendSettled, DispatchFacts
<1>16. Typed' BY <1>4, <1>10, <1>15, DispatchFacts DEF Inv, Typed
<1>17. Remembered' BY <1>5, <1>6, <1>8, <1>9 DEF Inv, Remembered
<1>18. InTurn' BY <1>5, <1>6, <1>11 DEF Inv, InTurn
<1>19. CountersCount' BY <1>5, <1>6, <1>8 DEF Inv, CountersCount
<1> QED BY <1>15, <1>16, <1>17, <1>18, <1>19 DEF Inv

LEMMA NextInv == Inv /\ [Next]_vars => Inv'
<1> SUFFICES ASSUME Inv, [Next]_vars PROVE Inv' OBVIOUS
<1>1. ASSUME NEW c \in Clients, NEW k \in Keys, Dispatch(c, k) PROVE Inv'
  BY <1>1, DispatchKeepInv, DispatchNewInv DEF Dispatch
<1>2. ASSUME NEW c \in Clients, NEW m \in Broadcasts, Broadcast(c, m) PROVE Inv'
  BY <1>2, BroadcastInv
<1>3. CASE UNCHANGED vars
  BY <1>3 DEF vars, Inv, Typed, SentToSettled, Settled, Remembered, InTurn, CountersCount
<1> QED BY <1>1, <1>2, <1>3 DEF Next

\* A client that dispatches a field follows the course, or is the first to go on.
LEMMA DispatchAlike ==
    ASSUME Inv, Alike, NEW c \in Clients, NEW k \in Keys, Dispatch(c, k)
    PROVE  Alike'
<1> SUFFICES ASSUME distType' = "even", Agreed' PROVE \E N, D, K : Course(N, D, K)'
  BY DEF Alike
<1>1. /\ distType = "even" /\ program' = program
      /\ \A b \in Clients : program[b] = program[c]
  BY DispatchFacts DEF Agreed
<1>2. PICK N, D, K : Course(N, D, K) BY <1>1 DEF Alike, Agreed
<1> DEFINE p == pos[c]
<1>3. /\ p \in Nat /\ p <= N /\ N \in Nat
      /\ destinations[c] = D[p] /\ counters[c] = K[p]
  BY <1>2 DEF Course, Inv, Typed
<1>4. /\ pos'[c] = p + 1 /\ \A b \in Clients \ {c} : pos'[b] = pos[b]
      /\ \A b \in Clients : pos[b] \in Nat
      /\ \A b \in Clients : k = program[b][p + 1]
  BY <1>1, DispatchFacts DEF Inv, Typed
<1>5. /\ Placement(destinations[c], counters[c], k, destinations'[c], counters'[c])
      /\ \A b \in Clients \ {c} :
            destinations'[b] = destinations[b] /\ counters'[b] = counters[b]
  <2>1. EvenKnown(c, k) \/ EvenNew(c, k)
    BY <1>1 DEF Dispatch, HashedCyclic, HashedToSingle
  <2>2. CASE EvenKnown(c, k) BY <2>2 DEF EvenKnown, Placement
  <2>3. CASE EvenNew(c, k)
    <3>1. LeastUsed(c) = Least(counters[c]) BY DEF LeastUsed, Least
    <3>2. /\ k \notin DOMAIN destinations[c]
          /\ counters' = [counters EXCEPT ![c][Least(counters[c])] = @ + 1]
          /\ destinations' = [destinations EXCEPT ![c] =
                                Extended(destinations[c], k, Least(counters[c]))]
      BY <2>3, <3>1 DEF EvenNew, Extended, Inv, Typed
    <3> QED BY <3>2 DEF Placement, Inv, Typed
  <2> QED BY <2>1, <2>2, <2>3
<1>6. CASE p < N
  <2>1. Placement(D[p], K[p], k, D[p + 1], K[p + 1])
    <3>1. p \in 0 .. N - 1 BY <1>3, <1>6
    <3>2. Placement(D[p], K[p], program[c][p + 1], D[p + 1], K[p + 1])
      BY <1>2, <3>1 DEF Course
    <3> QED BY <1>4, <3>2
  <2>2. destinations'[c] = D[p + 1] /\ counters'[c] = K[p + 1]
    BY <1>3, <1>5, <2>1 DEF Placement
  <2>3. \A b \in Clients :
          pos'[b] <= N /\ destinations'[b] = D[pos'[b]] /\ counters'[b] = K[pos'[b]]
    BY <1>2, <1>3, <1>4, <1>5, <1>6, <2>2 DEF Course
  <2>4. Course(N, D, K)' BY <1>1, <1>2, <2>3 DEF Course
  <2> QED BY <2>4
<1>7. CASE p = N
  <2>1. PICK D2 : D2 = [n \in 0 .. N + 1 |-> IF n <= N THEN D[n] ELSE destinations'[c]]
    OBVIOUS
  <2>2. PICK K2 : K2 = [n \in 0 .. N + 1 |-> IF n <= N THEN K[n] ELSE counters'[c]]
    OBVIOUS
  <2>3. /\ \A n \in 0 .. N : n \in 0 .. N + 1 /\ D2[n] = D[n] /\ K2[n] = K[n]
        /\ D2[N + 1] = destinations'[c] /\ K2[N + 1] = counters'[c]
    BY <1>3, <2>1, <2>2
  <2>4. \A b \in Clients :
          pos'[b] <= N + 1 /\ destinations'[b] = D2[pos'[b]] /\ counters'[b] = K2[pos'[b]]
    <3>1. ASSUME NEW b \in Clients \ {c}
          PROVE  /\ pos'[b] <= N + 1
                 /\ destinations'[b] = D2[pos'[b]] /\ counters'[b] = K2[pos'[b]]
      <4>1. pos[b] \in 0 .. N /\ destinations[b] = D[pos[b]] /\ counters[b] = K[pos[b]]
        BY <1>2, <1>3, <1>4 DEF Course
      <4> QED BY <1>3, <1>4, <1>5, <2>3, <4>1
    <3>2. /\ pos'[c] <= N + 1
          /\ destinations'[c] = D2[pos'[c]] /\ counters'[c] = K2[pos'[c]]
      BY <1>3, <1>4, <1>7, <2>3
    <3> QED BY <3>1, <3>2
  <2>5. Placement(D2[N], K2[N], k, D2[N + 1], K2[N + 1])
    <3>1. N \in 0 .. N BY <1>3
    <3> QED BY <1>3, <1>5, <1>7, <2>3, <3>1
  <2>6. \A b \in Clients, n \in 0 .. (N + 1) - 1 :
          Placement(D2[n], K2[n], program[b][n + 1], D2[n + 1], K2[n + 1])
    <3>1. ASSUME NEW b \in Clients, NEW n \in 0 .. N - 1
          PROVE  Placement(D2[n], K2[n], program[b][n + 1], D2[n + 1], K2[n + 1])
      <4>1. n \in 0 .. N /\ n + 1 \in 0 .. N BY <1>3
      <4>2. Placement(D[n], K[n], program[b][n + 1], D[n + 1], K[n + 1])
        BY <1>2 DEF Course
      <4> QED BY <2>3, <4>1, <4>2
    <3>2. \A b \in Clients :
            Placement(D2[N], K2[N], program[b][N + 1], D2[N + 1], K2[N + 1])
      BY <1>4, <1>7, <2>5
    <3>3. \A n \in 0 .. (N + 1) - 1 : n \in 0 .. N - 1 \/ n = N BY <1>3
    <3> QED BY <3>1, <3>2, <3>3
  <2>7. \A i \in DOMAIN D2[N] : i \in DOMAIN D2[N + 1] /\ D2[N + 1][i] = D2[N][i]
    BY <2>5 DEF Placement, Extended
  <2>8. \A m, n \in 0 .. N : m <= n =>
          \A i \in DOMAIN D2[m] : i \in DOMAIN D2[n] /\ D2[n][i] = D2[m][i]
    BY <1>2, <2>3 DEF Course
  <2>9. ASSUME NEW m \in 0 .. N + 1, NEW n \in 0 .. N + 1, m <= n, NEW i \in DOMAIN D2[m]
        PROVE  i \in DOMAIN D2[n] /\ D2[n][i] = D2[m][i]
    <3>1. CASE n <= N
      <4>1. m \in 0 .. N /\ n \in 0 .. N BY <1>3, <2>9, <3>1
      <4> QED BY <2>8, <2>9, <4>1
    <3>2. CASE n = N + 1 /\ m <= N
      <4>1. m \in 0 .. N /\ N \in 0 .. N /\ m <= N BY <1>3, <3>2
      <4>2. i \in DOMAIN D2[N] /\ D2[N][i] = D2[m][i] BY <2>8, <2>9, <4>1
      <4> QED BY <2>7, <3>2, <4>2
    <3>3. CASE m = n BY <3>3, <2>9
    <3>4. n <= N \/ (n = N + 1 /\ m <= N) \/ m = n BY <1>3, <2>9
    <3> QED BY <3>1, <3>2, <3>3, <3>4
  <2>10. N + 1 \in Nat BY <1>3
  <2>11. Course(N + 1, D2, K2)' BY <1>1, <2>4, <2>6, <2>9, <2>10 DEF Course
  <2> QED BY <2>11
<1> QED BY <1>3, <1>6, <1>7

LEMMA NextAlike == Inv /\ Alike /\ [Next]_vars => Alike'
<1> SUFFICES ASSUME Inv, Alike, [Next]_vars PROVE Alike' OBVIOUS
<1>1. ASSUME NEW c \in Clients, NEW k \in Keys, Dispatch(c, k) PROVE Alike'
  BY <1>1, DispatchAlike
<1>2. ASSUME UNCHANGED <<distType, program, destinations, counters, pos>> PROVE Alike'
  BY <1>2 DEF Alike, Agreed, Course
<1>3. ASSUME NEW c \in Clients, NEW m \in Broadcasts, Broadcast(c, m) PROVE Alike'
  BY <1>2, <1>3 DEF Broadcast
<1>4. CASE UNCHANGED vars BY <1>2, <1>4 DEF vars
<1> QED BY <1>1, <1>3, <1>4 DEF Next

-----------------------------------------------------------------------------
(* Theorems *)

LEMMA AtMostOne ==
    ASSUME Inv, NEW c \in Clients, NEW k \in Keys
    PROVE  Cardinality(reached[c][k]) <= 1
<1>1. PICK s : Settled(c, k) \subseteq {s}
  BY RoutingAssumption DEF Settled, Inv, Typed
<1>2. reached[c][k] = {} \/ reached[c][k] = {s} BY <1>1 DEF Inv, SentToSettled
<1>3. Cardinality({s}) = 1 BY FS_Singleton
<1>4. Cardinality({}) = 0 BY FS_EmptySet
<1>5. Cardinality(reached[c][k]) \in {0, 1} BY <1>2, <1>3, <1>4
<1> QED BY <1>5

\* A client sends all parts of one field id to one server, for any distribution
\* type, hash, number of servers and program (chooseServer).
THEOREM RoutesStable == Spec => []RouteStable
<1>1. Inv => RouteStable BY AtMostOne DEF RouteStable
<1> QED BY <1>1, InitInv, NextInv, PTL DEF Spec

\* min_element fills the servers in turn: they are at most one field id apart, and
\* counters_ counts what destinations_ remembers.
THEOREM SpreadEvenly == Spec => []EvenSpread
<1>1. Inv => EvenSpread
  <2> SUFFICES ASSUME Inv, NEW c \in Clients, NEW s \in Servers, NEW t \in Servers
               PROVE  /\ counters[c][s] <= counters[c][t] + 1
                      /\ counters[c][s] = Cardinality(PlacedOn(destinations[c], s))
    BY DEF EvenSpread, PlacedOn
  <2>1. PICK j, v : FilledTo(counters[c], j, v) BY DEF Inv, InTurn
  <2>2. counters[c][s] <= counters[c][t] + 1 BY <2>1 DEF FilledTo
  <2> QED BY <2>2 DEF Inv, CountersCount
<1> QED BY <1>1, InitInv, NextInv, PTL DEF Spec

\* The parts of a field meet on one server: under hashed_to_single whatever the
\* clients send, under even if they dispatch the same fields in the same order,
\* however far one is ahead of the other.
THEOREM PartsMeetOnServer == Spec => []SameServerWhenAgreed
<1>1. Inv /\ Alike => SameServerWhenAgreed
  <2> SUFFICES ASSUME Inv, Alike,
                      distType = "hashed_to_single" \/ (distType = "even" /\ Agreed)
               PROVE  SameServer
    BY DEF SameServerWhenAgreed
  <2>1. ASSUME NEW k \in Keys, NEW c \in Clients, NEW e \in Clients,
               reached[c][k] # {}, reached[e][k] # {}
        PROVE  reached[c][k] = reached[e][k]
    <3>1. /\ reached[c][k] \subseteq Settled(c, k) /\ reached[e][k] \subseteq Settled(e, k)
      BY DEF Inv, SentToSettled
    <3>2. CASE distType = "hashed_to_single"
      <4>1. PICK h : h = Hash[k] % ServerCount OBVIOUS
      <4>2. Settled(c, k) = {h} /\ Settled(e, k) = {h} BY <3>2, <4>1 DEF Settled
      <4> QED BY <2>1, <3>1, <4>2
    <3>3. CASE distType = "even" /\ Agreed
      <4>1. PICK N, D, K : Course(N, D, K) BY <3>3 DEF Alike
      <4>2. /\ k \in DOMAIN destinations[c] /\ reached[c][k] = {destinations[c][k]}
            /\ k \in DOMAIN destinations[e] /\ reached[e][k] = {destinations[e][k]}
        BY <2>1, <3>1, <3>3 DEF Settled
      <4>3. /\ pos[c] \in 0 .. N /\ destinations[c] = D[pos[c]]
            /\ pos[e] \in 0 .. N /\ destinations[e] = D[pos[e]] /\ N \in Nat
        BY <4>1 DEF Course, Inv, Typed
      <4>4. pos[c] <= pos[e] \/ pos[e] <= pos[c] BY <4>3
      <4>5. D[pos[c]][k] = D[pos[e]][k] BY <4>1, <4>2, <4>3, <4>4 DEF Course
      <4> QED BY <4>2, <4>3, <4>5
    <3> QED BY <3>2, <3>3
  <2> QED BY <2>1, AtMostOne DEF SameServer, Meet
<1> QED BY <1>1, InitInv, NextInv, NextAlike, PTL DEF Spec
=============================================================================
