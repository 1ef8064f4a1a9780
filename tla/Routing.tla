------------------------------- MODULE Routing -------------------------------
(***************************************************************************)
(* The transport action of the client plans: which server a message goes   *)
(* to.  Every client decides on its own, from the message's hash keys and  *)
(* from what it has sent before; the servers can only aggregate a field if *)
(* all clients decide alike.                                               *)
(***************************************************************************)
EXTENDS Naturals, Sequences, FiniteSets

CONSTANTS ClientCount,   \* clients are their ids 0 .. ClientCount - 1
          ServerCount,   \* serverPeers_.size()
          UsedServers,   \* MULTIO_USED_SERVERS, 1 by default
          Keys,          \* hash strings of the messages to one server
          Hash,          \* Hash[k]: std::hash of the hash string
          Broadcasts,    \* messages with toAllServers
          Distributions, \* values MULTIO_SERVER_DISTRIBUTION may have
          Programs       \* fields the clients dispatch, one sequence per client

Clients == 0 .. ClientCount - 1
Servers == 0 .. ServerCount - 1

ASSUME RoutingAssumption ==
    /\ ClientCount \in Nat /\ ServerCount \in Nat \ {0}
    /\ UsedServers \in 1 .. ServerCount
    /\ Hash \in [Keys -> Nat]
    /\ Distributions \subseteq {"hashed_cyclic", "hashed_to_single", "even"}
    /\ Programs \subseteq [Clients -> Seq(Keys)]
    /\ Keys \cap Broadcasts = {}

VARIABLES
    distType,      \* distType_, the same for all clients
    program,       \* what this ensemble of clients dispatches, in which order
    destinations,  \* destinations_ of each client: hash strings placed so far
    counters,      \* counters_ of each client
    pos,           \* how far each client is in the program
    reached        \* history: servers a message of a client was sent to

vars == <<distType, program, destinations, counters, pos, reached>>

Init ==
    /\ distType \in Distributions
    /\ program \in Programs
    /\ destinations = [c \in Clients |-> <<>>]
    /\ counters = [c \in Clients |-> [s \in Servers |-> 0]]
    /\ pos = [c \in Clients |-> 0]
    /\ reached = [c \in Clients |-> [m \in Keys \cup Broadcasts |-> {}]]

\* serverIdDenom(clientCount, serverCount); the constructor passes the number of
\* servers for both
ServerIdDenom(clientCount, serverCount) == ((clientCount - 1) \div serverCount) + 1
ServerId(c) == c \div ServerIdDenom(ServerCount, ServerCount)

\* mutant: max_element
MostUsed(c) ==
    CHOOSE s \in Servers : \A t \in Servers : counters[c][s] >= counters[c][t]

\* min_element: the first of the servers with the smallest counter
LeastUsed(c) ==
    CHOOSE s \in Servers : \A t \in Servers :
        counters[c][s] < counters[c][t] \/ (counters[c][s] = counters[c][t] /\ s <= t)

SendTo(c, m, S) == reached' = [reached EXCEPT ![c][m] = @ \cup S]

\* chooseServer, one action per distribution type
HashedCyclic(c, k) ==
    /\ distType = "hashed_cyclic"
    /\ SendTo(c, k, {(ServerId(c) + (Hash[k] % UsedServers)) % ServerCount})
    /\ UNCHANGED <<destinations, counters>>

\* mutant: the client's own server is added
HashedFromOwn(c, k) ==
    /\ distType = "hashed_to_single"
    /\ SendTo(c, k, {(ServerId(c) + Hash[k]) % ServerCount})
    /\ UNCHANGED <<destinations, counters>>

HashedToSingle(c, k) ==
    /\ distType = "hashed_to_single"
    /\ SendTo(c, k, {Hash[k] % ServerCount})
    /\ UNCHANGED <<destinations, counters>>

EvenKnown(c, k) ==
    /\ distType = "even"
    /\ k \in DOMAIN destinations[c]
    /\ SendTo(c, k, {destinations[c][k]})
    /\ UNCHANGED <<destinations, counters>>

\* mutant: the destination is not remembered
EvenForget(c, k) ==
    LET s == LeastUsed(c)
    IN  /\ distType = "even"
        /\ counters' = [counters EXCEPT ![c][s] = @ + 1]
        /\ SendTo(c, k, {s})
        /\ UNCHANGED destinations

EvenNew(c, k) ==
    LET s == LeastUsed(c)
    IN  /\ distType = "even"
        /\ k \notin DOMAIN destinations[c]
        /\ counters' = [counters EXCEPT ![c][s] = @ + 1]
        /\ destinations' = [destinations EXCEPT ![c] =
                               [j \in DOMAIN @ \cup {k} |-> IF j = k THEN s ELSE @[j]]]
        /\ SendTo(c, k, {s})

\* executeImpl with a field, the next one the client has a part of
Dispatch(c, k) ==
    /\ pos[c] < Len(program[c])
    /\ k = program[c][pos[c] + 1]
    /\ pos' = [pos EXCEPT ![c] = @ + 1]
    /\ HashedCyclic(c, k) \/ HashedToSingle(c, k) \/ EvenKnown(c, k) \/ EvenNew(c, k)
    /\ UNCHANGED <<distType, program>>

\* executeImpl with a domain, a mask or a flush: toAllServers
Broadcast(c, m) ==
    /\ SendTo(c, m, Servers)
    /\ UNCHANGED <<distType, program, destinations, counters, pos>>

Next ==
    \E c \in Clients :
        \/ \E k \in Keys : Dispatch(c, k)
        \/ \E m \in Broadcasts : Broadcast(c, m)

Spec == Init /\ [][Next]_vars

-----------------------------------------------------------------------------

Meet(k) == \A c, e \in Clients :
    reached[c][k] # {} /\ reached[e][k] # {} => reached[c][k] = reached[e][k]

\* The parts of a field, which have the same hash keys, all go to one server,
\* however far the clients are apart.
SameServer == \A k \in Keys : Meet(k) /\ \A c \in Clients : Cardinality(reached[c][k]) <= 1

Agreed == \A c, e \in Clients : program[c] = program[e]

\* hashed_to_single sends the parts of a field to one server whatever else the
\* clients send; even does if all clients dispatch the same fields in the same
\* order, although each counts on its own.
SameServerWhenAgreed ==
    distType = "hashed_to_single" \/ (distType = "even" /\ Agreed) => SameServer

\* Whatever the distribution, a client sends the parts of a field id to one
\* server only: later steps follow the first.
RouteStable == \A c \in Clients, k \in Keys : Cardinality(reached[c][k]) <= 1

\* "even" spreads the field ids of a client over the servers, at most one apart,
\* and its counters agree with the destinations it remembers.
EvenSpread ==
    distType = "even" => \A c \in Clients : \A s, t \in Servers :
        /\ counters[c][s] <= counters[c][t] + 1
        /\ counters[c][s] = Cardinality({k \in DOMAIN destinations[c] : destinations[c][k] = s})

=============================================================================
