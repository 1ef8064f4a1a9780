------------------------------ MODULE IOServer ------------------------------
(***************************************************************************)
(* Clients and I/O servers over MpiTransport: the client side of the stream *)
(* pool (sizes abstracted away, see StreamPool), the MPI channel of every  *)
(* client/server pair, and in every server the three threads of            *)
(* Listener::start with the two queues between them:                       *)
(*                                                                         *)
(*   wire -- listen() --> streamQ -- receive() --> msgPack --              *)
(*        -- start() loop --> msgQ -- Dispatcher::dispatch() --> plans     *)
(*                                                                         *)
(* Every client runs the life the API asks of it: open the connections,    *)
(* send, synchronize some number of times, close.                          *)
(***************************************************************************)
EXTENDS Naturals, Sequences, FiniteSets, SequencesExt

CONSTANTS Clients,     \* client peers
          ServerCount, \* serverPeers().size(), in the order of that list
          ClientPool,  \* buffers of a client's stream pool
          ServerPool,  \* buffers of a server's stream pool
          QueueSize,   \* capacity of msgQueue_
          Rounds,      \* bound: synchronizations in the run
          MaxSent,     \* bound: MaxSent[c][s] data messages from client c to server s
          Eager        \* MPI: clients whose iSend completes at once, not only
                       \* when the receiver has taken the message

Servers == 1 .. ServerCount

ASSUME PoolAssumption ==
    /\ ServerCount \in Nat \ {0}
    /\ ClientPool \in Nat /\ ServerCount <= ClientPool
    /\ ServerPool \in Nat \ {0}
    /\ QueueSize \in Nat \ {0}
    /\ IsFiniteSet(Clients) /\ Clients # {}
    /\ Rounds \in Nat /\ MaxSent \in [Clients -> [Servers -> Nat]]
    /\ Eager \subseteq Clients

VARIABLES
    \* clients
    pc,         \* the call client c is in
    next,       \* server its loop over serverPeers() is at
    round,      \* synchronizations it has returned from
    stream,     \* stream[c][s]: content of the open stream, <<>> if none
    sent,       \* sent[c][s]: data messages sent so far
    \* MPI
    wire,       \* wire[c][s]: buffers posted to s and not received, in order
    \* servers
    streamQ,    \* streamQueue_: received buffers
    msgPack,    \* msgPack_: decoded messages
    connections, opened, syncCount,   \* Listener's members
    running,    \* the receive loop of Listener::start has not ended
    failed,     \* it has thrown
    msgQ,       \* msgQueue_
    queueClosed,
    dispatcher, \* dispatch thread: handling, barrier or ended
    handled     \* handled[c][s]: number of the last data message dispatched

clientVars == <<pc, next, round, stream, sent>>
listenVars == <<connections, opened, syncCount, running, failed, queueClosed>>
vars == <<clientVars, wire, streamQ, msgPack, listenVars, msgQ, dispatcher, handled>>

-----------------------------------------------------------------------------

Msg(c, tag, n) == [src |-> c, tag |-> tag, n |-> n]

PerPair(v) == [c \in Clients |-> [s \in Servers |-> v]]

Init ==
    /\ pc = [c \in Clients |-> "opening"]
    /\ next = [c \in Clients |-> 1]
    /\ round = [c \in Clients |-> 0]
    /\ stream = PerPair(<<>>)
    /\ sent = PerPair(0)
    /\ wire = PerPair(<<>>)
    /\ streamQ = [s \in Servers |-> <<>>]
    /\ msgPack = [s \in Servers |-> <<>>]
    /\ connections = [s \in Servers |-> {}]
    /\ opened = [s \in Servers |-> 0]
    /\ syncCount = [s \in Servers |-> 0]
    /\ running = [s \in Servers |-> TRUE]
    /\ failed = [s \in Servers |-> FALSE]
    /\ msgQ = [s \in Servers |-> <<>>]
    /\ queueClosed = [s \in Servers |-> FALSE]
    /\ dispatcher = [s \in Servers |-> "handling"]
    /\ handled = PerPair(0)

-----------------------------------------------------------------------------
(* Clients *)

\* iSend requests of c that have not completed
InFlight(c) == IF c \in Eager THEN 0 ELSE SumFunction([s \in Servers |-> Len(wire[c][s])])

\* acquireAvailableBuffer finds a buffer
BufferFree(c) ==
    InFlight(c) + Cardinality({s \in Servers : stream[c][s] # <<>>}) < ClientPool

Post(c, s, content) == wire' = [wire EXCEPT ![c][s] = Append(@, content)]

\* openConnections: a blocking send to every server; it returns when the server
\* has received it, or at once if MPI buffers it.
OpenSend(c) ==
    /\ pc[c] = "opening"
    /\ Post(c, next[c], <<Msg(c, "Open", 0)>>)
    /\ pc' = [pc EXCEPT ![c] = "openWait"]
    /\ UNCHANGED <<next, round, stream, sent, streamQ, msgPack, listenVars, msgQ, dispatcher, handled>>

OpenReturn(c) ==
    /\ pc[c] = "openWait"
    /\ InFlight(c) = 0
    /\ IF next[c] = ServerCount
       THEN pc' = [pc EXCEPT ![c] = "open"] /\ next' = [next EXCEPT ![c] = 1]
       ELSE pc' = [pc EXCEPT ![c] = "opening"] /\ next' = [next EXCEPT ![c] = @ + 1]
    /\ UNCHANGED <<round, stream, sent, wire, streamQ, msgPack, listenVars, msgQ, dispatcher, handled>>

\* bufferedSend of a data message to s: kept in the open stream, or the open
\* stream is posted first and the message waits for a buffer, or there is none
DataMsg(c, s) == Msg(c, "Field", sent[c][s] + 1)

SendReuse(c, s) ==
    /\ pc[c] = "open"
    /\ sent[c][s] < MaxSent[c][s]
    /\ stream[c][s] # <<>>
    /\ stream' = [stream EXCEPT ![c][s] = Append(@, DataMsg(c, s))]
    /\ sent' = [sent EXCEPT ![c][s] = @ + 1]
    /\ UNCHANGED <<pc, next, round, wire>>

SendReplace(c, s) ==
    /\ pc[c] = "open"
    /\ sent[c][s] < MaxSent[c][s]
    /\ stream[c][s] # <<>>
    /\ Post(c, s, stream[c][s])
    /\ stream' = [stream EXCEPT ![c][s] = <<>>]
    /\ pc' = [pc EXCEPT ![c] = "acquire"]
    /\ next' = [next EXCEPT ![c] = s]
    /\ UNCHANGED <<round, sent>>

SendFirst(c, s) ==
    /\ \/ pc[c] = "open" /\ sent[c][s] < MaxSent[c][s]
       \/ pc[c] = "acquire" /\ next[c] = s
    /\ stream[c][s] = <<>>
    /\ BufferFree(c)
    /\ stream' = [stream EXCEPT ![c][s] = <<DataMsg(c, s)>>]
    /\ sent' = [sent EXCEPT ![c][s] = @ + 1]
    /\ pc' = [pc EXCEPT ![c] = "open"]
    /\ next' = [next EXCEPT ![c] = 1]
    /\ UNCHANGED <<round, wire>>

Send(c, s) ==
    /\ SendReuse(c, s) \/ SendReplace(c, s) \/ SendFirst(c, s)
    /\ UNCHANGED <<streamQ, msgPack, listenVars, msgQ, dispatcher, handled>>

Synchronizing(c) == pc[c] \in {"Synchronization", "waitSync", "barrier"}
Closing(c) == pc[c] \in {"Close", "waitClose", "done"}

\* synchronize and closeConnections: a loop over the servers that sends the
\* control message and its buffer, then waitAll.  synchronize is collective: all
\* clients call it equally often.
Begin(c) ==
    /\ pc[c] = "open"
    /\ \/ /\ round[c] < Rounds
          /\ \A d \in Clients : ~ Closing(d)
          /\ pc' = [pc EXCEPT ![c] = "Synchronization"]
       \/ /\ \A d \in Clients : ~ Synchronizing(d)
          /\ pc' = [pc EXCEPT ![c] = "Close"]
    /\ UNCHANGED <<next, round, stream, sent, wire, streamQ, msgPack, listenVars, msgQ, dispatcher, handled>>

\* the control message goes into the open stream's buffer, or into a fresh one
LoopSend(c) ==
    LET s == next[c]
    IN  /\ pc[c] \in {"Synchronization", "Close"}
        /\ stream[c][s] = <<>> => BufferFree(c)
        /\ Post(c, s, Append(stream[c][s], Msg(c, pc[c], 0)))
        /\ stream' = [stream EXCEPT ![c][s] = <<>>]
        /\ IF s = ServerCount
           THEN /\ pc' = [pc EXCEPT ![c] = IF @ = "Close" THEN "waitClose" ELSE "waitSync"]
                /\ next' = [next EXCEPT ![c] = 1]
           ELSE pc' = pc /\ next' = [next EXCEPT ![c] = s + 1]
        /\ UNCHANGED <<round, sent, streamQ, msgPack, listenVars, msgQ, dispatcher, handled>>

\* the open stream does not fit the control message and is posted first
LoopReplace(c) ==
    LET s == next[c]
    IN  /\ pc[c] \in {"Synchronization", "Close"}
        /\ stream[c][s] # <<>>
        /\ Post(c, s, stream[c][s])
        /\ stream' = [stream EXCEPT ![c][s] = <<>>]
        /\ UNCHANGED <<pc, next, round, sent, streamQ, msgPack, listenVars, msgQ, dispatcher, handled>>

WaitAll(c) ==
    /\ pc[c] \in {"waitSync", "waitClose"}
    /\ InFlight(c) = 0
    /\ pc' = [pc EXCEPT ![c] = IF @ = "waitSync" THEN "barrier" ELSE "done"]
    /\ UNCHANGED <<next, round, stream, sent, wire, streamQ, msgPack, listenVars, msgQ, dispatcher, handled>>

-----------------------------------------------------------------------------
(* The listen thread *)

\* mutant: the buffers of a client are received out of order
ListenLast(c, s) ==
    /\ ~ queueClosed[s]
    /\ wire[c][s] # <<>>
    /\ Len(streamQ[s]) < ServerPool
    /\ streamQ' = [streamQ EXCEPT ![s] = Append(@, Last(wire[c][s]))]
    /\ wire' = [wire EXCEPT ![c][s] = Front(@)]
    /\ UNCHANGED <<clientVars, msgPack, listenVars, msgQ, dispatcher, handled>>

\* mutant: the last buffer of the pool is never found
ListenAllButLast(c, s) ==
    /\ ~ queueClosed[s]
    /\ wire[c][s] # <<>>
    /\ Len(streamQ[s]) < ServerPool - 1
    /\ streamQ' = [streamQ EXCEPT ![s] = Append(@, Head(wire[c][s]))]
    /\ wire' = [wire EXCEPT ![c][s] = Tail(@)]
    /\ UNCHANGED <<clientVars, msgPack, listenVars, msgQ, dispatcher, handled>>

\* MpiTransport::listen: a message is there, a pool buffer is free, receive it
\* and push the buffer to streamQueue_
Listen(c, s) ==
    /\ ~ queueClosed[s]
    /\ wire[c][s] # <<>>
    /\ Len(streamQ[s]) < ServerPool
    /\ streamQ' = [streamQ EXCEPT ![s] = Append(@, Head(wire[c][s]))]
    /\ wire' = [wire EXCEPT ![c][s] = Tail(@)]
    /\ UNCHANGED <<clientVars, msgPack, listenVars, msgQ, dispatcher, handled>>

-----------------------------------------------------------------------------
(* The main thread: Listener::start *)

\* mutant: a buffer is decoded although the pack is not used up
DecodeOver(s) ==
    /\ running[s]
    /\ streamQ[s] # <<>>
    /\ msgPack' = [msgPack EXCEPT ![s] = Head(streamQ[s])]
    /\ streamQ' = [streamQ EXCEPT ![s] = Tail(@)]
    /\ UNCHANGED <<clientVars, wire, listenVars, msgQ, dispatcher, handled>>

\* MpiTransport::receive decodes the next buffer and gives it back to the pool
Decode(s) ==
    /\ running[s]
    /\ msgPack[s] = <<>>
    /\ streamQ[s] # <<>>
    /\ msgPack' = [msgPack EXCEPT ![s] = Head(streamQ[s])]
    /\ streamQ' = [streamQ EXCEPT ![s] = Tail(@)]
    /\ UNCHANGED <<clientVars, wire, listenVars, msgQ, dispatcher, handled>>

\* mutant: only one half of the condition
MoreToOpen(conns, count) == count # Cardinality(Clients)

MoreConnections(conns, count) == conns # {} \/ count # Cardinality(Clients)

\* the loop condition after a message, and msgQueue_.close() after the loop
LoopEnd(s) ==
    LET more == MoreConnections(connections'[s], opened'[s])
    IN  /\ running' = [running EXCEPT ![s] = more]
        /\ queueClosed' = [queueClosed EXCEPT ![s] = ~ more]

HandleOpen(s, m) ==
    /\ m.tag = "Open"
    /\ connections' = [connections EXCEPT ![s] = @ \cup {m.src}]
    /\ opened' = [opened EXCEPT ![s] = @ + 1]
    /\ LoopEnd(s)
    /\ UNCHANGED <<syncCount, failed, msgQ>>

\* erase(find(source)) is undefined if the source is not connected
HandleClose(s, m) ==
    /\ m.tag = "Close"
    /\ connections' = [connections EXCEPT ![s] = @ \ {m.src}]
    /\ failed' = [failed EXCEPT ![s] = m.src \notin connections[s]]
    /\ UNCHANGED opened
    /\ LoopEnd(s)
    /\ UNCHANGED <<syncCount, msgQ>>

\* checkConnection throws for a source that is not connected
HandleUnknown(s, m) ==
    /\ failed' = [failed EXCEPT ![s] = TRUE]
    /\ running' = [running EXCEPT ![s] = FALSE]
    /\ UNCHANGED <<connections, opened, syncCount, queueClosed, msgQ>>

\* mutant: the count is not reset
HandleSyncNoReset(s, m) ==
    /\ m.tag = "Synchronization"
    /\ IF m.src \notin connections[s] THEN HandleUnknown(s, m)
       ELSE /\ IF syncCount[s] + 1 = Cardinality(Clients)
               THEN Len(msgQ[s]) < QueueSize /\ msgQ' = [msgQ EXCEPT ![s] = Append(@, m)]
               ELSE msgQ' = msgQ
            /\ syncCount' = [syncCount EXCEPT ![s] = @ + 1]
            /\ UNCHANGED <<connections, opened, failed>>
            /\ LoopEnd(s)

\* mutant: the first synchronization message goes on instead of the last
HandleSyncFirst(s, m) ==
    /\ m.tag = "Synchronization"
    /\ IF m.src \notin connections[s] THEN HandleUnknown(s, m)
       ELSE /\ IF syncCount[s] = 0
               THEN Len(msgQ[s]) < QueueSize /\ msgQ' = [msgQ EXCEPT ![s] = Append(@, m)]
               ELSE msgQ' = msgQ
            /\ syncCount' = [syncCount EXCEPT ![s] = (@ + 1) % Cardinality(Clients)]
            /\ UNCHANGED <<connections, opened, failed>>
            /\ LoopEnd(s)

\* only the last of clientCount_ synchronization messages goes on
HandleSync(s, m) ==
    /\ m.tag = "Synchronization"
    /\ IF m.src \notin connections[s] THEN HandleUnknown(s, m)
       ELSE /\ IF syncCount[s] + 1 = Cardinality(Clients)
               THEN /\ Len(msgQ[s]) < QueueSize
                    /\ msgQ' = [msgQ EXCEPT ![s] = Append(@, m)]
                    /\ syncCount' = [syncCount EXCEPT ![s] = 0]
               ELSE msgQ' = msgQ /\ syncCount' = [syncCount EXCEPT ![s] = @ + 1]
            /\ UNCHANGED <<connections, opened, failed>>
            /\ LoopEnd(s)

HandleData(s, m) ==
    /\ m.tag = "Field"
    /\ IF m.src \notin connections[s] THEN HandleUnknown(s, m)
       ELSE /\ Len(msgQ[s]) < QueueSize
            /\ msgQ' = [msgQ EXCEPT ![s] = Append(@, m)]
            /\ UNCHANGED <<connections, opened, syncCount, failed>>
            /\ LoopEnd(s)

Handle(s) ==
    /\ running[s]
    /\ msgPack[s] # <<>>
    /\ LET m == Head(msgPack[s])
       IN  HandleOpen(s, m) \/ HandleClose(s, m) \/ HandleSync(s, m) \/ HandleData(s, m)
    /\ msgPack' = [msgPack EXCEPT ![s] = Tail(@)]
    /\ UNCHANGED <<clientVars, wire, streamQ, dispatcher, handled>>

-----------------------------------------------------------------------------
(* The dispatch thread *)

\* Dispatcher::handle: the plans for data, the barrier for a synchronization
Dispatch(s) ==
    /\ dispatcher[s] = "handling"
    /\ msgQ[s] # <<>>
    /\ msgQ' = [msgQ EXCEPT ![s] = Tail(@)]
    /\ LET m == Head(msgQ[s])
       IN  IF m.tag = "Synchronization"
           THEN dispatcher' = [dispatcher EXCEPT ![s] = "barrier"] /\ handled' = handled
           ELSE dispatcher' = dispatcher /\ handled' = [handled EXCEPT ![m.src][s] = m.n]
    /\ UNCHANGED <<clientVars, wire, streamQ, msgPack, listenVars>>

\* pop returns a negative size: closed and empty
DispatchEnd(s) ==
    /\ dispatcher[s] = "handling"
    /\ queueClosed[s] /\ msgQ[s] = <<>>
    /\ dispatcher' = [dispatcher EXCEPT ![s] = "ended"]
    /\ UNCHANGED <<clientVars, wire, streamQ, msgPack, listenVars, msgQ, handled>>

\* comm().barrier() over the parent communicator: all clients and all servers
Barrier ==
    /\ \A c \in Clients : pc[c] = "barrier"
    /\ \A s \in Servers : dispatcher[s] = "barrier"
    /\ pc' = [c \in Clients |-> "open"]
    /\ round' = [c \in Clients |-> round[c] + 1]
    /\ dispatcher' = [s \in Servers |-> "handling"]
    /\ UNCHANGED <<next, stream, sent, wire, streamQ, msgPack, listenVars, msgQ, handled>>

-----------------------------------------------------------------------------

Client(c) ==
    \/ OpenSend(c) \/ OpenReturn(c)
    \/ \E s \in Servers : Send(c, s)
    \/ Begin(c) \/ LoopSend(c) \/ LoopReplace(c) \/ WaitAll(c)

ListenThread(s) == \E c \in Clients : Listen(c, s)
MainThread(s) == Decode(s) \/ Handle(s)
DispatchThread(s) == Dispatch(s) \/ DispatchEnd(s)

\* All clients are done, all servers' threads have ended
Finished ==
    /\ \A c \in Clients : pc[c] = "done"
    /\ \A s \in Servers : dispatcher[s] = "ended" /\ ~ running[s]

Next ==
    \/ \E c \in Clients : Client(c)
    \/ \E s \in Servers : ListenThread(s) \/ MainThread(s) \/ DispatchThread(s)
    \/ Barrier
    \/ Finished /\ UNCHANGED vars

\* Some process or thread that can go on does.  No more is needed: none of them has
\* a loop in which it could starve the others.
Fairness == WF_vars(Next)

Spec == Init /\ [][Next]_vars /\ Fairness

-----------------------------------------------------------------------------

Tags == {"Open", "Close", "Synchronization", "Field"}

TypeOK ==
    /\ pc \in [Clients -> {"opening", "openWait", "open", "acquire", "Synchronization",
                           "Close", "waitSync", "waitClose", "barrier", "done"}]
    /\ next \in [Clients -> Servers]
    /\ round \in [Clients -> 0 .. Rounds]
    /\ \A c \in Clients, s \in Servers :
          sent[c][s] \in 0 .. MaxSent[c][s] /\ handled[c][s] \in 0 .. MaxSent[c][s]
    /\ connections \in [Servers -> SUBSET Clients]
    /\ opened \in [Servers -> 0 .. Cardinality(Clients)]
    /\ syncCount \in [Servers -> 0 .. Cardinality(Clients) - 1]
    /\ dispatcher \in [Servers -> {"handling", "barrier", "ended"}]
    /\ \A s \in Servers : \A i \in 1 .. Len(msgQ[s]) : msgQ[s][i].tag \in Tags

\* The listener never meets a message of a client that is not connected to it:
\* neither the SeriousBug of checkConnection nor the erase of a missing
\* connection is reachable, however opens and closes of the clients interleave.
NoStranger == \A s \in Servers : ~ failed[s]

\* What is on the way to the dispatcher of s and, from client c, to s, in the order
\* in which it arrives: message queue, decoded pack, received buffers, wire, stream.
InTransit(c, s) ==
    msgQ[s] \o msgPack[s] \o FlattenSeq(streamQ[s]) \o FlattenSeq(wire[c][s]) \o stream[c][s]

FieldsOf(c, q) == {i \in 1 .. Len(q) : q[i].src = c /\ q[i].tag = "Field"}

\* The two queues, the pack, the wire and the stream together hold exactly the
\* messages between the last one dispatched and the last one sent, in order.
PipelineFifo ==
    \A c \in Clients, s \in Servers :
        LET q == InTransit(c, s)
            F == FieldsOf(c, q)
        IN  /\ {q[i].n : i \in F} = handled[c][s] + 1 .. sent[c][s]
            /\ \A i, j \in F : i < j => q[i].n < q[j].n

\* A server whose receive loop has ended has received everything: nothing is
\* left on the wire or in its buffers, so no client waits for it.
StopsDrained ==
    \A s \in Servers : queueClosed[s] =>
        /\ streamQ[s] = <<>> /\ msgPack[s] = <<>>
        /\ \A c \in Clients : wire[c][s] = <<>> /\ stream[c][s] = <<>>

\* The whole system keeps the promise of IOService.
Service == INSTANCE IOService
    WITH rounds <- round[CHOOSE c \in Clients : TRUE],
         closed <- {c \in Clients : Closing(c)},
         stopped <- {s \in Servers : dispatcher[s] = "ended"}

ImplementsService == Service!Spec

\* Every client returns from its last closeConnections and every server stops.
Termination == <>Finished

=============================================================================
