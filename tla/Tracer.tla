------------------------------- MODULE Tracer -------------------------------
(***************************************************************************)
(* util/Tracer: threads record events into the current chunk; a chunk that  *)
(* is full, or flushed, goes through writeQueue_ to the writer thread and   *)
(* comes back empty through availableQueue_.  Chunk and index of the next   *)
(* slot share one atomic word, so that one exchange reserves a slot.        *)
(*                                                                         *)
(* The two queues are RingBuffers: by that module's properties a push and a *)
(* pop are atomic, first in first out.                                     *)
(***************************************************************************)
EXTENDS Naturals, Sequences, FiniteSets

CONSTANTS Recorders,   \* threads that call recordEvent
          Overlap,     \* TRUE if a thread may flush while others record; server
                       \* and client record and flush from one thread
          NumChunks,
          PerChunk,    \* events in a chunk
          ChunkIds,    \* chunk numbers the word has room for; a shift by
                       \* CHUNK_SHIFT makes a multiple of it
          MaxEvents,   \* bound: events recorded by one thread
          MaxFlushes   \* bound: flushes by one thread

Chunks == 0 .. NumChunks - 1
Slots  == 0 .. PerChunk - 1

ASSUME TracerAssumption ==
    /\ IsFiniteSet(Recorders)
    /\ NumChunks \in Nat /\ NumChunks > 1
    /\ PerChunk \in Nat \ {0}
    /\ ChunkIds \in Nat /\ NumChunks <= ChunkIds
    /\ Overlap \in BOOLEAN
    /\ MaxEvents \in Nat /\ MaxFlushes \in Nat

Empty == <<>>

VARIABLES
    trace,      \* traceChunks_
    current,    \* currentChunkAndIndex_: <<chunk, events reserved in it>>
    available,  \* availableQueue_
    writing,    \* writeQueue_
    pc,         \* where each thread is
    call,       \* the call it is in: record or flush
    seen,       \* its local chunkAndIndex
    got,        \* its local availableChunkId, a one-element sequence, or none
    target,     \* <<chunk, index>> it has reserved
    events,     \* events each thread has begun to record
    flushes,    \* flushes each thread has begun
    wpc,        \* where the writer thread is
    writer,     \* the chunk it has, 0 when it has none
    running,    \* running_, and whether the destructor has begun
    file        \* chunks written, in order

shared == <<trace, current, available, writing>>
locals == <<pc, call, seen, got, target, events, flushes>>
vars   == <<shared, locals, wpc, writer, running, file>>

NoTarget == <<0, 0>>

Init ==
    /\ trace = [c \in Chunks |-> [i \in Slots |-> Empty]]
    /\ current = <<0, 0>>
    /\ available = [i \in 1 .. NumChunks - 1 |-> i]
    /\ writing = <<>>
    /\ pc = [t \in Recorders |-> "idle"]
    /\ call = [t \in Recorders |-> "none"]
    /\ seen = [t \in Recorders |-> <<0, 0>>]
    /\ got = [t \in Recorders |-> <<>>]
    /\ target = [t \in Recorders |-> NoTarget]
    /\ events = [t \in Recorders |-> 0]
    /\ flushes = [t \in Recorders |-> 0]
    /\ wpc = "check" /\ writer = 0
    /\ running = "yes"
    /\ file = <<>>

Goto(t, l) == pc' = [pc EXCEPT ![t] = l]
Event(t) == <<t, events[t]>>
Others(t) == Recorders \ {t}
Alone(t) == \A u \in Others(t) : events[u] = 0 /\ flushes[u] = 0

\* no room in the chunk that was seen, or a flush
Switches(t) == call[t] = "flush" \/ seen[t][2] + 1 > PerChunk

-----------------------------------------------------------------------------

RecordBegin(t) ==
    /\ pc[t] = "idle" /\ running = "yes"
    /\ events[t] < MaxEvents
    /\ ~ Overlap => \A u \in Others(t) : flushes[u] = 0
    /\ events' = [events EXCEPT ![t] = @ + 1]
    /\ call' = [call EXCEPT ![t] = "record"]
    /\ seen' = [seen EXCEPT ![t] = current]
    /\ Goto(t, "choose")
    /\ UNCHANGED <<shared, got, target, flushes, wpc, writer, running, file>>

FlushBegin(t) ==
    /\ pc[t] = "idle" /\ running = "yes"
    /\ flushes[t] < MaxFlushes
    /\ ~ Overlap => Alone(t)
    /\ flushes' = [flushes EXCEPT ![t] = @ + 1]
    /\ call' = [call EXCEPT ![t] = "flush"]
    /\ seen' = [seen EXCEPT ![t] = current]
    /\ Goto(t, "choose")
    /\ UNCHANGED <<shared, got, target, events, wpc, writer, running, file>>

\* a chunk switch spins on availableQueue_ until it gets a chunk
Choose(t) ==
    /\ pc[t] = "choose"
    /\ IF Switches(t)
       THEN /\ available # <<>>
            /\ got' = [got EXCEPT ![t] = <<Head(available)>>]
            /\ available' = Tail(available)
       ELSE UNCHANGED <<got, available>>
    /\ Goto(t, "exchange")
    /\ UNCHANGED <<trace, current, writing, call, seen, target, events, flushes, wpc, writer, running, file>>

\* the word the exchange installs
NextWord(t) ==
    IF ~ Switches(t) THEN <<seen[t][1], seen[t][2] + 1>>
    ELSE <<got[t][1] % ChunkIds, IF call[t] = "flush" THEN 0 ELSE 1>>

Reserve(t) ==
    /\ pc[t] = "exchange" /\ current = seen[t]
    /\ current' = NextWord(t)
    /\ target' = [target EXCEPT ![t] =
                     IF Switches(t) THEN <<got[t][1], 0>> ELSE seen[t]]
    /\ Goto(t, IF Switches(t) THEN "handover" ELSE "write")
    /\ UNCHANGED <<trace, available, writing, call, seen, got, events, flushes, wpc, writer, running, file>>

\* mutant: the chunk that was taken is not put back
MissLeak(t) ==
    /\ pc[t] = "exchange" /\ current # seen[t]
    /\ seen' = [seen EXCEPT ![t] = current]
    /\ got' = [got EXCEPT ![t] = <<>>]
    /\ Goto(t, "choose")
    /\ UNCHANGED <<shared, call, target, events, flushes, wpc, writer, running, file>>

\* the exchange fails: the chunk goes back to availableQueue_, in a flush with
\* its number shifted
Miss(t) ==
    /\ pc[t] = "exchange" /\ current # seen[t]
    /\ available' = available \o
          [i \in 1 .. Len(got[t]) |-> IF call[t] = "flush" THEN got[t][i] * ChunkIds ELSE got[t][i]]
    /\ seen' = [seen EXCEPT ![t] = current]
    /\ got' = [got EXCEPT ![t] = <<>>]
    /\ Goto(t, "choose")
    /\ UNCHANGED <<trace, current, writing, call, target, events, flushes, wpc, writer, running, file>>

\* mutant: a full chunk is not handed over
HandOverNot(t) ==
    /\ pc[t] = "handover"
    /\ got' = [got EXCEPT ![t] = <<>>]
    /\ Goto(t, IF call[t] = "flush" THEN "idle" ELSE "write")
    /\ UNCHANGED <<shared, call, seen, target, events, flushes, wpc, writer, running, file>>

\* writeQueue_.push of the chunk that was current
HandOver(t) ==
    /\ pc[t] = "handover"
    /\ writing' = Append(writing, seen[t][1])
    /\ got' = [got EXCEPT ![t] = <<>>]
    /\ Goto(t, IF call[t] = "flush" THEN "idle" ELSE "write")
    /\ UNCHANGED <<trace, current, available, call, seen, target, events, flushes, wpc, writer, running, file>>

Write(t) ==
    /\ pc[t] = "write"
    /\ trace' = [trace EXCEPT ![target[t][1]][target[t][2]] = Event(t)]
    /\ Goto(t, "idle")
    /\ UNCHANGED <<current, available, writing, call, seen, got, target, events, flushes, wpc, writer, running, file>>

-----------------------------------------------------------------------------
(* The writer thread *)

WriterCheck ==
    /\ wpc = "check" /\ running # "no"
    /\ wpc' = "pop"
    /\ UNCHANGED <<shared, locals, writer, running, file>>

\* an empty queue makes it sleep and look again
WriterPop ==
    /\ wpc = "pop"
    /\ IF writing = <<>>
       THEN wpc' = "check" /\ UNCHANGED <<writer, writing>>
       ELSE wpc' = "write" /\ writer' = Head(writing) /\ writing' = Tail(writing)
    /\ UNCHANGED <<trace, current, available, locals, running, file>>

\* the whole chunk is written, slots that hold no event included
WriterWrite ==
    /\ wpc = "write"
    /\ file' = Append(file, trace[writer])
    /\ wpc' = "clear"
    /\ UNCHANGED <<shared, locals, writer, running>>

\* mutant: the chunk is not cleared
WriterKeep ==
    /\ wpc = "clear"
    /\ wpc' = "return"
    /\ UNCHANGED <<shared, locals, writer, running, file>>

WriterClear ==
    /\ wpc = "clear"
    /\ trace' = [trace EXCEPT ![writer] = [i \in Slots |-> Empty]]
    /\ wpc' = "return"
    /\ UNCHANGED <<current, available, writing, locals, writer, running, file>>

\* mutant: the chunk does not come back
WriterDrop ==
    /\ wpc = "return"
    /\ writer' = 0
    /\ wpc' = "check"
    /\ UNCHANGED <<shared, locals, running, file>>

WriterReturn ==
    /\ wpc = "return"
    /\ available' = Append(available, writer)
    /\ writer' = 0
    /\ wpc' = "check"
    /\ UNCHANGED <<trace, current, writing, locals, running, file>>

\* ~Tracer, which no other call overlaps: the current chunk is handed over, and
\* some time later the writer is told to end
Destroy ==
    /\ running = "yes"
    /\ \A t \in Recorders : pc[t] = "idle"
    /\ writing' = Append(writing, current[1])
    /\ running' = "ending"
    /\ UNCHANGED <<trace, current, available, locals, wpc, writer, file>>

StopWriter ==
    /\ running = "ending"
    /\ running' = "no"
    /\ UNCHANGED <<shared, locals, wpc, writer, file>>

-----------------------------------------------------------------------------

Thread(t) == \/ RecordBegin(t) \/ FlushBegin(t) \/ Choose(t) \/ Reserve(t)
             \/ Miss(t) \/ HandOver(t) \/ Write(t)

Writer == WriterCheck \/ WriterPop \/ WriterWrite \/ WriterClear \/ WriterReturn

Next == \/ \E t \in Recorders : Thread(t)
        \/ Writer
        \/ Destroy \/ StopWriter

\* A call that has begun goes on, and so does the writer.
Fairness ==
    /\ \A t \in Recorders : WF_vars(Choose(t) \/ Reserve(t) \/ Miss(t) \/ HandOver(t) \/ Write(t))
    /\ WF_vars(Writer)

Spec == Init /\ [][Next]_vars /\ Fairness

-----------------------------------------------------------------------------

\* chunks a thread has between taking one and handing one over
Held(t) == CASE pc[t] = "exchange" -> got[t]
             [] pc[t] = "handover" -> <<seen[t][1]>>
             [] OTHER -> <<>>
WriterHas == wpc \in {"write", "clear", "return"}

Positions(s, c) == {i \in 1 .. Len(s) : s[i] = c}
PlacesOf(c) ==
    Cardinality(Positions(available, c)) + Cardinality(Positions(writing, c))
    + Cardinality({t \in Recorders : c \in {Held(t)[i] : i \in 1 .. Len(Held(t))}})
    + (IF WriterHas /\ writer = c THEN 1 ELSE 0)
    + (IF current[1] = c THEN 1 ELSE 0)

\* Until the destructor begins every chunk is in exactly one place: the current
\* one, on a queue, or with one thread.  None leaks when two threads switch
\* chunks at once, none is current and being written, and no queue overflows.
ChunksConserved == running = "yes" => \A c \in Chunks : PlacesOf(c) = 1

\* the chunks that are on their way to the file, up to the current one
Line(t) ==
    (IF wpc = "write" THEN <<writer>> ELSE <<>>) \o writing
    \o (IF pc[t] = "handover" THEN <<seen[t][1]>> ELSE <<>>)
    \o (IF running = "yes" THEN <<current[1]>> ELSE <<>>)
Traces(s) == [i \in 1 .. Len(s) |-> trace[s[i]]]
Logged(t) == file \o Traces(Line(t))

Recording(t) == call[t] = "record" /\ pc[t] # "idle"
Finished(t) == IF Recording(t) THEN events[t] - 1 ELSE events[t]

\* the places in a sequence of chunks that hold an event
Marks(log) == {m \in (1 .. Len(log)) \X Slots : log[m[1]][m[2]] # Empty}
At(log, m) == log[m[1]][m[2]]
Before(m, k) == m[1] < k[1] \/ (m[1] = k[1] /\ m[2] < k[2])

\* the log holds the events 1 .. n of t and nothing else, each once and in order
InOrder(log, t, n) ==
    /\ \A i \in 1 .. n : \E m \in Marks(log) : At(log, m) = <<t, i>>
    /\ \A m \in Marks(log) : \E i \in 1 .. n : At(log, m) = <<t, i>>
    /\ \A m, k \in Marks(log) : Before(m, k) <=> At(log, m)[2] < At(log, k)[2]

\* A thread that traces alone, flushes included, loses and repeats no event: the
\* file followed by the chunks on their way to it is all it recorded, in order.
LoggedInOrder == \A t \in Recorders : Alone(t) => InOrder(Logged(t), t, Finished(t))

\* What is recorded before a flush of the same thread is in the file in the end,
\* unless the writer is stopped first.
FlushWritten ==
    \A t \in Recorders, n \in 1 .. MaxEvents :
        (call[t] = "flush" /\ events[t] = n)
            ~> (running = "no" \/ \E i \in 1 .. Len(file), j \in Slots : file[i][j] = <<t, n>>)

\* No call spins for ever: neither for a free chunk, with all of them in the
\* hands of others, nor in the exchange.
CallsEnd == \A t \in Recorders : (pc[t] # "idle") ~> (pc[t] = "idle")

\* "push the completed chunk to the write queue" (Tracer.cc:93): a chunk that is
\* on its way to the file has no slot that is reserved and still to be written.
CompletedChunk ==
    \A t \in Recorders : pc[t] = "write" =>
        /\ target[t][1] \notin {writing[i] : i \in 1 .. Len(writing)}
        /\ ~ (WriterHas /\ writer = target[t][1])

=============================================================================
