----------------------------- MODULE StreamPool -----------------------------
(***************************************************************************)
(* The client side of MpiTransport: messages are encoded into a small pool *)
(* of MPI buffers (StreamPool, MpiStream), one open stream per server, and *)
(* a full stream is handed to MPI with a non-blocking iSend.  A buffer is  *)
(* written by this class only while its status is fillingUp; after iSend   *)
(* it belongs to MPI until the request has completed.                      *)
(*                                                                         *)
(* One client thread calls bufferedSend, synchronize and closeConnections. *)
(* The spin loops (acquireAvailableBuffer, waitAll) are actions that are   *)
(* enabled when the loop would end; MpiComplete, the progress of MPI, runs *)
(* between any two of them.                                                *)
(***************************************************************************)
EXTENDS Naturals, Sequences, FiniteSets

CONSTANTS ServerCount, \* serverPeers().size(), a server is its position there
          PoolSize,    \* getMpiPoolSize: number of buffers
          BufSize,     \* getMpiBufferSize: bytes of each buffer
          Margin,      \* the 4096 bytes kept for header and footer
          Fields,      \* messages the plans send (any tag but the control tags)
          Size,        \* Size[m]: msg.size(), the payload bytes
          Header,      \* Header[m]: bytes encodeMessage adds to the payload
          MaxAccepted  \* bound: data messages sent to one server

Control == {"Synchronization", "Close"}
Msgs    == Fields \cup Control
Buffers == 1 .. PoolSize
Servers == 1 .. ServerCount

\* The constructor of MpiTransport throws unless poolSize >= serverGroup_.size().
ASSUME PoolAssumption ==
    /\ ServerCount \in Nat
    /\ PoolSize \in Nat
    /\ ServerCount <= PoolSize

ASSUME SizeAssumption ==
    /\ BufSize \in Nat
    /\ Margin \in Nat
    /\ Size \in [Msgs -> Nat]
    /\ Header \in [Msgs -> Nat \ {0}]
    /\ MaxAccepted \in Nat

NoMsg == <<>>
NoStream == 0

VARIABLES
    status,    \* MpiBuffer::status
    inflight,  \* the buffer's MPI request has not completed
    cap,       \* content.size() of each buffer
    content,   \* messages encoded into the buffer's content
    fill,      \* bytesWritten() of the stream on the buffer
    streams,   \* streams_: buffer of the open stream to a server, NoStream if none
    op,        \* the call the client is in: idle, send, Synchronization or Close
    phase,     \* where in it: encode, acquire, post, wait or thrown
    want,      \* <<dest, msg>> while createNewStream waits for a buffer
    next,      \* server the loop of synchronize/closeConnections is at
    accepted,  \* history: messages given to bufferedSend, per server
    posted,    \* history: messages handed to iSend, per server
    snap       \* history: content of the buffer when iSend was called

bufVars  == <<status, inflight, cap, content, fill, snap>>
callVars == <<op, phase, want, next>>
vars     == <<bufVars, streams, callVars, accepted, posted>>

-----------------------------------------------------------------------------

Init ==
    /\ status = [b \in Buffers |-> "available"]
    /\ inflight = [b \in Buffers |-> FALSE]
    /\ cap = [b \in Buffers |-> BufSize]
    /\ content = [b \in Buffers |-> <<>>]
    /\ fill = [b \in Buffers |-> 0]
    /\ streams = [d \in Servers |-> NoStream]
    /\ op = "idle"
    /\ phase = "encode"
    /\ want = NoMsg
    /\ next = 1
    /\ accepted = [d \in Servers |-> <<>>]
    /\ posted = [d \in Servers |-> <<>>]
    /\ snap = [b \in Buffers |-> <<>>]

Streaming == {d \in Servers : streams[d] # NoStream}

\* mutant: no room kept for header and footer
CanFitNoMargin(b, m) == fill[b] + Size[m] < cap[b]

\* MpiOutputStream::canFitMessage
CanFit(b, m) == fill[b] + Size[m] + Margin < cap[b]

\* shallFitMessage says yes for sure below half full, at random from there on
SureFit(b, m) == CanFit(b, m) /\ 2 * fill[b] < cap[b]

\* mutant: the request is not tested
IsFreeUntested(b) == status[b] # "fillingUp"

\* mutant: a sent buffer is never taken back
IsFreeNeverBack(b) == status[b] = "available"

\* MpiBuffer::isFree, and the test of acquireAvailableBuffer
IsFree(b) ==
    \/ status[b] = "available"
    \/ status[b] = "transmitting" /\ ~ inflight[b]

\* encodeMessage at position pos of buffer b.  ResizableMemoryStream grows the
\* buffer when the encoding does not fit.
Encode(b, pos, old, m) ==
    LET end == pos + Size[m] + Header[m]
    IN  /\ content' = [content EXCEPT ![b] = Append(old, m)]
        /\ fill' = [fill EXCEPT ![b] = end]
        /\ cap' = [cap EXCEPT ![b] = IF end > cap[b] THEN end ELSE cap[b]]

\* mutant: the stream is not removed from streams_
PostBufferKeepStream(d) ==
    LET b == streams[d]
    IN  /\ inflight' = [inflight EXCEPT ![b] = TRUE]
        /\ status' = [status EXCEPT ![b] = "transmitting"]
        /\ posted' = [posted EXCEPT ![d] = @ \o content[b]]
        /\ snap' = [snap EXCEPT ![b] = content[b]]
        /\ UNCHANGED <<streams, cap, content, fill>>

\* mutant: the status stays fillingUp
PostBufferKeepStatus(d) ==
    LET b == streams[d]
    IN  /\ inflight' = [inflight EXCEPT ![b] = TRUE]
        /\ streams' = [streams EXCEPT ![d] = NoStream]
        /\ posted' = [posted EXCEPT ![d] = @ \o content[b]]
        /\ snap' = [snap EXCEPT ![b] = content[b]]
        /\ UNCHANGED <<status, cap, content, fill>>

\* StreamPool::sendBuffer: iSend the stream's buffer and forget the stream
PostBuffer(d) ==
    LET b == streams[d]
    IN  /\ inflight' = [inflight EXCEPT ![b] = TRUE]
        /\ status' = [status EXCEPT ![b] = "transmitting"]
        /\ streams' = [streams EXCEPT ![d] = NoStream]
        /\ posted' = [posted EXCEPT ![d] = @ \o content[b]]
        /\ snap' = [snap EXCEPT ![b] = content[b]]
        /\ UNCHANGED <<cap, content, fill>>

\* createNewStream: its check, then the search for a buffer
AskBuffer(d, m, open) ==
    /\ want' = <<d, m>>
    /\ phase' = IF PoolSize < Cardinality(open) THEN "thrown" ELSE "acquire"

-----------------------------------------------------------------------------
\* getStream(m to d) and the encoding, up to the point where a buffer is needed

\* the open stream is kept
ReuseStream(d, m) ==
    /\ d \in Streaming
    /\ CanFit(streams[d], m)
    /\ Encode(streams[d], fill[streams[d]], content[streams[d]], m)
    /\ UNCHANGED <<status, inflight, snap, streams, posted, want>>

\* the open stream's buffer is sent first, then a new one is asked for
ReplaceStream(d, m) ==
    /\ d \in Streaming
    /\ ~ SureFit(streams[d], m)
    /\ PostBuffer(d)
    /\ AskBuffer(d, m, Streaming \ {d})

\* there is no open stream
FirstStream(d, m) ==
    /\ d \notin Streaming
    /\ AskBuffer(d, m, Streaming)
    /\ UNCHANGED <<bufVars, streams, posted>>

Accept(d, m) == accepted' = [accepted EXCEPT ![d] = Append(@, m)]

\* MpiTransport::bufferedSend called by the transport action with a data message
Send(d, m) ==
    /\ op = "idle"
    /\ Len(accepted[d]) < MaxAccepted
    /\ Accept(d, m)
    /\ \/ ReuseStream(d, m) /\ UNCHANGED <<op, phase>>
       \/ ReplaceStream(d, m) /\ op' = "send"
       \/ FirstStream(d, m) /\ op' = "send"
    /\ UNCHANGED next

\* MpiTransport::synchronize (client) and closeConnections are the same loop
Begin(tag) ==
    /\ op = "idle"
    /\ \A d \in Servers : Len(accepted[d]) < MaxAccepted
    /\ op' = tag
    /\ phase' = IF ServerCount = 0 THEN "wait" ELSE "encode"
    /\ next' = 1
    /\ UNCHANGED <<bufVars, streams, want, accepted, posted>>

\* bufferedSend in the loop
LoopSend ==
    /\ op \in Control /\ phase = "encode"
    /\ Accept(next, op)
    /\ \/ ReuseStream(next, op) /\ phase' = "post"
       \/ ReplaceStream(next, op)
       \/ FirstStream(next, op)
    /\ UNCHANGED <<op, next>>

\* mutant: the new stream goes on behind what the buffer held before
AcquireStale(b) ==
    /\ phase = "acquire"
    /\ IsFree(b)
    /\ status' = [status EXCEPT ![b] = "fillingUp"]
    /\ streams' = [streams EXCEPT ![want[1]] = b]
    /\ Encode(b, fill[b], content[b], want[2])
    /\ want' = NoMsg
    /\ IF op = "send" THEN op' = "idle" /\ phase' = "encode"
                      ELSE op' = op /\ phase' = "post"
    /\ UNCHANGED <<inflight, snap, next, accepted, posted>>

\* acquireAvailableBuffer ends: find_if may pass over an earlier free buffer, whose
\* request completed after it was tested or whose weak exchange failed.  The new
\* stream starts with the waiting message.
Acquire(b) ==
    /\ phase = "acquire"
    /\ IsFree(b)
    /\ status' = [status EXCEPT ![b] = "fillingUp"]
    /\ streams' = [streams EXCEPT ![want[1]] = b]
    /\ Encode(b, 0, <<>>, want[2])
    /\ want' = NoMsg
    /\ IF op = "send" THEN op' = "idle" /\ phase' = "encode"
                      ELSE op' = op /\ phase' = "post"
    /\ UNCHANGED <<inflight, snap, next, accepted, posted>>

\* mutant: the loop runs one past the last server
LoopPostOnePast ==
    /\ op \in Control /\ phase = "post"
    /\ PostBuffer(next)
    /\ next' = next + 1
    /\ phase' = IF next > ServerCount THEN "wait" ELSE "encode"
    /\ UNCHANGED <<op, want, accepted>>

\* pool_.sendBuffer(msg.destination()) in the loop
LoopPost ==
    /\ op \in Control /\ phase = "post"
    /\ PostBuffer(next)
    /\ next' = next + 1
    /\ phase' = IF next = ServerCount THEN "wait" ELSE "encode"
    /\ UNCHANGED <<op, want, accepted>>

\* mutant: the call returns without waiting
WaitAllNot ==
    /\ op \in Control /\ phase = "wait"
    /\ op' = "idle"
    /\ phase' = "encode"
    /\ next' = 1
    /\ UNCHANGED <<bufVars, streams, want, accepted, posted>>

\* waitAll ends, and with it the call
WaitAll ==
    /\ op \in Control /\ phase = "wait"
    /\ \A b \in Buffers : IsFree(b)
    /\ op' = "idle"
    /\ phase' = "encode"
    /\ next' = 1
    /\ UNCHANGED <<bufVars, streams, want, accepted, posted>>

\* MPI has taken the data out of the buffer: the request tests as complete
MpiComplete(b) ==
    /\ inflight[b]
    /\ inflight' = [inflight EXCEPT ![b] = FALSE]
    /\ UNCHANGED <<status, cap, content, fill, snap, streams, callVars, accepted, posted>>

Client ==
    \/ \E d \in Servers, m \in Fields : Send(d, m)
    \/ \E tag \in Control : Begin(tag)
    \/ LoopSend
    \/ \E b \in Buffers : Acquire(b)
    \/ LoopPost
    \/ WaitAll

Next == Client \/ \E b \in Buffers : MpiComplete(b)

\* A call that has begun runs on its own thread, and MPI delivers to a server
\* that keeps receiving.
Fairness ==
    /\ WF_vars(LoopSend \/ (\E b \in Buffers : Acquire(b)) \/ LoopPost \/ WaitAll)
    /\ \A b \in Buffers : WF_vars(MpiComplete(b))

Spec == Init /\ [][Next]_vars /\ Fairness

-----------------------------------------------------------------------------

TypeOK ==
    /\ status \in [Buffers -> {"available", "fillingUp", "transmitting"}]
    /\ inflight \in [Buffers -> BOOLEAN]
    /\ cap \in [Buffers -> Nat]
    /\ content \in [Buffers -> Seq(Msgs)]
    /\ fill \in [Buffers -> Nat]
    /\ streams \in [Servers -> Buffers \cup {NoStream}]
    /\ op \in {"idle", "send"} \cup Control
    /\ phase \in {"encode", "acquire", "post", "wait", "thrown"}
    /\ phase \in {"acquire", "thrown"} => want \in Servers \X Msgs
    /\ next \in 1 .. ServerCount + 1
    /\ accepted \in [Servers -> Seq(Msgs)]
    /\ posted \in [Servers -> Seq(Msgs)]
    /\ snap \in [Buffers -> Seq(Msgs)]

\* Every open stream writes into a buffer of its own, and exactly the buffers of
\* open streams are fillingUp: no buffer leaks out of the pool, none is shared.
StreamsOwnBuffers ==
    /\ \A d, e \in Streaming : streams[d] = streams[e] => d = e
    /\ \A b \in Buffers :
          status[b] = "fillingUp" <=> \E d \in Streaming : streams[d] = b

\* The bytes MPI is still reading are the ones iSend was called with: nothing
\* encodes into a buffer whose request has not completed.
InFlightUntouched ==
    \A b \in Buffers : inflight[b] => status[b] = "transmitting" /\ content[b] = snap[b]

\* Messages encoded in the open stream to d, and the one that waits for a buffer
Open(d)    == IF d \in Streaming THEN content[streams[d]] ELSE <<>>
Waiting(d) == IF phase \in {"acquire", "thrown"} /\ want[1] = d THEN <<want[2]>> ELSE <<>>

\* What is handed to MPI for a server, followed by what is still in its stream,
\* is what the client sent it: no message is lost, repeated or overtaken when a
\* stream is replaced.
FifoPerServer ==
    \A d \in Servers : accepted[d] = posted[d] \o (Open(d) \o Waiting(d))

\* The ASSERT(sz < buffer.content.size()) of blockingReceive holds for every
\* buffer a client with the same buffer size sends.
ReceiveFits ==
    \A b \in Buffers : inflight[b] => fill[b] < BufSize

\* createNewStream never throws, and while it searches there is a buffer that is
\* not held by another stream: the spin in acquireAvailableBuffer can end.
BufferObtainable ==
    /\ phase # "thrown"
    /\ phase = "acquire" => \E b \in Buffers : status[b] # "fillingUp"

Flushed ==
    /\ Streaming = {}
    /\ \A b \in Buffers : ~ inflight[b]
    /\ \A d \in Servers : posted[d] = accepted[d]

\* synchronize and closeConnections return only when everything the client ever
\* sent is out of its buffers: no stream is left open, no request is pending.
ReturnsFlushed == [][(op \in Control /\ op' = "idle") => Flushed']_vars

\* Every call of the client returns: neither of the two spin loops is endless.
CallsReturn == op # "idle" ~> op = "idle"

=============================================================================
