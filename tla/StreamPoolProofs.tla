-------------------------- MODULE StreamPoolProofs --------------------------
(* What StreamPool promises, for every number of servers and buffers and every *)
(* message size.                                                               *)
EXTENDS StreamPool, SequenceTheorems, FiniteSetTheorems, TLAPS

\* Where the call is and what it has done there.
CallShape ==
    /\ op = "idle" => phase = "encode"
    /\ op = "send" => phase \in {"acquire", "thrown"}
    /\ op \in Control =>
         /\ phase = "wait" => next = ServerCount + 1
         /\ phase # "wait" => next \in Servers
         /\ phase \in {"acquire", "thrown"} => want = <<next, op>>
         /\ phase = "post" => next \in Streaming
         /\ \A d \in Servers : d < next => d \notin Streaming
    /\ phase \in {"acquire", "thrown"} => want[1] \notin Streaming

Base == TypeOK /\ CallShape

\* An open stream has a buffer of the pool, with a typed content.
LEMMA StreamsTyped ==
    ASSUME TypeOK, NEW d \in Streaming
    PROVE  streams[d] \in Buffers /\ content[streams[d]] \in Seq(Msgs)
           /\ fill[streams[d]] \in Nat /\ d \in Servers
BY DEF TypeOK, Streaming, NoStream

BufTypes ==
    /\ status \in [Buffers -> {"available", "fillingUp", "transmitting"}]
    /\ inflight \in [Buffers -> BOOLEAN]
    /\ cap \in [Buffers -> Nat]
    /\ content \in [Buffers -> Seq(Msgs)]
    /\ fill \in [Buffers -> Nat]
    /\ streams \in [Servers -> Buffers \cup {NoStream}]
    /\ posted \in [Servers -> Seq(Msgs)]
    /\ snap \in [Buffers -> Seq(Msgs)]

\* sendBuffer on an open stream closes that stream and no other.
LEMMA PostTyped ==
    ASSUME TypeOK, NEW d \in Streaming, PostBuffer(d)
    PROVE  BufTypes' /\ Streaming' = Streaming \ {d}
<1>1. streams[d] \in Buffers /\ content[streams[d]] \in Seq(Msgs) /\ d \in Servers
  BY StreamsTyped
<1>2. posted[d] \o content[streams[d]] \in Seq(Msgs)
  BY <1>1 DEF TypeOK
<1>3. BufTypes'
  BY <1>1, <1>2 DEF TypeOK, PostBuffer, BufTypes, NoStream
<1>4. Streaming' = Streaming \ {d}
  BY <1>1 DEF TypeOK, PostBuffer, Streaming, NoStream
<1> QED BY <1>3, <1>4

\* Encoding a message keeps the buffers typed.
LEMMA EncodeTyped ==
    ASSUME TypeOK, NEW b \in Buffers, NEW pos \in Nat, NEW old \in Seq(Msgs),
           NEW m \in Msgs, Encode(b, pos, old, m)
    PROVE  /\ cap' \in [Buffers -> Nat]
           /\ content' \in [Buffers -> Seq(Msgs)]
           /\ fill' \in [Buffers -> Nat]
<1>1. Append(old, m) \in Seq(Msgs)
  OBVIOUS
<1>2. pos + Size[m] + Header[m] \in Nat
  BY SizeAssumption
<1> QED BY <1>1, <1>2 DEF Encode, TypeOK

\* A call starts in the shape CallShape asks for, with everything typed.
LEMMA InitBase == Init => Base
BY PoolAssumption, SizeAssumption
   DEF Init, Base, TypeOK, CallShape, Buffers, Servers, Streaming, Control, Msgs

\* Every step keeps the types and the shape of the call under way.
LEMMA StepBase == Base /\ [Next]_vars => Base'
<1> SUFFICES ASSUME Base, [Next]_vars PROVE Base'
  OBVIOUS
<1> USE PoolAssumption, SizeAssumption
<1> USE DEF Base
<1>1. ASSUME NEW d \in Servers, NEW m \in Fields, Send(d, m) PROVE Base'
  <2> m \in Msgs BY DEF Msgs
  <2> accepted' \in [Servers -> Seq(Msgs)] BY <1>1 DEF Send, Accept, TypeOK
  <2>1. CASE ReuseStream(d, m) /\ UNCHANGED <<op, phase>>
    <3>1. /\ cap' \in [Buffers -> Nat]
          /\ content' \in [Buffers -> Seq(Msgs)]
          /\ fill' \in [Buffers -> Nat]
      BY <2>1, StreamsTyped, EncodeTyped DEF ReuseStream
    <3> QED BY <1>1, <2>1, <3>1 DEF Send, ReuseStream, TypeOK, CallShape, Streaming, Control
  <2>2. CASE ReplaceStream(d, m) /\ op' = "send"
    <3>1. BufTypes' /\ Streaming' = Streaming \ {d}
      BY <2>2, PostTyped DEF ReplaceStream
    <3> QED BY <1>1, <2>2, <3>1 DEF Send, ReplaceStream, AskBuffer, BufTypes, TypeOK, CallShape, Streaming, Control
  <2>3. CASE FirstStream(d, m) /\ op' = "send"
    BY <1>1, <2>3 DEF Send, FirstStream, AskBuffer, bufVars, TypeOK, CallShape, Streaming, Control
  <2> QED BY <1>1, <2>1, <2>2, <2>3 DEF Send
<1>2. ASSUME NEW tag \in Control, Begin(tag) PROVE Base'
  BY <1>2 DEF Begin, TypeOK, CallShape, bufVars, Streaming, Servers, Control, Msgs
<1>3. ASSUME LoopSend PROVE Base'
  <2> op \in Msgs /\ next \in Servers BY <1>3 DEF LoopSend, Msgs, CallShape
  <2> accepted' \in [Servers -> Seq(Msgs)] BY <1>3 DEF LoopSend, Accept, TypeOK
  <2>1. CASE ReuseStream(next, op) /\ phase' = "post"
    <3>1. /\ cap' \in [Buffers -> Nat]
          /\ content' \in [Buffers -> Seq(Msgs)]
          /\ fill' \in [Buffers -> Nat]
      BY <2>1, StreamsTyped, EncodeTyped DEF ReuseStream
    <3> QED BY <1>3, <2>1, <3>1 DEF LoopSend, ReuseStream, TypeOK, CallShape, Streaming, Control
  <2>2. CASE ReplaceStream(next, op)
    <3>1. BufTypes' /\ Streaming' = Streaming \ {next}
      BY <2>2, PostTyped DEF ReplaceStream
    <3> QED BY <1>3, <2>2, <3>1 DEF LoopSend, ReplaceStream, AskBuffer, BufTypes, TypeOK, CallShape, Streaming, Control, Servers
  <2>3. CASE FirstStream(next, op)
    BY <1>3, <2>3 DEF LoopSend, FirstStream, AskBuffer, bufVars, TypeOK, CallShape, Streaming, Control
  <2> QED BY <1>3, <2>1, <2>2, <2>3 DEF LoopSend
<1>4. ASSUME NEW b \in Buffers, Acquire(b) PROVE Base'
  <2>1. want[1] \in Servers /\ want[2] \in Msgs BY <1>4 DEF Acquire, TypeOK
  <2>2. <<>> \in Seq(Msgs) /\ 0 \in Nat OBVIOUS
  <2>3. /\ cap' \in [Buffers -> Nat]
        /\ content' \in [Buffers -> Seq(Msgs)]
        /\ fill' \in [Buffers -> Nat]
    BY <1>4, <2>1, <2>2, EncodeTyped DEF Acquire
  <2>4. Streaming' = Streaming \cup {want[1]}
    <3>1. b # NoStream BY PoolAssumption DEF Buffers, NoStream
    <3>2. \A d \in Servers : streams'[d] = IF d = want[1] THEN b ELSE streams[d]
      BY <1>4, <2>1 DEF Acquire, TypeOK
    <3> QED BY <2>1, <3>1, <3>2 DEF Streaming
  <2>5. TypeOK'
    <3>1. status' \in [Buffers -> {"available", "fillingUp", "transmitting"}]
      BY <1>4 DEF Acquire, TypeOK
    <3>2. streams' \in [Servers -> Buffers \cup {NoStream}]
      BY <1>4, <2>1 DEF Acquire, TypeOK
    <3> QED BY <1>4, <2>3, <3>1, <3>2 DEF Acquire, TypeOK
  <2>6. CallShape'
    <3>1. CASE op = "send"
      BY <1>4, <2>1, <2>4, <3>1 DEF Acquire, TypeOK, CallShape, Control, Servers
    <3>2. CASE op \in Control
      BY <1>4, <2>1, <2>4, <3>2 DEF Acquire, TypeOK, CallShape, Control, Servers
    <3> QED BY <1>4, <3>1, <3>2 DEF Acquire, TypeOK, CallShape
  <2> QED BY <2>5, <2>6
<1>5. ASSUME LoopPost PROVE Base'
  <2>1. next \in Streaming /\ next \in Servers BY <1>5 DEF LoopPost, CallShape
  <2>2. BufTypes' /\ Streaming' = Streaming \ {next} BY <1>5, <2>1, PostTyped DEF LoopPost
  <2>4. next + 1 \in 1 .. ServerCount + 1 BY <2>1 DEF Servers
  <2>5. TypeOK' BY <1>5, <2>1, <2>2, <2>4 DEF LoopPost, BufTypes, TypeOK
  <2>3. CallShape' BY <1>5, <2>1, <2>2 DEF LoopPost, TypeOK, CallShape, Control, Servers
  <2> QED BY <2>3, <2>5
<1>6. ASSUME WaitAll PROVE Base'
  BY <1>6 DEF WaitAll, bufVars, TypeOK, CallShape, Streaming, Control, Servers
<1>7. ASSUME NEW b \in Buffers, MpiComplete(b) PROVE Base'
  BY <1>7 DEF MpiComplete, callVars, TypeOK, CallShape, Streaming
<1>8. CASE UNCHANGED vars
  BY <1>8 DEF vars, bufVars, callVars, TypeOK, CallShape, Streaming
<1> QED BY <1>1, <1>2, <1>3, <1>4, <1>5, <1>6, <1>7, <1>8 DEF Next, Client

\* The buffers, streams and the call under way keep their types, whatever the
\* number of servers and buffers and the message sizes.
THEOREM TypeCorrect == Spec => []TypeOK
<1>1. Base => TypeOK BY DEF Base
<1> QED BY <1>1, InitBase, StepBase, PTL DEF Spec

-----------------------------------------------------------------------------

Owned == StreamsOwnBuffers /\ InFlightUntouched

\* No buffer is used at the start.
LEMMA InitOwned == Init => Owned
BY DEF Init, Owned, StreamsOwnBuffers, InFlightUntouched, Streaming, NoStream

\* sendBuffer gives the stream's buffer, and no other, to MPI.
LEMMA PostOwned ==
    ASSUME Base, Owned, NEW d \in Streaming, PostBuffer(d)
    PROVE  Owned'
<1> DEFINE b == streams[d]
<1>1. b \in Buffers /\ d \in Servers /\ Streaming' = Streaming \ {d}
  BY StreamsTyped, PostTyped DEF Base
<1>2. \A e \in Streaming' : streams'[e] = streams[e] /\ streams[e] # b
  BY <1>1 DEF PostBuffer, Owned, StreamsOwnBuffers, Base, TypeOK, Streaming
<1>3. \A c \in Buffers : status'[c] = IF c = b THEN "transmitting" ELSE status[c]
  BY <1>1 DEF PostBuffer, Base, TypeOK
<1>4. StreamsOwnBuffers'
  BY <1>1, <1>2, <1>3 DEF Owned, StreamsOwnBuffers
<1>5. InFlightUntouched'
  BY <1>1 DEF PostBuffer, Owned, InFlightUntouched, Base, TypeOK
<1> QED BY <1>4, <1>5 DEF Owned

\* Encoding into the buffer of an open stream touches no buffer MPI is reading.
LEMMA ReuseOwned ==
    ASSUME Base, Owned, NEW d \in Servers, NEW m \in Msgs, ReuseStream(d, m)
    PROVE  Owned'
<1>1. d \in Streaming /\ streams[d] \in Buffers
  BY StreamsTyped DEF Base, ReuseStream
<1>2. status[streams[d]] = "fillingUp"
  BY <1>1 DEF Owned, StreamsOwnBuffers
<1>3. StreamsOwnBuffers'
  BY DEF ReuseStream, Owned, StreamsOwnBuffers, Streaming
<1>4. InFlightUntouched'
  BY <1>1, <1>2 DEF ReuseStream, Encode, Owned, InFlightUntouched, Base, TypeOK
<1> QED BY <1>3, <1>4 DEF Owned

\* Ownership depends on the buffers and streams only.
LEMMA UnchangedOwned ==
    Owned /\ UNCHANGED <<status, inflight, content, snap, streams>> => Owned'
BY DEF Owned, StreamsOwnBuffers, InFlightUntouched, Streaming

\* Every step keeps streams and buffers paired, and the bytes MPI reads.
LEMMA StepOwned == Base /\ Owned /\ [Next]_vars => Owned'
<1> SUFFICES ASSUME Base, Owned, [Next]_vars PROVE Owned'
  OBVIOUS
<1>1. ASSUME NEW d \in Servers, NEW m \in Fields, Send(d, m) PROVE Owned'
  <2> m \in Msgs BY DEF Msgs
  <2> QED BY <1>1, ReuseOwned, PostOwned, UnchangedOwned
          DEF Send, ReplaceStream, FirstStream, bufVars
<1>2. ASSUME NEW tag \in Control, Begin(tag) PROVE Owned'
  BY <1>2, UnchangedOwned DEF Begin, bufVars
<1>3. ASSUME LoopSend PROVE Owned'
  <2> op \in Msgs /\ next \in Servers BY <1>3 DEF LoopSend, Msgs, Base, CallShape
  <2> QED BY <1>3, ReuseOwned, PostOwned, UnchangedOwned
          DEF LoopSend, ReplaceStream, FirstStream, bufVars
<1>4. ASSUME NEW b \in Buffers, Acquire(b) PROVE Owned'
  <2>1. want[1] \in Servers /\ want[1] \notin Streaming
    BY <1>4 DEF Acquire, Base, TypeOK, CallShape
  <2>2. b # NoStream BY PoolAssumption DEF Buffers, NoStream
  <2>3. \A d \in Servers : streams'[d] = IF d = want[1] THEN b ELSE streams[d]
    BY <1>4, <2>1 DEF Acquire, Base, TypeOK
  <2>4. Streaming' = Streaming \cup {want[1]}
    BY <2>1, <2>2, <2>3 DEF Streaming
  <2>5. status[b] # "fillingUp" /\ ~ inflight[b]
    BY <1>4 DEF Acquire, IsFree, Owned, InFlightUntouched
  <2>6. \A d \in Streaming : streams[d] # b /\ streams'[d] = streams[d] /\ d # want[1]
    BY <2>1, <2>3, <2>5 DEF Owned, StreamsOwnBuffers, Streaming
  <2>7. \A c \in Buffers : status'[c] = IF c = b THEN "fillingUp" ELSE status[c]
    BY <1>4 DEF Acquire, Base, TypeOK
  <2>8. StreamsOwnBuffers'
    BY <2>1, <2>3, <2>4, <2>6, <2>7 DEF Owned, StreamsOwnBuffers
  <2>9. InFlightUntouched'
    BY <1>4, <2>5, <2>7 DEF Acquire, Encode, Owned, InFlightUntouched, Base, TypeOK
  <2> QED BY <2>8, <2>9 DEF Owned
<1>5. ASSUME LoopPost PROVE Owned'
  BY <1>5, PostOwned DEF LoopPost, Base, CallShape
<1>6. ASSUME WaitAll PROVE Owned'
  BY <1>6, UnchangedOwned DEF WaitAll, bufVars
<1>7. ASSUME NEW b \in Buffers, MpiComplete(b) PROVE Owned'
  BY <1>7 DEF MpiComplete, Owned, StreamsOwnBuffers, InFlightUntouched, Streaming, Base, TypeOK
<1>8. CASE UNCHANGED vars
  BY <1>8, UnchangedOwned DEF vars, bufVars
<1> QED BY <1>1, <1>2, <1>3, <1>4, <1>5, <1>6, <1>7, <1>8 DEF Next, Client

(* Every step of the pool keeps buffers and streams paired, so every state has them so. *)
LEMMA OwnedInvariant == Spec => []Owned
<1>1. Init => Base /\ Owned BY InitBase, InitOwned
<1>2. Base /\ Owned /\ [Next]_vars => (Base /\ Owned)' BY StepBase, StepOwned
<1> QED BY <1>1, <1>2, PTL DEF Spec

\* Open streams and the buffers marked fillingUp pair up in every state.
THEOREM StreamsPaired == Spec => []StreamsOwnBuffers
<1>1. Owned => StreamsOwnBuffers BY DEF Owned
<1> QED BY <1>1, OwnedInvariant, PTL

\* MPI reads, until the request completes, what it was given.
THEOREM BuffersOwned == Spec => []InFlightUntouched
<1>1. Owned => InFlightUntouched BY DEF Owned
<1> QED BY <1>1, OwnedInvariant, PTL

-----------------------------------------------------------------------------

\* How the messages of one server move between call, stream and MPI.
LEMMA SeqFacts ==
    ASSUME NEW p \in Seq(Msgs), NEW c \in Seq(Msgs), NEW m \in Msgs
    PROVE  /\ Append(p \o (c \o <<>>), m) = p \o (Append(c, m) \o <<>>)
           /\ Append(p \o (c \o <<>>), m) = (p \o c) \o (<<>> \o <<m>>)
           /\ p \o (<<>> \o <<m>>) = p \o (Append(<<>>, m) \o <<>>)
           /\ p \o (c \o <<>>) = (p \o c) \o (<<>> \o <<>>)
<1>1. <<m>> \in Seq(Msgs) /\ <<>> \in Seq(Msgs) OBVIOUS
<1>2. p \o c \in Seq(Msgs) /\ Append(c, m) \in Seq(Msgs) BY ConcatProperties, AppendProperties
<1>3. c \o <<>> = c /\ <<>> \o <<m>> = <<m>> /\ Append(c, m) \o <<>> = Append(c, m)
  BY <1>1, <1>2, ConcatEmptySeq
<1>4. Append(c, m) = c \o <<m>> /\ Append(p \o c, m) = (p \o c) \o <<m>>
  BY <1>2, AppendIsConcat
<1>5. (p \o c) \o <<m>> = p \o (c \o <<m>>) BY <1>1, ConcatAssociative
<1>6. Append(<<>>, m) \o <<>> = <<>> \o <<m>> BY <1>1, AppendIsConcat, ConcatEmptySeq
<1>7. (p \o c) \o (<<>> \o <<>>) = p \o c BY <1>1, <1>2, ConcatEmptySeq
<1> QED BY <1>3, <1>4, <1>5, <1>6, <1>7

\* Nothing was sent at the start.
LEMMA InitFifo == Init => FifoPerServer
<1>1. <<>> = <<>> \o (<<>> \o <<>>) BY EmptySeq, ConcatEmptySeq
<1> QED BY <1>1 DEF Init, FifoPerServer, Open, Waiting, Streaming, NoStream

\* A server whose stream, histories and waiting message stay is not affected.
LEMMA OtherServer ==
    ASSUME FifoPerServer, NEW d \in Servers,
           accepted'[d] = accepted[d], posted'[d] = posted[d],
           Open(d)' = Open(d), Waiting(d)' = Waiting(d)
    PROVE  accepted'[d] = posted'[d] \o (Open(d)' \o Waiting(d)')
BY DEF FifoPerServer

\* What an open stream holds is a sequence of messages.
LEMMA OpenTyped ==
    ASSUME Base, NEW d \in Servers
    PROVE  Open(d) \in Seq(Msgs) /\ posted[d] \in Seq(Msgs)
BY StreamsTyped DEF Base, TypeOK, Open

\* bufferedSend appends the message to what d is owed, whichever way it takes.
LEMMA SendFifo ==
    ASSUME Base, Owned, FifoPerServer, NEW d \in Servers, NEW m \in Msgs,
           phase = "encode", Accept(d, m),
           \/ ReuseStream(d, m) /\ phase' \in {"encode", "post"}
           \/ ReplaceStream(d, m)
           \/ FirstStream(d, m)
    PROVE  FifoPerServer'
<1> DEFINE p == posted[d]
<1>1. /\ accepted'[d] = Append(accepted[d], m)
      /\ \A e \in Servers : e # d => accepted'[e] = accepted[e]
  BY DEF Accept, Base, TypeOK
<1>2. \A e \in Servers : Waiting(e) = <<>> BY DEF Waiting
<1>3. accepted[d] = p \o (Open(d) \o <<>>) BY <1>2 DEF FifoPerServer
<1>4. Open(d) \in Seq(Msgs) /\ p \in Seq(Msgs) BY OpenTyped
<1>5. CASE ReuseStream(d, m) /\ phase' \in {"encode", "post"}
  <2>1. d \in Streaming /\ streams[d] \in Buffers BY <1>5, StreamsTyped DEF ReuseStream, Base
  <2>2. \A e \in Servers : Waiting(e)' = <<>> BY <1>5 DEF Waiting
  <2>3. Open(d)' = Append(Open(d), m) /\ posted' = posted
    BY <1>5, <2>1 DEF ReuseStream, Encode, Open, Base, TypeOK, Streaming
  <2>4. \A e \in Servers : e # d => Open(e)' = Open(e)
    BY <1>5, <2>1 DEF ReuseStream, Encode, Open, Base, TypeOK, Streaming, Owned, StreamsOwnBuffers
  <2>5. accepted'[d] = posted'[d] \o (Open(d)' \o Waiting(d)')
    <3>1. Append(p \o (Open(d) \o <<>>), m) = p \o (Append(Open(d), m) \o <<>>)
      BY <1>4, SeqFacts
    <3> QED BY <1>1, <1>3, <2>2, <2>3, <3>1, Zenon
  <2> QED BY <1>1, <1>2, <2>2, <2>3, <2>4, <2>5 DEF FifoPerServer
<1>6. CASE ReplaceStream(d, m)
  <2>1. d \in Streaming /\ streams[d] \in Buffers BY <1>6, StreamsTyped DEF ReplaceStream, Base
  <2>2. Streaming' = Streaming \ {d} BY <1>6, <2>1, PostTyped DEF ReplaceStream, Base
  <2>3. \A e \in Servers : Waiting(e)' = IF e = d THEN <<m>> ELSE <<>>
    BY <1>6 DEF ReplaceStream, AskBuffer, Waiting
  <2>4. Open(d)' = <<>> /\ posted'[d] = p \o Open(d)
    BY <1>6, <2>1, <2>2 DEF ReplaceStream, PostBuffer, Open, Base, TypeOK
  <2>5. \A e \in Servers : e # d => Open(e)' = Open(e) /\ posted'[e] = posted[e]
    BY <1>6, <2>1, <2>2 DEF ReplaceStream, PostBuffer, Open, Base, TypeOK
  <2>6. accepted'[d] = posted'[d] \o (Open(d)' \o Waiting(d)')
    <3>1. Append(p \o (Open(d) \o <<>>), m) = (p \o Open(d)) \o (<<>> \o <<m>>)
      BY <1>4, SeqFacts
    <3> QED BY <1>1, <1>3, <2>3, <2>4, <3>1, Zenon
  <2> QED BY <1>1, <1>2, <2>3, <2>5, <2>6 DEF FifoPerServer
<1>7. CASE FirstStream(d, m)
  <2>1. Open(d) = <<>> /\ \A e \in Servers : Open(e)' = Open(e)
    BY <1>7 DEF FirstStream, Open, Streaming, bufVars
  <2>2. posted' = posted BY <1>7 DEF FirstStream
  <2>3. \A e \in Servers : Waiting(e)' = IF e = d THEN <<m>> ELSE <<>>
    BY <1>7 DEF FirstStream, AskBuffer, Waiting
  <2>4. p \o <<>> = p BY <1>4, ConcatEmptySeq
  <2>5. accepted'[d] = posted'[d] \o (Open(d)' \o Waiting(d)')
    <3>1. Append(p \o (Open(d) \o <<>>), m) = (p \o Open(d)) \o (<<>> \o <<m>>)
      BY <1>4, SeqFacts
    <3> QED BY <1>1, <1>3, <2>1, <2>2, <2>3, <2>4, <3>1, Zenon
  <2> QED BY <1>1, <1>2, <2>1, <2>2, <2>3, <2>5 DEF FifoPerServer
<1> QED BY <1>5, <1>6, <1>7

\* Every step keeps, for each server, what was sent in order.
LEMMA StepFifo == Base /\ Owned /\ FifoPerServer /\ [Next]_vars => FifoPerServer'
<1> SUFFICES ASSUME Base, Owned, FifoPerServer, [Next]_vars PROVE FifoPerServer'
  OBVIOUS
<1>1. ASSUME NEW d \in Servers, NEW m \in Fields, Send(d, m) PROVE FifoPerServer'
  BY <1>1, SendFifo DEF Send, Msgs, Base, CallShape
<1>2. ASSUME NEW tag \in Control, Begin(tag) PROVE FifoPerServer'
  BY <1>2 DEF Begin, bufVars, FifoPerServer, Open, Waiting, Streaming, Base, CallShape
<1>3. ASSUME LoopSend PROVE FifoPerServer'
  BY <1>3, SendFifo DEF LoopSend, Msgs, Base, CallShape
<1>4. ASSUME NEW b \in Buffers, Acquire(b) PROVE FifoPerServer'
  <2>0. PICK d \in Servers, m \in Msgs : want = <<d, m>>
    BY <1>4 DEF Acquire, Base, TypeOK
  <2>1. want[1] = d /\ want[2] = m /\ d \notin Streaming
    BY <1>4, <2>0 DEF Acquire, Base, CallShape
  <2>2. b # NoStream BY PoolAssumption DEF Buffers, NoStream
  <2>3. \A e \in Servers : streams'[e] = IF e = d THEN b ELSE streams[e]
    BY <1>4, <2>1 DEF Acquire, Base, TypeOK
  <2>4. Streaming' = Streaming \cup {d}
    BY <2>1, <2>2, <2>3 DEF Streaming
  <2>5. \A e \in Streaming : streams[e] # b /\ streams[e] \in Buffers
    BY <1>4, StreamsTyped DEF Acquire, IsFree, Owned, StreamsOwnBuffers, Base
  <2>6. \A c \in Buffers : content'[c] = IF c = b THEN Append(<<>>, m) ELSE content[c]
    BY <1>4, <2>1 DEF Acquire, Encode, Base, TypeOK
  <2>7. Open(d)' = Append(<<>>, m)
    <3>1. d \in Streaming' /\ streams'[d] = b BY <2>3, <2>4
    <3> QED BY <2>6, <3>1, Zenon DEF Open
  <2>8. \A e \in Servers : e # d => Open(e)' = Open(e)
    BY <2>3, <2>4, <2>5, <2>6 DEF Open
  <2>9. \A e \in Servers : Waiting(e)' = <<>> BY <1>4 DEF Acquire, Waiting
  <2>10. Open(d) = <<>> /\ Waiting(d) = <<m>> /\ \A e \in Servers : e # d => Waiting(e) = <<>>
    BY <1>4, <2>1 DEF Acquire, Open, Waiting
  <2>11. posted' = posted /\ accepted' = accepted BY <1>4 DEF Acquire
  <2>12. posted[d] \in Seq(Msgs) BY <2>1, OpenTyped
  <2>13. accepted'[d] = posted'[d] \o (Open(d)' \o Waiting(d)')
    <3>1. posted[d] \o (<<>> \o <<m>>) = posted[d] \o (Append(<<>>, m) \o <<>>)
      BY <2>12, SeqFacts, EmptySeq
    <3>2. accepted[d] = posted[d] \o (<<>> \o <<m>>)
      BY <2>10 DEF FifoPerServer
    <3> QED BY <2>7, <2>9, <2>11, <3>1, <3>2, Zenon
  <2> QED BY <2>8, <2>9, <2>10, <2>11, <2>13 DEF FifoPerServer
<1>5. ASSUME LoopPost PROVE FifoPerServer'
  <2>1. PICK d \in Streaming : d = next /\ d \in Servers
    BY <1>5 DEF LoopPost, Base, CallShape
  <2>2. Streaming' = Streaming \ {d} /\ streams[d] \in Buffers
    BY <1>5, <2>1, PostTyped, StreamsTyped DEF LoopPost, Base
  <2>3. Open(d)' = <<>> /\ posted'[d] = posted[d] \o Open(d)
    BY <1>5, <2>1, <2>2 DEF LoopPost, PostBuffer, Open, Base, TypeOK
  <2>4. \A e \in Servers : e # d => Open(e)' = Open(e) /\ posted'[e] = posted[e]
    BY <1>5, <2>1, <2>2 DEF LoopPost, PostBuffer, Open, Base, TypeOK
  <2>5. \A e \in Servers : Waiting(e) = <<>> /\ Waiting(e)' = <<>>
    BY <1>5 DEF LoopPost, Waiting
  <2>6. accepted' = accepted BY <1>5 DEF LoopPost
  <2>7. Open(d) \in Seq(Msgs) /\ posted[d] \in Seq(Msgs) BY <2>1, OpenTyped
  <2>8. accepted'[d] = posted'[d] \o (Open(d)' \o Waiting(d)')
    <3>1. "Close" \in Msgs BY DEF Msgs, Control
    <3>2. posted[d] \o (Open(d) \o <<>>) = (posted[d] \o Open(d)) \o (<<>> \o <<>>)
      BY <2>7, <3>1, SeqFacts
    <3>3. accepted[d] = posted[d] \o (Open(d) \o <<>>)
      BY <2>1, <2>5 DEF FifoPerServer
    <3> QED BY <2>1, <2>3, <2>5, <2>6, <3>2, <3>3, Zenon
  <2> QED BY <2>1, <2>4, <2>5, <2>6, <2>8 DEF FifoPerServer
<1>6. ASSUME WaitAll PROVE FifoPerServer'
  BY <1>6 DEF WaitAll, bufVars, FifoPerServer, Open, Waiting, Streaming
<1>7. ASSUME NEW b \in Buffers, MpiComplete(b) PROVE FifoPerServer'
  BY <1>7 DEF MpiComplete, callVars, FifoPerServer, Open, Waiting, Streaming
<1>8. CASE UNCHANGED vars
  BY <1>8 DEF vars, bufVars, callVars, FifoPerServer, Open, Waiting, Streaming
<1> QED BY <1>1, <1>2, <1>3, <1>4, <1>5, <1>6, <1>7, <1>8 DEF Next, Client

Inv == Base /\ Owned /\ FifoPerServer

\* The inductive invariant: types, shape of the call, ownership and order.
LEMMA Invariance == Spec => []Inv
<1>1. Init => Inv BY InitBase, InitOwned, InitFifo DEF Inv
<1>2. Inv /\ [Next]_vars => Inv' BY StepBase, StepOwned, StepFifo DEF Inv
<1> QED BY <1>1, <1>2, PTL DEF Spec

\* What MPI was given for a server plus what its stream holds is what was sent.
THEOREM FifoDelivery == Spec => []FifoPerServer
<1>1. Inv => FifoPerServer BY DEF Inv
<1> QED BY <1>1, Invariance, PTL

-----------------------------------------------------------------------------

\* While createNewStream searches, the streams of the other servers hold fewer
\* buffers than the pool has.
LEMMA Pigeonhole ==
    ASSUME Base, Owned, phase \in {"acquire", "thrown"}
    PROVE  /\ Cardinality(Streaming) < PoolSize
           /\ \E b \in Buffers : status[b] # "fillingUp"
<1> DEFINE F == {streams[d] : d \in Streaming}
           f == [d \in Streaming |-> streams[d]]
<1>1. want[1] \in Servers /\ Streaming \subseteq Servers \ {want[1]}
  BY DEF Base, TypeOK, CallShape, Streaming
<1>2. IsFiniteSet(Servers) /\ Cardinality(Servers) = ServerCount
  BY PoolAssumption, FS_Interval DEF Servers
<1>3. IsFiniteSet(Servers \ {want[1]}) /\ Cardinality(Servers \ {want[1]}) = ServerCount - 1
  BY <1>1, <1>2, FS_RemoveElement
<1>4. IsFiniteSet(Streaming) /\ Cardinality(Streaming) <= ServerCount - 1
  BY <1>1, <1>3, FS_Subset
<1>5. Cardinality(Streaming) \in Nat BY <1>4, FS_CardinalityType
<1>6. Cardinality(Streaming) < PoolSize BY <1>4, <1>5, PoolAssumption
<1>7. IsFiniteSet(Buffers) /\ Cardinality(Buffers) = PoolSize
  BY PoolAssumption, FS_Interval DEF Buffers
<1>8. f \in Surjection(Streaming, F) BY DEF Surjection
<1>9. IsFiniteSet(F) /\ Cardinality(F) <= Cardinality(Streaming)
  BY <1>4, <1>8, FS_Surjection
<1>10. F # Buffers BY <1>5, <1>6, <1>7, <1>9, PoolAssumption
<1>11. F \subseteq Buffers BY StreamsTyped DEF Base
<1>12. PICK b \in Buffers : b \notin F BY <1>10, <1>11
<1>13. status[b] # "fillingUp" BY <1>12 DEF Owned, StreamsOwnBuffers
<1> QED BY <1>6, <1>13

NotThrown == phase # "thrown"

\* The check of createNewStream never fires.
LEMMA StepNotThrown == Inv /\ NotThrown /\ [Next]_vars => NotThrown'
<1> SUFFICES ASSUME Inv, NotThrown, Next, phase' = "thrown" PROVE FALSE
  BY DEF NotThrown, vars, callVars
<1>1. PICK d \in Servers, m \in Msgs : ReplaceStream(d, m) \/ FirstStream(d, m)
  <2>1. CASE \E d \in Servers, m \in Fields : Send(d, m)
    BY <2>1 DEF Send, NotThrown, Msgs
  <2>2. CASE LoopSend
    BY <2>2 DEF LoopSend, Inv, Base, CallShape, Msgs
  <2> QED BY <2>1, <2>2, PoolAssumption DEF Next, Client, Begin, Acquire, LoopPost, WaitAll, MpiComplete,
             callVars, NotThrown
<1>2. Streaming' = IF ReplaceStream(d, m) THEN Streaming \ {d} ELSE Streaming
  BY <1>1, PostTyped DEF ReplaceStream, FirstStream, Inv, Base, Streaming
<1>3. PoolSize < Cardinality(Streaming')
  BY <1>1, <1>2 DEF ReplaceStream, FirstStream, AskBuffer
<1>4. IsFiniteSet(Servers) /\ Cardinality(Servers) = ServerCount
  BY PoolAssumption, FS_Interval DEF Servers
<1>5. Streaming' \in SUBSET Servers BY DEF Streaming
<1>6. Cardinality(Streaming') \in Nat /\ Cardinality(Streaming') <= ServerCount
  BY <1>4, <1>5, FS_Subset, FS_CardinalityType
<1> QED BY <1>3, <1>6, PoolAssumption

\* The search for a buffer is never refused and never hopeless.
THEOREM BufferFound == Spec => []BufferObtainable
<1>1. Init => NotThrown BY DEF Init, NotThrown
<1>2. Inv /\ NotThrown => BufferObtainable
  BY Pigeonhole DEF Inv, NotThrown, BufferObtainable
<1> QED BY <1>1, <1>2, Invariance, StepNotThrown, PTL DEF Spec

-----------------------------------------------------------------------------

\* Every message alone fits a buffer and its header fits the margin.
MessagesFit ==
    \A m \in Msgs : Size[m] + Header[m] < BufSize /\ Header[m] <= Margin

FillBound ==
    /\ \A b \in Buffers : cap[b] = BufSize
    /\ \A b \in Buffers : status[b] # "available" => fill[b] < BufSize

\* If every message alone fits a buffer, no open stream grows its buffer.
LEMMA StepFill == MessagesFit /\ Inv /\ FillBound /\ [Next]_vars => FillBound'
<1> SUFFICES ASSUME MessagesFit, Inv, FillBound, [Next]_vars PROVE FillBound'
  OBVIOUS
<1> USE SizeAssumption
<1>1. ASSUME NEW d \in Servers, NEW m \in Msgs, ReuseStream(d, m) PROVE FillBound'
  <2>1. streams[d] \in Buffers /\ fill[streams[d]] \in Nat
    BY <1>1, StreamsTyped DEF ReuseStream, Inv, Base
  <2>2. fill[streams[d]] + Size[m] + Header[m] < BufSize
    BY <1>1, <2>1 DEF ReuseStream, CanFit, MessagesFit, FillBound
  <2> QED BY <1>1, <2>1, <2>2 DEF ReuseStream, Encode, FillBound, Inv, Base, TypeOK
<1>2. ASSUME NEW d \in Streaming, PostBuffer(d) PROVE FillBound'
  <2>1. streams[d] \in Buffers /\ status[streams[d]] = "fillingUp"
    BY StreamsTyped DEF Inv, Base, Owned, StreamsOwnBuffers
  <2> QED BY <1>2, <2>1 DEF PostBuffer, FillBound, Inv, Base, TypeOK
<1>3. ASSUME UNCHANGED <<status, cap, fill>> PROVE FillBound'
  BY <1>3 DEF FillBound
<1>4. ASSUME NEW d \in Servers, NEW m \in Fields, Send(d, m) PROVE FillBound'
  BY <1>1, <1>2, <1>3, <1>4 DEF Send, ReplaceStream, FirstStream, bufVars, Msgs
<1>5. ASSUME LoopSend PROVE FillBound'
  <2> op \in Msgs /\ next \in Servers BY <1>5 DEF LoopSend, Msgs, Inv, Base, CallShape
  <2> QED BY <1>1, <1>2, <1>3, <1>5 DEF LoopSend, ReplaceStream, FirstStream, bufVars
<1>6. ASSUME NEW b \in Buffers, Acquire(b) PROVE FillBound'
  <2>1. want[2] \in Msgs BY <1>6 DEF Acquire, Inv, Base, TypeOK
  <2>2. 0 + Size[want[2]] + Header[want[2]] < BufSize BY <2>1 DEF MessagesFit
  <2> QED BY <1>6, <2>1, <2>2 DEF Acquire, Encode, FillBound, Inv, Base, TypeOK
<1>7. ASSUME LoopPost PROVE FillBound'
  BY <1>2, <1>7 DEF LoopPost, Inv, Base, CallShape
<1> QED BY <1>3, <1>4, <1>5, <1>6, <1>7
        DEF Next, Client, Begin, WaitAll, MpiComplete, bufVars, vars

\* Under that condition no server ever fails the size assertion of
\* blockingReceive.
THEOREM ServerAssertHolds == MessagesFit => (Spec => []ReceiveFits)
<1> SUFFICES ASSUME MessagesFit PROVE Spec => []ReceiveFits
  OBVIOUS
<1>1. Init => FillBound BY SizeAssumption DEF Init, FillBound
<1>2. Inv /\ FillBound /\ [Next]_vars => FillBound' BY StepFill
<1>3. Inv /\ FillBound => ReceiveFits
  BY DEF Inv, Owned, InFlightUntouched, FillBound, ReceiveFits
<1> QED BY <1>1, <1>2, <1>3, Invariance, PTL DEF Spec

\* synchronize and closeConnections return with every message handed over and
\* every request complete.
THEOREM CallsFlush == Spec => ReturnsFlushed
<1>1. Inv /\ [Next]_vars => [(op \in Control /\ op' = "idle") => Flushed']_vars
  <2> SUFFICES ASSUME Inv, Next, op \in Control, op' = "idle" PROVE Flushed'
    OBVIOUS
  <2>1. WaitAll
    BY DEF Next, Client, Send, Begin, LoopSend, Acquire, LoopPost, MpiComplete, callVars, Control
  <2>2. Streaming = {}
    BY <2>1, PoolAssumption DEF WaitAll, Inv, Base, CallShape, Streaming, Servers
  <2>3. \A d \in Servers : Open(d) = <<>> /\ Waiting(d) = <<>>
    BY <2>1, <2>2 DEF WaitAll, Open, Waiting
  <2>4. \A d \in Servers : posted[d] \in Seq(Msgs) /\ posted[d] \o (<<>> \o <<>>) = posted[d]
    BY EmptySeq, ConcatEmptySeq DEF Inv, Base, TypeOK
  <2>5. \A d \in Servers : posted[d] = accepted[d]
    BY <2>3, <2>4 DEF Inv, FifoPerServer
  <2>6. \A b \in Buffers : ~ inflight[b]
    BY <2>1 DEF WaitAll, IsFree, Inv, Owned, InFlightUntouched
  <2> QED BY <2>1, <2>2, <2>5, <2>6 DEF WaitAll, bufVars, Flushed, Streaming
<1> QED BY <1>1, Invariance, PTL DEF Spec, ReturnsFlushed
=============================================================================
