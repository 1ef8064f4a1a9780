# Verification of the multio I/O server

multio lets the processes of a weather or ocean model (the clients) hand their
output to dedicated I/O server processes, which put the parts of every field
together, post-process, encode and store them. This directory holds TLA+ models
of the parts of multio that carry its core logic, TLC configurations that check
them, and proofs checked by TLAPS. Paths below are relative to `src/multio/` in
the repository.

## 1. Inventory

| Component | State it keeps | Operations | Hard behaviour | What makes it correct |
|---|---|---|---|---|
| StreamPool, MpiStream (`transport/`) | buffers with status and MPI request, one open stream per server | getStream, sendBuffer, acquireAvailableBuffer, waitAll | buffers shared with MPI; spin loops; full pool | no write to a buffer MPI reads; nothing lost or reordered; loops end |
| MpiTransport (`transport/`) | pool, queue of received buffers, decoded pack | openConnections, bufferedSend, synchronize, closeConnections, listen, receive, abort | two server threads on one pool; barrier across all processes | FIFO per client; flush before return; no global wait |
| Listener (`server/`) | connections, opened count, sync count, message queue | start (receive loop), listen | three threads; end of service decided by counting | stops neither early nor never; a synchronization is one round |
| Dispatcher (`server/`) | plans | dispatch, handle | blocks in the barrier while its queue fills | handles everything queued before it ends |
| MultioClient, MultioServer, TransportRegistry | plans, transports | open, dispatch, synchronize, close | call order; failure policies | |
| Transport action (`action/transport/`) | destinations, counters | executeImpl, chooseServer | every client decides alone | all parts of a field meet on one server |
| Aggregate, AggregationCatalogue (`action/aggregate/`) | partial global fields, booked parts, flush sets | handleField, handleFlush | parts, domains and flushes of clients interleave | fields whole and once, flush behind its fields |
| Mappings, DomainMap (`domain/`) | domain parts per client | add, get, isComplete | completeness is a sum of sizes | complete exactly when everyone is there |
| Domain, Mask, MaskCompression (`domain/`), mask action | index maps, partial and global masks | toBitmask, add, encode/decode, createMasked | halos overlap; clients a step ahead; bit widths | a field gets the mask of its own step, cell by cell as the owner said |
| SharedMetadata, SharedPayload, Message (`message/`), plans and actions (`action/`) | reference counts, acquire flags, cached field ids | acquire, modify, execute of each action | one object under several plans, actions and handles | sharing cannot be seen |
| C API (`api/c/`) | metadata handles | new, copy, set, delete, write, flush, notify | memory of the caller; handles reused after a write | a write is a snapshot |
| Failure handling (`util/FailureHandling.h`, `action/Action.cc`, `action/Plan.cc`) | on-error policy | withFailureHandling | retry of a consumed message; interrupt of queues | every failure reaches a handler once |
| Tracer, RingBuffer (`util/`) | lock-free rings, event chunks | push, pop, recordEvent, flushCurrentChunk | many producers, chunk hand-over | no event lost, no chunk leaked |
| Statistics (`action/statistics-mtg2`, `action/statistics`) | windows and accumulators, restart directories, link "latest" | executeImpl, TryDumpRestart, load | crash in the middle of a dump; several masters; restart in the middle of a window | a restart is invisible in the output |
| Sinks and triggers (`sink/`) | event counts | trigger, write, flush | | |
| TcpTransport, ThreadTransport | connections, queues | open, send, receive | | |
| Encoders (multiom, mars2grib, mars2mars, datamod), configuration, tools, FDB5/Maestro/ifsio adapters | tables, YAML, handles | | | data and I/O, see section 7 |

How they interact: a client calls the API; MultioClient runs its plans, whose
last action is the transport action, which chooses a server and gives the
message to MpiTransport. On a server a *listen* thread receives buffers, the
*main* thread decodes them and accounts for connections and synchronizations,
and a *dispatch* thread runs the plans, the first action of which is usually
aggregate. `PROJECT.json` lists the hazards of this code at their lines.

## 2. Modules

| Module | Models | Composes |
|---|---|---|
| `StreamPool` | client side of MpiTransport: pool, streams, flush loops | |
| `StreamPoolProofs` | theorems about it | `StreamPool` |
| `IOService` | abstract: what the I/O server promises | |
| `IOServer` | clients, MPI channels and the three server threads | refines `IOService` |
| `IOServerProofs` | theorems about it | `IOServer` |
| `Aggregate` | aggregate action with its catalogue and the domain maps | |
| `Masks` | Mask messages, `domain::Mask`, `MaskCompression`, Structured domains, mask action | extends `Aggregate` |
| `AggregateProofs` | theorems about both | `Masks` |
| `Pipeline` | abstract: plans and actions in which every message is a value of its own | |
| `SharedPipeline` | C API handles, plans and actions on shared metadata and payloads | refines `Pipeline` |
| `SharedPipelineProofs` | theorems about it | `SharedPipeline` |
| `Statistics` | statistics-mtg2 on several servers, restart directories, crashes and restarts of the job | |
| `StatisticsProofs` | theorems about it | `Statistics` |
| `Routing` | choice of the server in the transport action | |
| `RoutingProofs` | theorems about it | `Routing` |
| `RingBuffer` | the lock-free ring of `util/RingBuffer.h` | |
| `RingBufferProofs` | theorems about it | `RingBuffer` |
| `Tracer` | event tracer: recording threads, chunks, writer thread | takes its queues as the FIFO `RingBuffer` is shown to be |
| `TracerProofs` | theorems about it | `Tracer` |
| `MC*` | values of the constants for TLC | |

Operators marked *mutant* in the modules are seeded defects, each a plausible
slip in the code it stands for; replacing the named definition by it must break
the property named in `PROJECT.json`. They are used by no specification.

### StreamPool

One client thread; `op` and `phase` say in which call and where in it. `status`,
`inflight`, `cap`, `content`, `fill` describe the buffers (`MpiBuffer` and the
position of the stream on it), `streams` is `streams_`. A call is cut into steps
exactly where it waits: `Send` and `LoopSend` run `getStream` up to the point
where a buffer is needed, `Acquire` is the moment `acquireAvailableBuffer`
finds one, `WaitAll` the moment `waitAll` ends. `MpiComplete` is the progress of
MPI. `shallFitMessage` draws a random number; where the draw can decide either
way both `ReuseStream` and `ReplaceStream` are enabled. Sizes are real numbers of
bytes, because the question whether the receiver's assertion holds depends on
them: an encoding longer than the buffer grows it, as `ResizableMemoryStream`
does. The search for a buffer
looks at one after the other while MPI goes on, and its weak exchange may fail
spuriously, so `Acquire` may find any free buffer, not only the first.

### IOService and IOServer

`IOService` has no queues and no threads: messages are sent, dispatched in order,
a synchronization happens only when everything sent has been dispatched, a
server stops only when all clients have closed and nothing is left.

`IOServer` is the code: each client runs open, send, up to `Rounds` synchronizations
(all clients the same number, the call being collective), close; a server has the listen thread (`Listen`), the main thread (`Decode`,
`Handle` with one operator per message tag) and the dispatch thread (`Dispatch`,
`DispatchEnd`). The stream of a client is a sequence of messages without sizes:
`StreamPool` is about those. `MaxSent` bounds the fields of each client to each
server. `Eager` are the clients whose sends MPI
completes at once (small messages); those of the others complete only when the
receiver has taken them (large ones). The code must work with both. `Barrier` is `comm().barrier()` over
the parent communicator. The refinement maps `rounds` to the rounds the clients
have completed, `closed` to the clients that have begun to close and `stopped`
to the servers whose dispatch thread has ended.

`streamQueue_` has 1024 places and a server pool at most a few buffers, so the
pool is the bound that matters. Interrupts of the queues after an exception are
not modelled; `failed` records that one would have been thrown.

### Aggregate

`known` is the DomainMap of each domain, `catalogue`, `written` and `parts` the
catalogue entry of each field, `flushes` the set of clients counted for a flush.
A payload is abstracted to the set of parts copied into it. The environment is
what `IOServer` guarantees: each client's messages in the order it sent them
(domain, fields of a step, flush of the step), those of different clients in any
order. Flushes with domain "global", which `multio_synchronize` and
`multio_close_connections` send, pass straight through.

### Masks

A plan that aggregates and masks. `Masks` extends `Aggregate`: its steps are those
of the aggregation, the arrival of a Mask message (`AddMask`), and the mask
action behind a field that is complete (`MaskField`). `messages` and `bitmasks` are
the members of `domain::Mask`. A mask goes through all that the code does to it:
the client encodes its part with its halo (`EncodeMask` chooses run lengths or bits by
size), the server decodes it cell by cell, writes the inner cells at their
place in the global mask (`ToBitmask`), encodes that again and decodes it for
each field. Encoded sizes and bit widths are real, the bits themselves are the
elements of a sequence.

A *setup* is what the model and the plan choose. Parts of a mask are collected by the
field id of their message, which is all its metadata: masks are sent once before all
fields, as `multio-replay-nemo-capi` does, or one for each step, with the step in the
metadata (*dated*) or without (*undated*, all steps under one id). Each client sends the
mask of a step before its fields of that step and after its flush of the one before;
clients are not otherwise in step. Undated parts of two steps can therefore be counted
together: `overtaken` names the domains where a client was a whole mask ahead of another, and
the properties of masks are stated for the others. There the list of parts can also step
over the number that completes it; then there never is a mask, the mask action throws
and the dispatcher ends (`thrown`). `Maskable` is the two exceptions of the action, no mask
and a mask of another size; the second does not happen with `Structured` domains, which
assert that masks and fields have the global size (`Domain.cc:130`, `178`). With
`apply-bitmap: false` only fields with an offset look at the mask.

### Pipeline and SharedPipeline

`Pipeline` is what the user of the API and the author of a plan may assume:
handles, messages, what an aggregation keeps and what a sink wrote are values.
`SharedPipeline` is the code: `ref`, `flag` and `heap` are the pointer, the
`moveOrCopy_` flag and the objects of `SharedMetadata`, `buf` and `mem` those of
`SharedPayload`, `fid` the field id that the header caches. An *owner* is a
variable that holds pointers: a handle of the C API, the message of `dispatch`
(`Msg`), that of the plan at work (`Cur`), what the aggregation of a plan keeps, what
the debug sink keeps. `Modify` copies only if its holder has acquired the object and
is not the only one, and forgets the flag when it has copied. Each action
has an operator that says what it acquires, changes, passes on, drops or throws.
The memory of the caller is the buffer `Caller`, which the caller may write
whenever no call is under way. `V` maps pointers to what they point to.

A server receives fields, flushes and notifications from any of its clients in any
order. The metadata of a message from the wire is parsed from its field id, which the
header keeps (`Receive`, `Decoded`), so the copies that the plans get start with a cached id
and one metadata object. A plan that aggregates has an owner for each field under way
(`Entries`, the `AggregationCatalogue`), and parts of different fields come in between each
other. Flushes are counted by field id and source (`flushes`); one that comes twice or has no
domain throws, one for the domain "global" goes on at once. A flush without a domain
and one for "global" are the same value here, and either may happen to it.

Metadata is the parameter, the plan name a flush gets, and marks for what writing,
mapping and masking set; the field id is that content, the order of the keys in its text
is left out (see the hazards). A payload is a set of cells, each with where it came
from and what has changed it since. Encoders replace the message; that they are given a
format they know is assumed, and the coordinates that the encoder of ocean grids sends
down the chain before a field (`Encode.cc:244-249`) are left out. The domain of a field is
taken as known and complete, which is the subject of `Aggregate`. `ConfigsAssumption`: a plan
has at most one aggregation, on a server; others throw for every field. Flushes that arrive
at a server carry no client plan name, which no action modelled here reads.

### Statistics

One job: servers that each hold the windows of their keys, and the file system
they share. `clock` and `todo` drive a server through the fields of a step and its
flush, other servers being free to run ahead or lag. A flush of kind
"step-and-restart" is cut at every access to the file system: `BeginDump` (link
deleted), `MainDirectory`, `MakeKey`, `DumpKey`, `EndDump` (link made). A server that is no
master waits for the directory, or finds it at once; it may give up although the directory
has just come, since only the number of tries is looked at (`MainDirectoryMissing`). `opt` is the
plan, the same in all runs of the job: where each key lives, at which steps
it has a field, which servers are masters, the library and the window type.
A crash, or an exception, ends the whole job; memory is lost and the disk stays.
A job is started again from the checkpoint "latest" points to, from a named one
that all servers finished, or from the beginning. Times are steps; the period
updaters differ only in the length of `Unit`. Flushes at the end of a simulation and at the closing
of connections are handled as those of the default kind, and a restart directory is
named by date and time (`FlushKind`, `DirName`). What an operation accumulates is the set
of steps it has taken in.

### Routing

Each client has its own `destinations` and `counters`. `distType` and `program`
(which fields each client dispatches, in which order) are chosen at the start.
`ServerId` keeps the constructor's argument: the number of servers is given for
both parameters of `serverIdDenom`.

### RingBuffer and Tracer

`RingBuffer` has one action per atomic access of `push` and `pop`; a loop that
only repeats a failed exchange is an action that waits until the exchange
succeeds. `Wrap` stands for 2^32, and the ring may start with its counters
just before the wrap (`Starts`), a state a long-lived ring reaches. `pushed`,
`popped`, `seen` and `ticket` are history. Memory is sequentially consistent; the code
uses acquire and release on every access that orders others.

`Tracer` follows `recordEvent` and `flushCurrentChunk` from the load of
`currentChunkAndIndex_` (`RecordBegin`, `FlushBegin`) over the choice of the next
chunk (`Choose`) and the exchange (`Reserve` or `Miss`) to the hand-over of the
old chunk (`HandOver`) and the write of the event (`Write`). `current` is the
packed word as a pair; the shift that `flushCurrentChunk` applies before it puts
a chunk back is kept. The writer thread has one action per access to shared
state; `file` is the sequence of whole chunks it has written, empty slots included, as
`write` puts them there. `Destroy` and `StopWriter` are the destructor; how long lies
between them is left open.

## 3. Runs

| Run | Instance | Shows |
|---|---|---|
| `stream_pool` | 2 servers, 3 buffers of 12 bytes, messages of 3 and 6 bytes, 3 per server | buffers are never shared or written under MPI, order per server, receiver's assertion, every call returns and returns flushed |
| `stream_pool_oversize` | one message longer than a buffer | **violation**: the receiving server's assertion fails |
| `io_server` | 2 clients, 2 servers, pools 2 and 1, queue 1, at most 1 synchronization, one client with eager and one with rendezvous sends, one of them with two fields to a server | refinement of `IOService`, no deadlock, termination |
| `aggregate` | 3 clients, 2 domains with unequal parts and halos, 3 fields, 2 steps, 6 setups of masks | fields whole and once, flushes once and behind their fields, masks exact, each field with the mask of its step |
| `sharing` | 2 plans, 2 configurations of their actions on a client and 3 on a server, 2 handles, 2 calls, 5 messages from 2 clients | refinement of `Pipeline`; cached field ids are right; parts of a field meet |
| `statistics` | 2 servers, 2 keys, 6 steps, 2 checkpoints, 2 restarts, 9 plans | windows whole and all emitted through crashes, "latest" complete on one server, restarts accepted, files written once |
| `statistics_race` | the same with windows of 3 steps and two masters | **violation**: a resumed job emits a window with steps missing |
| `routing` | 3 clients, 2 servers, all distribution types, with and without a client that lacks one field | hashed_to_single always, even for equal programs; a client never changes its mind; even is even |
| `routing_cyclic` | 2 clients, hashed_cyclic | **violation**: parts of a field go to different servers |
| `ring_buffer` | 2 producers, 2 consumers, 2 slots, counters modulo 8, 2 pushes each | FIFO, slots exclusive, counters in order across the wrap, everything popped |
| `tracer` | 2 threads, 2 chunks of 2 events, 4 events each; one of them may flush twice instead of sharing | no chunk leaks, no call spins for ever; a lone thread's events reach the file once and in order, a flush gets there |
| `tracer_completed` | 2 threads that record | **violation**: a chunk is handed over with a reserved slot unwritten |

`MCMasks` also has TLC evaluate `RoundTrip`: every mask of up to nine cells and
single runs of 255 to 257 cells come back from `MaskCompression` as they were, in
the shorter of the two encodings.

### Bounds

`MaxAccepted`, `MaxSent`, `Rounds`, `MaxStep`, `MaxCalls` and `MaxRestarts` bound what
clients and the job do. The pool of `stream_pool` has one buffer more than servers, so that a client
both reuses completed buffers and waits for them; two small messages fill a
buffer past half (the random choice) and a large one does not fit behind a small
one. In `io_server` the pools and queues are the smallest the constructor allows, which
is where waiting in a circle would show: a full message queue stops the main
thread, which stops the decoding, which keeps the only receive buffer, which
keeps the clients' sends pending. One client sends two fields to one server (`MCIOServer`), so
that its stream is used again or replaced while what went before is on its way, and those
of the other come in between. Without a
synchronization one client may have closed before another has opened, and the
server must still wait for it. In `aggregate` the parts have different sizes, two of
them reach into their neighbours, one column belongs to nobody and one domain to one
client only; the masks of two steps and of neighbours differ in every cell, so that a
wrong step or a halo shows. Dated masks come in three patterns; masks that are sent once, undated
masks and a plan that does not apply the bit map in one each. In `sharing` two handles and two calls let a handle be
copied, changed and written again while an action keeps the first message. Five messages are
both parts of two fields and one more; in one configuration of a server the two fields are
made one before they are aggregated. There are always addresses of objects and
buffers left, with seven of each. In
`statistics` a window spans both checkpoints or one, and two restarts let a resumed
run crash, dump over what the first left, and be resumed itself; one key is
sent every step, the other with gaps. `routing` repeats field ids, so that remembered destinations are
used, and its hash values collide modulo the servers. Four pushes on a ring of
two slots fill it and go round twice; counters that start at 7 of 8 wrap at once,
and fewer pushes than `Wrap` keep a stalled exchange from meeting its old value.
The tracer records more events than its chunks hold, so that chunks are reused,
and with two threads has the least number of chunks that lets it switch.

`sharing` uses symmetry of handles, contents and parts, which no configuration tells
apart; no liveness is checked there. Nowhere else is symmetry used.

### Deadlock

`stream_pool`, `sharing`, `statistics` and the tracer runs may stop, since their callers are done after
the bounded number of messages, calls, restarts or events; `aggregate` stops when an exception
has left the mask action and ended the dispatcher. All other runs check for deadlock.
`IOServer` ends in
`Finished`, which stutters, so a state from which nothing goes on although not
everyone is done would be reported.

### Fairness

`StreamPool`: a call under way goes on (its thread runs), and each pending
request completes, because MPI delivers to a server that keeps receiving. That
servers do keep receiving is the `Termination` of `io_server`. There it is enough that
some process or thread that can go on does: no step can be repeated without end, so
none can starve another, and a state in which all wait would be the only way to fail.
`RingBuffer`: every thread runs, and consumers ask again, as
the writer thread of the tracer does. `Tracer`: a call that has begun goes on,
and so does the writer until it is stopped; nobody has to record. No strong fairness is assumed.

## 4. Proofs

All proofs hold for every value of the constants that satisfies the module's
named assumptions.

`StreamPoolProofs` assumes `PoolAssumption` (as many buffers as servers, the
check of the MpiTransport constructor) and `SizeAssumption` (types). The
inductive invariant `Inv` has three parts:

- `Base`: types, and `CallShape`, where the call under way stands: which
  servers the flush loop has done, that the message waiting for a buffer has
  no open stream;
- `Owned`: streams and `fillingUp` buffers correspond one to one and a pending
  request implies `transmitting` and unchanged content;
- `FifoPerServer`.

None is inductive alone: that a posted buffer is not lost needs ownership, that
ownership survives `Acquire` needs that the destination has no stream, which is
in `CallShape`. From it: `TypeCorrect`, `StreamsPaired`, `BuffersOwned`, `FifoDelivery`;
`BufferFound` by a pigeonhole argument (streams other than the one asked for
hold at most `ServerCount - 1` buffers); `CallsFlush`, an action property, from
`CallShape` (all servers before `next` are flushed) and the guard of `WaitAll`;
`ServerAssertHolds` under `MessagesFit`: every header is below the margin and
every single message fits a buffer. `stream_pool_oversize` is what happens
without that hypothesis, so the code relies on a configuration nobody checks.

`AggregateProofs` assumes `ShapeAssumption` and `CoverAssumption`: the sizes of
the parts of a domain add up to its size, and of no smaller set of them. The
invariant relates every counter to what has really arrived: `written` and
`parts` of a field in the catalogue are the clients whose part arrived, a field
outside it has had none or all; the same for flushes; and a client announced its
domain before it sent anything for it. `CountsDecide` is the key lemma: if the
sizes add up and as many are booked as are known, exactly the members are
booked. `FieldsWhole`, `FieldsOnce`, `FlushOrdered`, `FlushesOnce` follow.

`MasksImplement` shows that `MaskSpec` implements the specification of `Aggregate`: the
mask action and `domain::Mask` never touch its state. Everything proved of the aggregation
thus holds of the composition, `MaskedWhole` being the part that masking needs.

`SharedPipelineProofs` proves the refinement `SharingUnseen` for every number of plans and
handles, every chain of actions and any allocator, from `PipelineAssumption`,
`OwnersAssumption` (owners and addresses are different things) and `NoneAssumption`.
The invariant is `Typed`, `Cached`, `CallTyped`, `Holding` (who holds a message in
which phase of a call) and `OwnBuffers`: the aggregation of a plan is the only holder of
the buffer it builds up, which is why `toGlobal` may write there without an
acquire. `SameMd` and `SameBuf` say that an owner sees no change; the lemmas
`ModifyAlone`, `ModifyPayloadAlone`, `NewMetadataAlone`, `NewBufferAlone` and `DropAlone` say who
does not, one lemma per action does the rest. `IdsFresh` comes from the same invariant.
`PartsAggregate` goes on from the refinement, with values in place of pointers, and from
`ConfigsAssumption`. `Handed` is what an action makes of the metadata of a field, `Route` the
metadata before and after each action of a chain, `IdOf` what it is at the aggregation;
`RouteFacts` shows that the recursive function exists (`SetInduction`, induction on sets in
place of an operator). The invariant `Meeting` says of every message that comes to a
server that it is a part that starts its route (`Arriving`), of the plan at work that it is
on its chain and its message on the route of every cell in it (`OnRoute`, `OnItsWay`), before the
aggregation or behind it, and of what is kept under an id that the plan sends each of its
cells there (`KeptWell`). Any number of fields may be under way. That a message behind the
aggregation, with the metadata of the first part and the cells of all, is still on
the route of each of them is the reason that `OnItsWay` speaks of cells.

`StatisticsProofs` assumes `StepAssumption`, `OptionsAssumption`, `DueAssumption` (a field
of step 0 is the initial condition) and `MarkAssumption`, and proves all five properties
of the statistics for any servers, masters, keys, steps, checkpoints, plans, crashes
and restarts. `RestartFilesImmutable` needs little: a server that is dumping a key made
its directory itself and nobody else dumps that key (`InHand`, `OwnKeys`). The others come
from the invariant `Sound` (`StatisticsSound`):

- `Timed`: where each server stands in its fields, flush or dump (`Paced`), what it has
  in memory for a key, and that a window there ends no earlier than the last field it
  took (`InMemory`); what any complete dump on disk may be (`OnDisk`);
- `Restartable`: what stands behind a dump under way, a dump that all servers
  finished, "latest", and the restart the present run reads (`DumpUnderWay`,
  `FinishedDumps`, `Linked`, `NamedSource`, `LatestSource`). `LatestHolds` is in it;
- `WholeWindows`: for the keys that `Carried` names, a window, in memory or on disk, has
  begun at a boundary of the key's own grid (`Lined`), holds every field since
  (`Filled`), and what lies before its start has been passed on (`Past`);
- `EmittedWhole` itself, and `OverSent`: after the last flush nothing is left in a window.

The parts need each other: that a restart is accepted (`RunsResume`) follows from `Linked`
or `FinishedDumps` and the times of a window that `OnDisk` keeps; a window
that goes on after a restart is whole because the dump was; a window that
starts afresh begins on the same grid because the first field does. `StatisticsWhole` says
that a statistic is one that a job which never stops would emit,
`StatisticsComplete` that none is missing at the end.

`RoutingProofs` assumes `RoutingAssumption` (at least one server, a hash of every hash
string, messages to one server and messages to all are different things) and proves
`RoutesStable`, `SpreadEvenly` and `PartsMeetOnServer` for any clients, servers, hash and
programs. The invariant says where a message may have gone (`SentToSettled`), that
`min_element` fills the servers in turn (`InTurn`: those below some server are one ahead
of the rest) and that the counters count the destinations (`CountersCount`). That is
enough for one client; that clients agree relates two of them at different places of
their programs. `Alike` says that one course of destinations and counters, by position,
describes all clients, and a client that is behind has a smaller part of the same map.

`IOServerProofs` assumes `PoolAssumption` only and proves all invariants of `IOServer` and
the refinement of `IOService`, for any clients, servers, pools, queue sizes, rounds and
messages. What a client says to a server is a conversation: open, fields with their
numbers, synchronization, close. `Says` is one word of it, `Path` what a sequence of
messages adds, `Line` what pack, received buffers, wire and stream add together, in the
order in which the server meets them. The invariant `Inv` is `Typed`, `Sources` (what a
client sends is its own), `Calls` (where its call stands) and, for some `main` that says
how far each main thread has followed each client, `Talk` (the line leads from there to
where the client is) and `Serving`: connections, counts, queue and dispatcher are those
of a listener that has heard the conversations up to `main`. Every thread prolongs a
line, shortens it or moves a buffer along it. `Drained` is the key to the barrier and to the
end: a client that has said synchronize or close says nothing more, so when all have,
nothing is under way. `main` ranges over functions into an infinite set, so TLC cannot
evaluate `Inv` as it stands; its consequences are what the run `io_server` checks.
`SetInduction` gives induction over the natural numbers on sets, from the library's
`WFMin`, which has no operator as a parameter; with it `SumExists` and `FlatExists`
show that the recursive functions in `SumFunction` and `FlattenSeq` exist, and
`NumbersPaths` what flattening a sequence of buffers gives.

`RingBufferProofs` assumes `RingAssumption` and proves the three invariants of the ring for
any threads, slots, pushes, width and start of the counters. The invariant
relates the counters to four numbers that never wrap: slots reserved (`Len(pushed)`),
published, taken (`Len(popped)`) and given back. Each counter is its number modulo
`Wrap` (`Counting`), the numbers are in order and at most `Entries` apart, and each
thread between two accesses is at a number of its own (`Producing`, `Consuming`,
`Apart`). `AtSame` and `AtMinus` say that counters less than a turn apart compare and
subtract like the numbers, `PlaceSame` that numbers less than `Entries` apart have
different slots. The theorems have the hypothesis `[]NotLapped`: no thread sleeps
between loading a head and its exchange for so long that the counter comes round to
the same value. The code does not exclude that, it takes 2^32 pushes meanwhile;
`FifoWithinTurn` shows that fewer than `Wrap` pushes in all suffice. TLC checked
`Inv` and `NotLapped` on the configuration of `ring_buffer`.

`TracerProofs` assumes `TracerAssumption`. `ChunksStay` (`ChunksConserved`) has the hypothesis
`~ Overlap`, the use that server and client make of the tracer. The invariant adds to it what a thread
has taken at which place of its call (`Taken`) and `Solo`: whoever has flushed is the only
thread that has done anything, so the word it loaded is still there at its exchange and
the branch of `flushCurrentChunk` that puts a shifted number back is never reached.
`CountAppend`, `CountTail` and `CountHolders` say how a push, a pop and a thread change the
number of places of a chunk. With `Overlap` the theorem is false, see section 5.

`EventsInOrder` (`LoggedInOrder`) has no such hypothesis: as long as only one thread has
traced, it has not been overlapped, and once there is a second the property says nothing
of the first. What has to be ruled out is that a chunk comes round while it holds
something. The invariant `Tidy` is about a thread that is `Alone`: where its call stands and
what it has counted (`Calls`), that the chunks in the write queue and in the hands of
the writer are different ones (`Apart`), that the slots it has not reached in its chunk are blank
(`Room`), and so are all chunks that are free or in its hand (`Clean`). The *log*, file and queued
chunks and the one in use in a row, is then left alone by every step but two: a
write prolongs it by one event (`LogWrite`, `InOrderWrite`), a switch by a blank chunk
(`LogSwitch`, `InOrderBlank`); a pop, a write to the file, a hand-over and the destructor only move
chunks along it (`LogPop`, `LogHandOver`, `LogDestroy`). `Apart` and
`Clean` need the conservation of chunks, so both invariants are carried together, for
as long as some thread is alone (`SoFar`).

### Only model-checked

`MaskExact` and `FieldsMasked` of `Masks`: they are about what folds over sequences, run
lengths, powers of two and the division of a cell's number into coordinates compute, in three
encodings and decodings one behind the other, and so by induction over data; and every
liveness property (`CallsReturn`, `Termination`, `EverythingPopped`,
`FlushWritten`, `CallsEnd`): liveness under fairness is outside what the
prover can do. Induction theorems that take an operator are out of its reach too, so what
a recursion computes is proved only where a set will do in the operator's place.

## 5. What the runs found

1. A field whose encoding exceeds the MPI buffer is sent anyway and fails the
   assertion in `MpiTransport::blockingReceive` on the server.
2. `hashed_cyclic` adds the client's own server number to the hash, and its
   divisor is computed with the server count in place of the client count.
3. `Tracer::recordEvent` hands a full chunk to the writer although a thread that
   reserved a slot in it may not have written yet. Server and client record
   from one thread each, so it does not show there today; the class and its
   test are written for several.
4. Nobody sets `serverRank`, so every server is a master of the restarts, and
   "latest" can be made by one of them for a checkpoint that another has
   not dumped. A job resumed from it emits incomplete statistics without an error.

In 2 the documentation promises that parts of one field meet on one server.
Under `even` that needs equal programs: `SameServerWhenAgreed` is stated for
clients that dispatch the same fields in the same order, and a client without a
part of one field may send its parts of the next ones elsewhere.

Met while modelling, and excepted by name in the properties concerned:

- restarts written with `fstream_io` can never be loaded: `write` puts the length
  in front and `checkFileSize` does not count it (`Loads`, `ResumeAccepted`);
- a window of type backward-offset refuses a field at its own start, since
  `updateData` checks the bounds of a forward window (`InBounds`, `ResumeAccepted`);
- a key without a field between two checkpoints is missing from the second after a
  restart from the first, and loses its window at the next restart (`Continuous`);
- if a crash cuts the dump of such a key short, a later run that passes the checkpoint
  without the key in memory leaves the half there and points "latest" to it; the run
  after that finds the directory and cannot load it (`ResumeAccepted`);
- a key whose fields are further apart than a window is long is turned away at the field
  behind the gap, since a field moves the window on by one length at most (`Dense`);
- an instantaneous field that is not the initial condition begins its window at its own
  time and is refused for not coming after it (`ResumeAccepted`);
- what a restart holds of a key that has no field in the resumed run is not passed on at
  the end, for only keys that have come are in memory (`AllEmitted`);
- `flushCurrentChunk` puts a shifted chunk number back when its exchange fails, which
  takes a flush from one thread while another records (`Overlap` in `Tracer`);
- masks that are sent every step without the step in their metadata have one field id, so
  parts of two steps are counted together when a client is a whole mask ahead
  of another, or never reach the count (`overtaken` in `Masks`);
- `Listener::moreConnections` counts open messages rather than clients, so a client
  must not open twice (`IOServer` has one open per client).

## 6. Running

    tlc -config MCStreamPool.cfg MCStreamPool
    tlapm StreamPoolProofs.tla

`PROJECT.json` pairs every configuration with its module.

## 7. Not modelled

- GRIB encoding and its tables (multiom, mars2grib, mars2mars, datamod), most of them
  generated, and the command line tools are by far most of the lines of the
  repository. They transform one message, or drive the API, without state
  that outlives a call or anything that runs beside them: TLC would enumerate tables,
  and a reference definition would be the table again.
- Configuration reading, and the adapters for FDB5, Maestro and ifsio, are I/O.
- Failure handling: its header calls it experimental. The default, to propagate, is what
  the threads and plans do in the models; "recover" runs a message again that was moved
  away, so its outcome depends on each action; an abort, and an exception that leaves
  a thread of the server, end the process.
- TcpTransport and ThreadTransport: `bufferedSend` and `synchronize` throw
  NotImplemented, so they cannot serve the protocol of `IOServer`.
- Unstructured and spectral domains, interpolation and renumbering: index by index or
  through a library, on one message. Parametrization: keys set once under a mutex.
- `action/statistics` is the older copy of statistics-mtg2.
- Empty parts of a domain (an ocean client without sea points): `CoverAssumption`
  excludes them, and `DomainMap::isComplete` does not work with them.
- The name of a restart directory by step alone, a flush without a date, and the
  coordinates that the encoder of ocean grids makes.
- Memory orders weaker than sequential consistency.
