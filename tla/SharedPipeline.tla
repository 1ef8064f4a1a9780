--------------------------- MODULE SharedPipeline ---------------------------
(***************************************************************************)
(* The plans as they are: handles and messages share metadata objects      *)
(* (SharedMetadata) and payload buffers (SharedPayload), copied only when  *)
(* somebody who has acquired them changes them while others hold them too. *)
(* An owner is a variable that holds pointers; what a move leaves empty is  *)
(* no owner.  Messages that wait in the frames of callers until the next   *)
(* action returns, never to be read again, are not counted.                *)
(***************************************************************************)
EXTENDS Sequences, Naturals

CONSTANTS
    Mds, PlanOrder, Params, Data, Parts, Mapped, ScaleTo, RateTo, Selected, Configs,
    MaxCalls, None,
    Msg, Cur, Debug,  \* owners: the message of dispatch, of the plan, of the debug sink
    Objs, Bufs,       \* addresses of metadata and of buffers
    Caller            \* the address of the memory of the caller

VARIABLES
    conf, call, calls, flushes,
    ref,    \* ref[s]: metadata_ of owner s
    flag,   \* flag[s]: its moveOrCopy_
    heap,   \* heap[o]: the metadata at o
    fid,    \* fid[s]: fieldId_ of the header, None if it is not set
    buf,    \* buf[s]: the payload of s
    mem,    \* mem[b]: what is in the buffer b
    out     \* what a sink has written last

\* A plan owns the messages in its AggregationCatalogue, one for each field under way.
Plans == {PlanOrder[i] : i \in 1 .. Len(PlanOrder)}
FieldIds == [param : Params, marks : {k \in SUBSET {"raw", "mapped", "masked"} : "raw" \in k},
             clientPlanName : {None}]
Entries == Plans \X FieldIds
Owners == Mds \cup {Msg, Cur, Debug} \cup Entries

ASSUME PipelineAssumption ==
    /\ PlanOrder \in Seq(Plans) /\ MaxCalls \in [{"client", "server"} -> Nat] /\ None \notin Params \cup Plans
    /\ Mapped \subseteq Params /\ Selected \subseteq Params
    /\ ScaleTo \in [DOMAIN ScaleTo -> Params] /\ RateTo \in [DOMAIN RateTo -> Params]

ASSUME OwnersAssumption ==
    /\ {Msg, Cur, Debug} \cap (Mds \cup Entries) = {} /\ Mds \cap Entries = {}
    /\ Msg # Cur /\ Msg # Debug /\ Cur # Debug
    /\ Caller \notin Bufs /\ None \notin Objs /\ None \notin Bufs \cup {Caller}

pointers == <<ref, flag, fid, buf>>
vars == <<conf, call, calls, flushes, pointers, heap, mem, out>>

-----------------------------------------------------------------------------
(* The values behind the pointers *)

Md(s) == heap[ref[s]]
Payload(s) == mem[buf[s]]
MessageOf(s) == IF ref[s] = None THEN None ELSE [md |-> Md(s), payload |-> Payload(s)]

V == INSTANCE Pipeline WITH
        data <- mem[Caller],
        meta <- [h \in Mds |-> IF ref[h] = None THEN None ELSE Md(h)],
        msg <- MessageOf(Msg), cur <- MessageOf(Cur),
        kept <- [e \in Entries |-> MessageOf(e)],
        debug <- IF ref[Debug] # None /\ buf[Debug] = Caller
                 THEN [MessageOf(Debug) EXCEPT !.payload = {<<"reference">>}]
                 ELSE MessageOf(Debug)

\* What a payload is made of: parts, and the kinds of the actions that changed them
Words == Data \cup Parts \cup Params \cup V!Kinds
Payloads == SUBSET Seq(Words)

\* A process is a client or a server, and every plan has a chain of actions.  Clients do
\* not aggregate, as only a server knows the domains (Mappings); a second aggregation of
\* a plan would look the server itself up in the domain.  Both throw for every field.
Aggregations(chain) == {i \in DOMAIN chain : chain[i] = "aggregate"}
ASSUME ConfigsAssumption ==
    \A c \in Configs :
        /\ c.role \in {"client", "server"} /\ c.chain \in [Plans -> Seq(V!Kinds)]
        /\ \A p \in Plans : \A i, j \in Aggregations(c.chain[p]) : c.role = "server" /\ i = j

ASSUME NoneAssumption ==
    None \notin V!Tags \cup V!Metadata \cup [md : V!Metadata, payload : Payloads]

-----------------------------------------------------------------------------
(* SharedMetadata, SharedPayload and the header *)

\* use_count() is not 1
Shared(s) == \E t \in Owners \ {s} : ref[t] = ref[s]
BufShared(s) == buf[s] = Caller \/ \E t \in Owners \ {s} : buf[t] = buf[s]

\* Header::fieldId: that of the metadata, once it has been asked for
FieldId(s) == IF fid[s] = None THEN Md(s) ELSE fid[s]

\* The allocator: an address that nobody holds, always the same of those there are
FreeObjs == {o \in Objs : \A s \in Owners : ref[s] # o}
FreeBufs == {b \in Bufs : \A s \in Owners : buf[s] # b}
FirstOf(S) == {x \in S : x = CHOOSE y \in S : TRUE}
NewObjs == FirstOf(FreeObjs)
NewBufs == FirstOf(FreeBufs)

\* SharedMetadata::modify by s, with m as what becomes of the metadata; S are the
\* owners that hold it then: s and those that copy s next
Modify(s, S, acquired, m) ==
    IF acquired /\ Shared(s)
    THEN \E o \in NewObjs :
           /\ ref' = [t \in Owners |-> IF t \in S THEN o ELSE ref[t]]
           /\ heap' = [heap EXCEPT ![o] = m]
           /\ flag' = [t \in Owners |-> t \notin S /\ flag[t]]
    ELSE /\ ref' = [t \in Owners |-> IF t \in S THEN ref[s] ELSE ref[t]]
         /\ heap' = [heap EXCEPT ![ref[s]] = m]
         /\ flag' = [t \in Owners |-> IF t \in S THEN acquired ELSE flag[t]]

\* mutant: modifyMetadata of a header that has not acquired its metadata
ModifyMetadataUnacquired(s, m) ==
    Modify(s, {s}, flag[s], m) /\ fid' = [fid EXCEPT ![s] = None]

\* mutant: modifyMetadata leaves the field id
ModifyMetadataCached(s, m) == Modify(s, {s}, TRUE, m) /\ UNCHANGED fid

\* Header::acquireMetadata and modifyMetadata, which forgets the field id
ModifyMetadata(s, m) == Modify(s, {s}, TRUE, m) /\ fid' = [fid EXCEPT ![s] = None]

\* SharedPayload::acquire and modifyData
ModifyPayload(s, d) ==
    IF BufShared(s)
    THEN \E b \in NewBufs : buf' = [buf EXCEPT ![s] = b] /\ mem' = [mem EXCEPT ![b] = d]
    ELSE mem' = [mem EXCEPT ![buf[s]] = d] /\ UNCHANGED buf

\* A new object, of which s is the only owner
NewMetadata(s, m) ==
    \E o \in NewObjs : /\ ref' = [ref EXCEPT ![s] = o]
                        /\ heap' = [heap EXCEPT ![o] = m]
                        /\ flag' = [flag EXCEPT ![s] = FALSE]
NewBuffer(s, d) ==
    \E b \in NewBufs : buf' = [buf EXCEPT ![s] = b] /\ mem' = [mem EXCEPT ![b] = d]

\* The owners in S give up what they hold; what nobody holds any more is freed.
Without(f, S) == [s \in Owners |-> IF s \in S THEN None ELSE f[s]]
Drop(S) ==
    /\ ref' = Without(ref, S) /\ buf' = Without(buf, S) /\ fid' = Without(fid, S)
    /\ flag' = [s \in Owners |-> s \notin S /\ flag[s]]
    /\ heap' = [o \in Objs |-> IF \E s \in Owners \ S : ref[s] = o THEN heap[o] ELSE V!Empty]
    /\ mem' = [b \in Bufs \cup {Caller} |->
                 IF b = Caller \/ \E s \in Owners \ S : buf[s] = b THEN mem[b] ELSE {}]

\* t becomes a copy of s.
CopyOf(f, t, s) == [f EXCEPT ![t] = f[s]]

-----------------------------------------------------------------------------
(* The C API *)

Init ==
    /\ conf \in Configs
    /\ call = V!NoCall /\ calls = 0
    /\ flushes = {}
    /\ ref = [s \in Owners |-> None]
    /\ flag = [s \in Owners |-> FALSE]
    /\ heap = [o \in Objs |-> V!Empty]
    /\ fid = [s \in Owners |-> None]
    /\ buf = [s \in Owners |-> None]
    /\ \E d \in Data : mem = [b \in Bufs \cup {Caller} |-> IF b = Caller THEN V!Written(d) ELSE {}]
    /\ out = None

\* What a call on a handle leaves alone
HandleCall ==
    V!Idle("client") /\ UNCHANGED <<conf, call, calls, flushes, fid, buf, mem, out>>

\* multio_new_metadata
New(h) == ref[h] = None /\ HandleCall /\ NewMetadata(h, V!Empty)

\* multio_copy_metadata
Copy(h, g) ==
    /\ ref[h] = None /\ ref[g] # None /\ HandleCall
    /\ ref' = CopyOf(ref, h, g) /\ flag' = CopyOf(flag, h, g)
    /\ UNCHANGED heap

\* multio_delete_metadata
Delete(h) ==
    /\ V!Idle("client") /\ ref[h] # None
    /\ Drop({h})
    /\ UNCHANGED <<conf, call, calls, flushes, out>>

\* mutant: the handle is changed as it is
SetUnacquired(h, q) ==
    /\ ref[h] # None /\ HandleCall
    /\ Modify(h, {h}, flag[h], [Md(h) EXCEPT !.param = q])

\* multio_metadata_set_int and the like
Set(h, q) ==
    /\ ref[h] # None /\ HandleCall
    /\ Modify(h, {h}, TRUE, [Md(h) EXCEPT !.param = q])

\* The caller uses its memory again once a call has returned.
Overwrite(d) ==
    /\ V!Idle("client")
    /\ mem' = [mem EXCEPT ![Caller] = V!Written(d)]
    /\ UNCHANGED <<conf, call, calls, flushes, pointers, heap, out>>

\* multio_write_field_float, _double and, with a buffer that is moved, _buffer
WriteField(h, moved) ==
    /\ V!Idle("client") /\ ref[h] # None
    /\ V!Begin("Field", None)
    /\ Modify(h, {h, Msg}, TRUE, V!Marked(Md(h), "raw"))
    /\ IF moved THEN NewBuffer(Msg, mem[Caller])
       ELSE buf' = [buf EXCEPT ![Msg] = Caller] /\ UNCHANGED mem
    /\ UNCHANGED <<fid, out>>

\* multio_flush and multio_notify
Signal(h, tag) ==
    /\ V!Idle("client") /\ ref[h] # None
    /\ V!Begin(tag, None)
    /\ ref' = CopyOf(ref, Msg, h) /\ flag' = CopyOf(flag, Msg, h)
    /\ NewBuffer(Msg, {})
    /\ UNCHANGED <<heap, fid, out>>

\* decodeMessage: the metadata is parsed from the field id, which the header keeps.
Receive(tag, src, q) ==
    /\ V!Idle("server") /\ q \in V!Incoming(tag)
    /\ V!Begin(tag, src)
    /\ NewMetadata(Msg, V!Decoded(tag, q)) /\ NewBuffer(Msg, V!Contents(tag, src, q))
    /\ fid' = [fid EXCEPT ![Msg] = V!Decoded(tag, q)]
    /\ UNCHANGED out

-----------------------------------------------------------------------------
(* MultioClient::dispatch, Dispatcher::dispatch and Plan::process *)

\* A plan gets a copy of the message; on a client, that of a flush tells the plan.
NextPlan ==
    /\ V!AtNextPlan /\ V!ToNextPlan
    /\ IF call.tag = "Flush" /\ conf.role = "client"
       THEN /\ \E o \in NewObjs :
                 /\ ref' = [ref EXCEPT ![Cur] = o]
                 /\ heap' = [heap EXCEPT ![o] = [Md(Msg) EXCEPT !.clientPlanName = Head(call.rest)]]
            /\ flag' = [flag EXCEPT ![Cur] = FALSE]
            /\ fid' = [fid EXCEPT ![Cur] = None]
       ELSE /\ ref' = CopyOf(ref, Cur, Msg) /\ flag' = CopyOf(flag, Cur, Msg)
            /\ fid' = CopyOf(fid, Cur, Msg)
            /\ UNCHANGED heap
    /\ buf' = CopyOf(buf, Cur, Msg)
    /\ UNCHANGED <<mem, out>>

EndCall ==
    /\ V!AtEnd /\ V!ToIdle
    /\ Drop({Msg})
    /\ UNCHANGED out

\* An exception unwinds the plan and dispatch.
Failure(kind) ==
    /\ V!At(kind) /\ V!Fails
    /\ V!Throws(kind, Md(Cur)) \/ kind = "sink"
    /\ Drop({Msg, Cur})
    /\ UNCHANGED out

-----------------------------------------------------------------------------
(* Actions *)

\* The message goes on as it came; an action that prints it asks for its field id.
Pass(kind) ==
    /\ V!At(kind) /\ V!Passes(kind, Md(Cur)) /\ V!ToNextAction
    /\ fid' = IF kind = "print" THEN [fid EXCEPT ![Cur] = FieldId(Cur)] ELSE fid
    /\ UNCHANGED <<ref, flag, buf, heap, mem, out>>

\* select drops it, aggregate a notification; a sink has nothing to write
DropMessage(kind) ==
    /\ V!At(kind) /\ V!Drops(kind, Md(Cur)) /\ V!PlanEnds
    /\ Drop({Cur})
    /\ UNCHANGED out

\* executeImpl of MetadataMapping, on a field
MetadataMapping ==
    /\ V!At("metadata-mapping") /\ V!Edits("metadata-mapping", Md(Cur)) /\ V!ToNextAction
    /\ ModifyMetadata(Cur, V!EditedMd("metadata-mapping", Md(Cur)))
    /\ UNCHANGED <<buf, mem, out>>

\* executeImpl of Scale, AverageRate and Mask, on a field
EditBoth(kind) ==
    /\ V!At(kind) /\ V!Edits(kind, Md(Cur)) /\ V!ToNextAction
    /\ ModifyMetadata(Cur, V!EditedMd(kind, Md(Cur)))
    /\ ModifyPayload(Cur, V!EditedData(kind, Payload(Cur)))
    /\ UNCHANGED out

Scale == EditBoth("scale")
AverageRate == EditBoth("average-rate")
Mask == EditBoth("mask")

\* The encoders hand a message of their own on.  What they acquire and change to
\* make it, the metadata of a copy or the values that are scaled, goes with the action.
\* Left out: the coordinates of an ocean grid, which go down the chain before the field.
Encoded(kind) ==
    /\ V!At(kind) /\ V!Edits(kind, Md(Cur)) /\ V!ToNextAction
    /\ NewMetadata(Cur, V!EditedMd(kind, Md(Cur)))
    /\ NewBuffer(Cur, V!EditedData(kind, Payload(Cur)))
    /\ fid' = [fid EXCEPT ![Cur] = None]
    /\ UNCHANGED out

Encode == Encoded("encode")
EncodeMtg2 == Encoded("encode-mtg2")

\* executeImpl of Sink, on a field
Sink ==
    /\ V!At("sink") /\ V!IsField /\ V!PlanEnds
    /\ out' = [plan |-> call.plan, message |-> MessageOf(Cur)]
    /\ Drop({Cur})

\* executeImpl of DebugSink; bound: of the messages in the queue the last is kept
DebugSink ==
    /\ V!At("debug-sink") /\ V!PlanEnds
    /\ ref' = Without(CopyOf(ref, Debug, Cur), {Cur})
    /\ flag' = CopyOf(flag, Debug, Cur)
    /\ fid' = Without(CopyOf(fid, Debug, Cur), {Cur})
    /\ buf' = Without(CopyOf(buf, Debug, Cur), {Cur})
    /\ UNCHANGED <<heap, mem, out>>

\* executeImpl of Aggregate, on a field: addNew, toGlobal, bookProcessedPart, globalField.
\* The parts that are booked are the sources of the payload.
Aggregate ==
    LET e == <<call.plan, FieldId(Cur)>>
        isNew == ref[e] = None
        ref1 == IF isNew THEN CopyOf(ref, e, Cur) ELSE ref
        flag1 == IF isNew THEN [flag EXCEPT ![e] = TRUE] ELSE flag
        d == IF isNew THEN Payload(Cur) ELSE V!Joined(Payload(e), Payload(Cur))
    IN  /\ V!At("aggregate") /\ V!IsField /\ ~ V!Throws("aggregate", Md(Cur))
        /\ \E b \in IF isNew THEN NewBufs ELSE {buf[e]} :
              /\ mem' = [mem EXCEPT ![b] = d]
              /\ IF V!Whole(d)
                 THEN /\ V!ToNextAction
                      /\ ref' = [ref1 EXCEPT ![Cur] = ref1[e], ![e] = None]
                      /\ flag' = [flag1 EXCEPT ![Cur] = flag1[e]]
                      /\ buf' = [buf EXCEPT ![Cur] = b, ![e] = None]
                 ELSE /\ V!PlanEnds
                      /\ ref' = [ref1 EXCEPT ![Cur] = None]
                      /\ flag' = flag1
                      /\ buf' = [buf EXCEPT ![Cur] = None, ![e] = b]
        /\ fid' = [fid EXCEPT ![Cur] = None]
        /\ UNCHANGED <<heap, out>>

\* executeImpl of Aggregate, on a flush that goes on: a message made from the field id
GlobalFlush(m) ==
    /\ NewMetadata(Cur, m) /\ NewBuffer(Cur, {})
    /\ fid' = [fid EXCEPT ![Cur] = m]

AggregateFlush ==
    LET m == FieldId(Cur)
    IN  /\ V!At("aggregate") /\ call.tag = "Flush"
        /\ \/ Md(Cur).param = None /\ V!ToNextAction /\ GlobalFlush(m)
           \/ /\ ~ V!FlushThrows("aggregate", m) /\ V!CountFlush(m)
              /\ IF V!LastFlush(m) THEN GlobalFlush(m) ELSE Drop({Cur})
        /\ UNCHANGED out

Next ==
    \/ \E h \in Mds : New(h) \/ Delete(h) \/ \E g \in Mds : Copy(h, g)
    \/ \E h \in Mds, q \in Params : Set(h, q)
    \/ \E d \in Data : Overwrite(d)
    \/ \E h \in Mds : \/ \E moved \in BOOLEAN : WriteField(h, moved)
                      \/ \E tag \in {"Flush", "Notification"} : Signal(h, tag)
    \/ \E tag \in V!Tags, src \in Parts, q \in Params \cup {None} : Receive(tag, src, q)
    \/ NextPlan \/ EndCall
    \/ \E kind \in V!Kinds : Pass(kind) \/ DropMessage(kind) \/ Failure(kind)
    \/ MetadataMapping \/ Scale \/ AverageRate \/ Mask \/ Encode \/ EncodeMtg2
    \/ Sink \/ DebugSink \/ Aggregate \/ AggregateFlush

Spec == Init /\ [][Next]_vars

-----------------------------------------------------------------------------
(* Properties *)

\* Sharing cannot be seen: whatever plans, handles and stateful actions hold the
\* same metadata or buffer, each of them sees what it would if everything were
\* copied (SharedMetadata::modify, SharedPayload::acquire and who calls them).
ValueSemantics == V!Spec

\* The field id that a header caches is that of its metadata, though others may
\* hold the metadata and change it: a message is stored and sent under its own id.
FieldIdFresh == \A s \in Owners : fid[s] # None => ref[s] # None /\ fid[s] = Md(s)

\* What the actions of a plan make, by themselves, of the metadata of a field q
Start(q) == V!Decoded("Field", q)
Handed(kind, m) == IF kind \in V!Editors /\ (kind = "scale" => m.param \in DOMAIN ScaleTo)
                   THEN V!EditedMd(kind, m) ELSE m
Route(chain, q) ==
    LET m[i \in 0 .. Len(chain)] == IF i = 0 THEN Start(q) ELSE Handed(chain[i], m[i - 1])
    IN  m
IdOf(p, q) == LET chain == conf.chain[p]
              IN  Route(chain, q)[(CHOOSE i \in Aggregations(chain) : TRUE) - 1]

\* The parts of a field meet: though the plans get the same metadata object and change
\* what they got, and the parts of several fields are under way, a plan keeps a part
\* where its own actions send the parts of that field, with all that have come, and
\* what it keeps stays the field that it keeps it for (AggregationCatalogue is a map
\* by field id).  So fields meet only where the plan itself makes one of them.
PartsMeet ==
    \A p \in Plans, id \in FieldIds :
        ref[<<p, id>>] # None =>
            Md(<<p, id>>) = id /\ \A c \in Payload(<<p, id>>) : IdOf(p, c[2]) = id
=============================================================================
