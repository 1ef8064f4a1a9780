------------------------------ MODULE Pipeline ------------------------------
(***************************************************************************)
(* What the plans of a client or a server promise to the model that writes *)
(* fields: every metadata handle, every message and every payload is a     *)
(* value of its own.  What an action changes is seen by the actions after  *)
(* it in its plan, and by nobody else.                                     *)
(***************************************************************************)
EXTENDS Sequences, Naturals

CONSTANTS
    Mds,          \* metadata handles of the C API
    PlanOrder,    \* the plans, in the order in which they are processed
    Params, Data, \* parameters of fields, contents of the memory of the caller
    Parts,        \* clients of a server: every one sends a part of each field
    Mapped,       \* parameters that the metadata mapping matches
    ScaleTo, RateTo,  \* the mappings of scale and average-rate
    Selected,     \* parameters that the select action passes on
    Configs,      \* configurations, see Init
    MaxCalls,     \* bound: calls of a client, messages received by a server
    None          \* no message, handle or parameter

Plans == {PlanOrder[i] : i \in 1 .. Len(PlanOrder)}
Tags == {"Field", "Flush", "Notification"}
Kinds == {"select", "print", "metadata-mapping", "scale", "average-rate", "mask",
          "encode", "encode-mtg2", "aggregate", "sink", "debug-sink"}
Metadata == [param : Params \cup {None}, marks : SUBSET {"raw", "mapped", "masked"},
             clientPlanName : Plans \cup {None}]

\* What identifies a field that can be aggregated: raw values of a parameter
FieldIds == {m \in Metadata : m.param # None /\ "raw" \in m.marks /\ m.clientPlanName = None}

\* AggregationCatalogue of the plans: a message for each field under way
Entries == Plans \X FieldIds

VARIABLES
    conf,     \* the configuration: the role of the process, the chains of its plans
    call,     \* the call in progress: its tag and source, the plans and actions to come
    calls,    \* how many there have been
    flushes,  \* flushes counted by aggregations: plan, id and source of each
    data,     \* memory of the caller
    meta,     \* meta[h]: metadata of handle h
    msg, cur, \* the message of dispatch, and that of the plan it processes
    kept,     \* kept[<<p, id>>]: the field id that the aggregation of plan p builds up
    debug,    \* the message last pushed to the debug sink
    out       \* what a sink has written last

control == <<conf, call, calls, flushes>>
vars == <<control, data, meta, msg, cur, kept, debug, out>>

Empty == [param |-> None, marks |-> {}, clientPlanName |-> None]
Marked(m, k) == [m EXCEPT !.marks = @ \cup {k}]
NoCall == [tag |-> None, src |-> None, plan |-> None, rest |-> <<>>, todo |-> <<>>]

\* A payload is a set of cells, each with where its values come from and the kinds of
\* the actions that have changed them since: a call of a client, a part of a field.
Written(d) == {<<d>>}
Part(src, q) == {<<src, q>>}
Sources(d) == {c[1] : c \in d}

-----------------------------------------------------------------------------
(* Control, the same for values and for shared messages *)

Idle(role) == conf.role = role /\ call = NoCall

\* dispatch begins
Begin(tag, src) ==
    /\ calls < MaxCalls[conf.role]
    /\ calls' = calls + 1
    /\ call' = [tag |-> tag, src |-> src, plan |-> None, rest |-> PlanOrder, todo |-> <<>>]
    /\ UNCHANGED <<conf, flushes>>

\* The metadata of a message from the wire: fields are of a parameter; a flush without
\* one is of the domain "global" or of none.
Incoming(tag) == IF tag = "Field" THEN Params ELSE IF tag = "Flush" THEN Params \cup {None} ELSE {None}
Decoded(tag, q) == [param |-> q, marks |-> IF tag = "Field" THEN {"raw"} ELSE {},
                    clientPlanName |-> None]
Contents(tag, src, q) == IF tag = "Field" THEN Part(src, q) ELSE {}

\* No plan is at work and there is one to come.
AtNextPlan == call # NoCall /\ call.plan = None /\ call.rest # <<>>
ToNextPlan ==
    /\ call' = [call EXCEPT !.plan = Head(call.rest), !.rest = Tail(call.rest),
                            !.todo = conf.chain[Head(call.rest)]]
    /\ UNCHANGED <<conf, calls, flushes>>

AtEnd == call # NoCall /\ call.plan = None /\ call.rest = <<>>
ToIdle == call' = NoCall /\ UNCHANGED <<conf, calls, flushes>>

\* executeNext and the return of the root action
At(kind) == call.plan # None /\ call.todo # <<>> /\ Head(call.todo) = kind
HandsOn == call' = [call EXCEPT !.todo = Tail(@)]
Returns == call' = [call EXCEPT !.plan = None, !.todo = <<>>]
ToNextAction == HandsOn /\ UNCHANGED <<conf, calls, flushes>>
PlanEnds == Returns /\ UNCHANGED <<conf, calls, flushes>>

\* An exception leaves dispatch: a client returns an error, a server ends.
Fails == /\ call' = NoCall
         /\ calls' = IF conf.role = "server" THEN MaxCalls["server"] ELSE calls
         /\ UNCHANGED <<conf, flushes>>

IsField == call.tag = "Field"

\* select passes flushes and notifications on
Selects(m) == ~ IsField \/ m.param \in Selected

\* The actions that throw on metadata they do not know
FieldThrows(kind, m) ==
    \/ kind = "metadata-mapping" /\ m.param \notin Mapped
    \/ kind = "average-rate" /\ m.param \notin DOMAIN RateTo
    \/ kind = "aggregate" /\ m \notin FieldIds

\* flushCount: a flush without a domain, or one received again
Counted(m) == <<call.plan, m, call.src>>
FlushThrows(kind, m) == kind = "aggregate" /\ (m.param = None \/ Counted(m) \in flushes)

Throws(kind, m) == \/ IsField /\ FieldThrows(kind, m)
                   \/ call.tag = "Flush" /\ FlushThrows(kind, m)

\* The actions that change what they pass on, and how
Editors == {"metadata-mapping", "scale", "average-rate", "mask", "encode", "encode-mtg2"}
Edits(kind, m) ==
    /\ IsField /\ kind \in Editors /\ ~ FieldThrows(kind, m)
    /\ kind = "scale" => m.param \in DOMAIN ScaleTo

\* The actions that pass the message on as it is
Passes(kind, m) ==
    \/ kind = "print"
    \/ kind = "select" /\ Selects(m)
    \/ kind \in Editors /\ ~ Edits(kind, m) /\ ~ Throws(kind, m)

\* The actions that end the plan with nothing to write
Drops(kind, m) ==
    \/ kind = "select" /\ ~ Selects(m)
    \/ kind = "aggregate" /\ call.tag = "Notification"
    \/ kind = "sink" /\ ~ IsField

EditedMd(kind, m) ==
    CASE kind = "metadata-mapping" -> Marked(m, "mapped")
      [] kind = "scale" -> [m EXCEPT !.param = ScaleTo[@]]
      [] kind = "average-rate" -> [m EXCEPT !.param = RateTo[@]]
      [] kind = "mask" -> Marked(m, "masked")
      [] kind = "encode" -> Empty
      [] kind = "encode-mtg2" -> [Empty EXCEPT !.param = m.param]

EditedData(kind, d) == IF kind = "metadata-mapping" THEN d ELSE {Append(c, kind) : c \in d}

\* toGlobal: a part takes the place of what its source has sent before; the field is
\* whole when all sources are in.
Joined(old, part) == {c \in old : c[1] # call.src} \cup part
Whole(d) == Sources(d) = Parts

\* handleFlush: is it the last that was missing?
Outstanding(m) == {src \in Parts : <<call.plan, m, src>> \notin flushes}
LastFlush(m) == Outstanding(m) \subseteq {call.src}
CountFlush(m) ==
    /\ IF LastFlush(m)
       THEN HandsOn /\ flushes' = {f \in flushes : f[1] # call.plan \/ f[2] # m}
       ELSE Returns /\ flushes' = flushes \cup {Counted(m)}
    /\ UNCHANGED <<conf, calls>>

-----------------------------------------------------------------------------
(* Values *)

Init ==
    /\ conf \in Configs
    /\ call = NoCall /\ calls = 0
    /\ flushes = {}
    /\ data \in {Written(d) : d \in Data}
    /\ meta = [h \in Mds |-> None]
    /\ msg = None /\ cur = None
    /\ kept = [e \in Entries |-> None]
    /\ debug = None
    /\ out = None

Message(m, d) == [md |-> m, payload |-> d]
Reference == {<<"reference">>}

SetHandle(h, m) ==
    /\ Idle("client")
    /\ meta' = [meta EXCEPT ![h] = m]
    /\ UNCHANGED <<control, data, msg, cur, kept, debug, out>>

Handle(h) ==
    \/ meta[h] = None /\ SetHandle(h, Empty)
    \/ \E g \in Mds : meta[h] = None /\ meta[g] # None /\ SetHandle(h, meta[g])
    \/ meta[h] # None /\ SetHandle(h, None)
    \/ \E q \in Params : meta[h] # None /\ SetHandle(h, [meta[h] EXCEPT !.param = q])

Overwrite ==
    /\ Idle("client")
    /\ data' \in {Written(d) : d \in Data}
    /\ UNCHANGED <<control, meta, msg, cur, kept, debug, out>>

\* A field is written with the metadata of h: that is marked as raw values.
WriteField(h) ==
    /\ Idle("client") /\ meta[h] # None
    /\ Begin("Field", None)
    /\ meta' = [meta EXCEPT ![h] = Marked(@, "raw")]
    /\ msg' = Message(meta'[h], data)
    /\ UNCHANGED <<data, cur, kept, debug, out>>

Signal(h, tag) ==
    /\ Idle("client") /\ meta[h] # None
    /\ Begin(tag, None)
    /\ msg' = Message(meta[h], {})
    /\ UNCHANGED <<data, meta, cur, kept, debug, out>>

\* A message arrives at a server: no order between fields, or between clients, is certain.
Receive(tag, src, q) ==
    /\ Idle("server") /\ q \in Incoming(tag)
    /\ Begin(tag, src)
    /\ msg' = Message(Decoded(tag, q), Contents(tag, src, q))
    /\ UNCHANGED <<data, meta, cur, kept, debug, out>>

\* A client tells each plan its name when it flushes.
NextPlan ==
    /\ AtNextPlan /\ ToNextPlan
    /\ cur' = IF call.tag = "Flush" /\ conf.role = "client"
              THEN [msg EXCEPT !.md = [@ EXCEPT !.clientPlanName = Head(call.rest)]]
              ELSE msg
    /\ UNCHANGED <<data, meta, msg, kept, debug, out>>

EndCall ==
    /\ AtEnd /\ ToIdle
    /\ msg' = None
    /\ UNCHANGED <<data, meta, cur, kept, debug, out>>

\* An action hands the message on, changed or not.
Execute(kind) ==
    /\ At(kind) /\ ToNextAction
    /\ \/ /\ Edits(kind, cur.md)
          /\ cur' = Message(EditedMd(kind, cur.md), EditedData(kind, cur.payload))
       \/ Passes(kind, cur.md) /\ UNCHANGED cur
    /\ UNCHANGED <<data, meta, msg, kept, debug, out>>

\* A plan is over: the message is dropped or handed to a sink.  What the debug
\* sink holds of the memory of the caller is a reference.
EndPlan(kind) ==
    /\ At(kind) /\ PlanEnds
    /\ cur' = None
    /\ \/ Drops(kind, cur.md) /\ UNCHANGED <<debug, out>>
       \/ kind = "sink" /\ IsField /\ out' = [plan |-> call.plan, message |-> cur] /\ UNCHANGED debug
       \/ /\ kind = "debug-sink" /\ UNCHANGED out
          /\ debug' \in {cur, [cur EXCEPT !.payload = Reference]}
    /\ UNCHANGED <<data, meta, msg, kept>>

\* An action throws, or a sink cannot write.
Failure(kind) ==
    /\ At(kind) /\ Fails
    /\ Throws(kind, cur.md) \/ kind = "sink"
    /\ cur' = None /\ msg' = None
    /\ UNCHANGED <<data, meta, kept, debug, out>>

\* The aggregation takes a part of a field in; the field that is whole goes on.
Entry == <<call.plan, cur.md>>
Aggregated == IF kept[Entry] = None THEN cur
              ELSE [kept[Entry] EXCEPT !.payload = Joined(@, cur.payload)]
AggregatePart ==
    /\ At("aggregate") /\ IsField /\ ~ Throws("aggregate", cur.md)
    /\ IF Whole(Aggregated.payload)
       THEN ToNextAction /\ cur' = Aggregated /\ kept' = [kept EXCEPT ![Entry] = None]
       ELSE PlanEnds /\ cur' = None /\ kept' = [kept EXCEPT ![Entry] = Aggregated]
    /\ UNCHANGED <<data, meta, msg, debug, out>>

\* A flush of the domain "global" goes on as it is, others when every source has sent it.
AggregateFlush ==
    /\ At("aggregate") /\ call.tag = "Flush"
    /\ \/ cur.md.param = None /\ ToNextAction /\ UNCHANGED cur
       \/ /\ ~ FlushThrows("aggregate", cur.md) /\ CountFlush(cur.md)
          /\ cur' = IF LastFlush(cur.md) THEN cur ELSE None
    /\ UNCHANGED <<data, meta, msg, kept, debug, out>>

Next ==
    \/ \E h \in Mds : Handle(h) \/ WriteField(h) \/ \E tag \in Tags : Signal(h, tag)
    \/ \E tag \in Tags, src \in Parts, q \in Params \cup {None} : Receive(tag, src, q)
    \/ Overwrite \/ NextPlan \/ EndCall \/ AggregatePart \/ AggregateFlush
    \/ \E kind \in Kinds : Execute(kind) \/ EndPlan(kind) \/ Failure(kind)

Spec == Init /\ [][Next]_vars
=============================================================================
