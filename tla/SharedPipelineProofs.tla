------------------------ MODULE SharedPipelineProofs ------------------------
(* Sharing cannot be seen, whatever the plans, the handles and the calls.    *)
EXTENDS SharedPipeline, NaturalsInduction, WellFoundedInduction, TLAPS

Shape ==
    /\ ref \in [Owners -> Objs \cup {None}]
    /\ buf \in [Owners -> Bufs \cup {Caller, None}]
    /\ fid = [s \in Owners |-> fid[s]]
    /\ heap = [o \in Objs |-> heap[o]]
    /\ mem = [b \in Bufs \cup {Caller} |-> mem[b]]

\* Owner t holds the same metadata object as before, with the same content.
SameMd(t) == ref'[t] = ref[t] /\ (ref[t] # None => heap'[ref[t]] = heap[ref[t]])

\* Likewise its payload
SameBuf(t) == buf'[t] = buf[t] /\ (buf[t] # None => mem'[buf[t]] = mem[buf[t]])

\* The allocator returns an address that nobody holds.
LEMMA FreshObj ==
    ASSUME NEW o \in NewObjs
    PROVE  o \in Objs /\ \A s \in Owners : ref[s] # o
BY DEF NewObjs, FirstOf, FreeObjs

LEMMA FreshBuf ==
    ASSUME NEW b \in NewBufs
    PROVE  b \in Bufs /\ \A s \in Owners : buf[s] # b
BY DEF NewBufs, FirstOf, FreeBufs

\* An owner that has acquired its metadata changes it for itself and for those
\* that copy it next, and for nobody else.
LEMMA ModifyAlone ==
    ASSUME Shape, NEW s \in Owners, NEW S \in SUBSET Owners, s \in S, ref[s] # None,
           NEW m, Modify(s, S, TRUE, m)
    PROVE  /\ ref' \in [Owners -> Objs \cup {None}] /\ heap' = [o \in Objs |-> heap'[o]]
           /\ \A t \in S : ref'[t] \in Objs /\ heap'[ref'[t]] = m
           /\ \A t \in Owners \ S : SameMd(t)
<1>1. ref[s] \in Objs BY DEF Shape
<1>2. CASE Shared(s)
  <2>1. PICK o \in NewObjs : /\ ref' = [t \in Owners |-> IF t \in S THEN o ELSE ref[t]]
                             /\ heap' = [heap EXCEPT ![o] = m]
    BY <1>2 DEF Modify
  <2>2. o \in Objs /\ \A t \in Owners : ref[t] # o BY FreshObj
  <2> QED BY <2>1, <2>2 DEF Shape, SameMd
<1>3. CASE ~ Shared(s)
  <2>1. /\ ref' = [t \in Owners |-> IF t \in S THEN ref[s] ELSE ref[t]]
        /\ heap' = [heap EXCEPT ![ref[s]] = m]
    BY <1>3 DEF Modify
  <2>2. \A t \in Owners \ {s} : ref[t] # ref[s] BY <1>3 DEF Shared
  <2> QED BY <1>1, <2>1, <2>2 DEF Shape, SameMd
<1> QED BY <1>2, <1>3

LEMMA ModifyPayloadAlone ==
    ASSUME Shape, NEW s \in Owners, buf[s] # None, NEW d, ModifyPayload(s, d)
    PROVE  /\ buf' \in [Owners -> Bufs \cup {Caller, None}]
           /\ mem' = [b \in Bufs \cup {Caller} |-> mem'[b]]
           /\ buf'[s] \in Bufs /\ mem'[buf'[s]] = d /\ mem'[Caller] = mem[Caller]
           /\ \A t \in Owners \ {s} : SameBuf(t) /\ buf[t] # buf'[s]
<1>1. CASE BufShared(s)
  <2>1. PICK b \in NewBufs : buf' = [buf EXCEPT ![s] = b] /\ mem' = [mem EXCEPT ![b] = d]
    BY <1>1 DEF ModifyPayload
  <2>2. b \in Bufs /\ \A t \in Owners : buf[t] # b BY FreshBuf
  <2> QED BY <2>1, <2>2, OwnersAssumption DEF Shape, SameBuf
<1>2. CASE ~ BufShared(s)
  <2>1. mem' = [mem EXCEPT ![buf[s]] = d] /\ buf' = buf BY <1>2 DEF ModifyPayload
  <2>2. buf[s] # Caller /\ \A t \in Owners \ {s} : buf[t] # buf[s] BY <1>2 DEF BufShared
  <2> QED BY <2>1, <2>2 DEF Shape, SameBuf
<1> QED BY <1>1, <1>2

LEMMA NewMetadataAlone ==
    ASSUME Shape, NEW s \in Owners, NEW m, NewMetadata(s, m)
    PROVE  /\ ref' \in [Owners -> Objs \cup {None}] /\ heap' = [o \in Objs |-> heap'[o]]
           /\ ref'[s] \in Objs /\ heap'[ref'[s]] = m
           /\ \A t \in Owners \ {s} : SameMd(t)
<1>1. PICK o \in NewObjs : ref' = [ref EXCEPT ![s] = o] /\ heap' = [heap EXCEPT ![o] = m]
  BY DEF NewMetadata
<1>2. o \in Objs /\ \A t \in Owners : ref[t] # o BY FreshObj
<1> QED BY <1>1, <1>2 DEF Shape, SameMd

LEMMA NewBufferAlone ==
    ASSUME Shape, NEW s \in Owners, NEW d, NewBuffer(s, d)
    PROVE  /\ buf' \in [Owners -> Bufs \cup {Caller, None}]
           /\ mem' = [b \in Bufs \cup {Caller} |-> mem'[b]]
           /\ buf'[s] \in Bufs /\ mem'[buf'[s]] = d /\ mem'[Caller] = mem[Caller]
           /\ \A t \in Owners \ {s} : SameBuf(t) /\ buf[t] # buf'[s]
<1>1. PICK b \in NewBufs : buf' = [buf EXCEPT ![s] = b] /\ mem' = [mem EXCEPT ![b] = d]
  BY DEF NewBuffer
<1>2. b \in Bufs /\ \A t \in Owners : buf[t] # b BY FreshBuf
<1> QED BY <1>1, <1>2, OwnersAssumption DEF Shape, SameBuf

\* What is given up is given up by its owners only.
LEMMA DropAlone ==
    ASSUME Shape, NEW S \in SUBSET Owners, Drop(S)
    PROVE  /\ Shape' /\ mem'[Caller] = mem[Caller]
           /\ \A t \in S : ref'[t] = None /\ buf'[t] = None /\ fid'[t] = None
           /\ \A t \in Owners \ S : SameMd(t) /\ SameBuf(t) /\ fid'[t] = fid[t]
<1>1. /\ ref' = [t \in Owners |-> IF t \in S THEN None ELSE ref[t]]
      /\ buf' = [t \in Owners |-> IF t \in S THEN None ELSE buf[t]]
      /\ fid' = [t \in Owners |-> IF t \in S THEN None ELSE fid[t]]
  BY DEF Drop, Without
<1>2. heap' = [o \in Objs |-> IF \E s \in Owners \ S : ref[s] = o THEN heap[o] ELSE V!Empty]
  BY DEF Drop
<1>3. mem' = [b \in Bufs \cup {Caller} |->
                IF b = Caller \/ \E s \in Owners \ S : buf[s] = b THEN mem[b] ELSE {}]
  BY DEF Drop
<1>4. Shape' BY <1>1, <1>2, <1>3 DEF Shape
<1>5. \A t \in Owners \ S : SameMd(t) BY <1>1, <1>2 DEF Shape, SameMd
<1>6. \A t \in Owners \ S : SameBuf(t) BY <1>1, <1>3 DEF Shape, SameBuf
<1> QED BY <1>1, <1>3, <1>4, <1>5, <1>6

LEMMA ModifySelf ==
    ASSUME Shape, NEW s \in Owners, ref[s] # None, NEW m, Modify(s, {s}, TRUE, m)
    PROVE  /\ ref' \in [Owners -> Objs \cup {None}] /\ heap' = [o \in Objs |-> heap'[o]]
           /\ ref'[s] \in Objs /\ heap'[ref'[s]] = m
           /\ \A t \in Owners \ {s} : SameMd(t)
<1>1. PICK S : S = {s} OBVIOUS
<1>2. S \in SUBSET Owners /\ s \in S BY <1>1
<1>3. Modify(s, S, TRUE, m) BY <1>1 DEF Modify
<1>4. /\ ref' \in [Owners -> Objs \cup {None}] /\ heap' = [o \in Objs |-> heap'[o]]
      /\ \A t \in S : ref'[t] \in Objs /\ heap'[ref'[t]] = m
      /\ \A t \in Owners \ S : SameMd(t)
  BY <1>2, <1>3, ModifyAlone
<1> QED BY <1>1, <1>4

-----------------------------------------------------------------------------
(* The invariant *)

Typed ==
    /\ Shape
    /\ \A s \in Owners : ref[s] # None => Md(s) \in V!Metadata
    /\ \A s \in Owners : buf[s] # None => Payload(s) \in Payloads
    /\ \E d \in Data : mem[Caller] = V!Written(d)

\* Handles and aggregations have no field id cached.
Cached == FieldIdFresh /\ \A s \in Owners \ {Msg, Cur, Debug} : fid[s] = None

CallTyped ==
    /\ call = [tag |-> call.tag, src |-> call.src, plan |-> call.plan,
               rest |-> call.rest, todo |-> call.todo]
    /\ call # V!NoCall => call.tag \in V!Tags
    /\ call.plan \in Plans \cup {None} /\ call.rest \in Seq(Plans)

\* Who holds what: dispatch its message during a call, the plan a message while it
\* is at work.
Holding ==
    /\ ref[Msg] = None <=> call = V!NoCall
    /\ ref[Cur] = None <=> call.plan = None
    /\ \A h \in Mds : buf[h] = None
    /\ \A s \in Owners \ Mds : ref[s] = None <=> buf[s] = None
    /\ call.tag # "Field" => \A s \in {Msg, Cur} : ref[s] # None => Payload(s) = {}

\* The aggregation of a plan builds the field up in a buffer of its own.
OwnBuffers == \A e \in Entries : buf[e] # None =>
                buf[e] # Caller /\ \A t \in Owners \ {e} : buf[t] # buf[e]

Inv == Typed /\ Cached /\ CallTyped /\ Holding /\ OwnBuffers

LEMMA OwnersFacts ==
    /\ Mds \subseteq Owners /\ Entries \subseteq Owners /\ {Msg, Cur, Debug} \subseteq Owners
    /\ Msg \notin Mds \cup Entries \cup {Cur, Debug}
    /\ Cur \notin Mds \cup Entries \cup {Msg, Debug}
    /\ Debug \notin Mds \cup Entries \cup {Msg, Cur}
    /\ \A h \in Mds : h \notin Entries
BY OwnersAssumption DEF Owners

\* Types and field ids stay right if they do for those owners that change.
LEMMA TypedKept ==
    ASSUME Inv, Shape', mem'[Caller] = mem[Caller],
           \A s \in Owners : SameMd(s) \/ (ref'[s] # None => heap'[ref'[s]] \in V!Metadata),
           \A s \in Owners : SameBuf(s) \/ (buf'[s] # None => mem'[buf'[s]] \in Payloads)
    PROVE  Typed'
BY DEF Inv, Typed, SameMd, SameBuf, Md, Payload

LEMMA CachedKept ==
    ASSUME Inv,
           \A s \in Owners : \/ SameMd(s) /\ fid'[s] = fid[s]
                             \/ fid'[s] = None
                             \/ ref'[s] # None /\ fid'[s] = heap'[ref'[s]],
           \A s \in Owners \ {Msg, Cur, Debug} : fid'[s] = None
    PROVE  Cached'
BY DEF Inv, Cached, FieldIdFresh, SameMd, Md

LEMMA InitInv == Init => Inv
<1> SUFFICES ASSUME Init PROVE Inv OBVIOUS
<1>1. Typed
  <2>1. PICK d \in Data : mem = [b \in Bufs \cup {Caller} |-> IF b = Caller THEN V!Written(d) ELSE {}]
    BY DEF Init
  <2>2. Shape BY <2>1 DEF Init, Shape
  <2> QED BY <2>1, <2>2 DEF Init, Typed
<1>2. Cached BY DEF Init, Cached, FieldIdFresh
<1>3. CallTyped BY DEF Init, CallTyped, V!NoCall
<1>4. Holding BY OwnersFacts DEF Init, Holding, V!NoCall
<1>5. OwnBuffers BY OwnersFacts DEF Init, OwnBuffers
<1> QED BY <1>1, <1>2, <1>3, <1>4, <1>5 DEF Inv

-----------------------------------------------------------------------------
(* The values that the abstract specification sees *)

Handles == [h \in Mds |-> IF ref[h] = None THEN None ELSE Md(h)]
DebugValue == IF ref[Debug] # None /\ buf[Debug] = Caller
              THEN [MessageOf(Debug) EXCEPT !.payload = {<<"reference">>}]
              ELSE MessageOf(Debug)

\* What an owner of a message that stays as it is holds
LEMMA SameMessage ==
    ASSUME Inv, NEW s \in Owners \ Mds, SameMd(s), SameBuf(s)
    PROVE  MessageOf(s)' = MessageOf(s)
BY DEF Inv, Holding, SameMd, SameBuf, MessageOf, Md, Payload

LEMMA SameHandles ==
    ASSUME \A h \in Mds : SameMd(h)
    PROVE  Handles' = Handles
BY DEF SameMd, Handles, Md

LEMMA SameKept ==
    ASSUME Inv, \A e \in Entries : SameMd(e) /\ SameBuf(e)
    PROVE  [e \in Entries |-> MessageOf(e)]' = [e \in Entries |-> MessageOf(e)]
BY SameMessage, OwnersFacts

LEMMA SameDebug ==
    ASSUME Inv, SameMd(Debug), SameBuf(Debug)
    PROVE  DebugValue' = DebugValue
BY SameMessage, OwnersFacts DEF DebugValue, SameMd, SameBuf

-----------------------------------------------------------------------------
(* Handles *)

\* A call that gives handle h the metadata m, or none
LEMMA HandleStep ==
    ASSUME Inv, NEW h \in Mds, NEW m, V!Idle("client"),
           UNCHANGED <<conf, call, calls, flushes, out>>,
           Shape', mem'[Caller] = mem[Caller],
           \A t \in Owners : SameBuf(t) /\ fid'[t] = fid[t],
           \A t \in Owners \ {h} : SameMd(t),
           ref'[h] = None => m = None,
           ref'[h] # None => m \in V!Metadata /\ heap'[ref'[h]] = m
    PROVE  Inv' /\ V!SetHandle(h, m)
<1>1. Typed' BY TypedKept
<1>2. Cached' BY CachedKept, OwnersFacts DEF Inv, Cached
<1>3. CallTyped' BY DEF Inv, CallTyped
<1>4. Holding' BY OwnersFacts DEF Inv, Holding, SameMd, SameBuf, Payload
<1>5. OwnBuffers' BY OwnersFacts DEF Inv, OwnBuffers, SameBuf
<1>6. Handles' = [Handles EXCEPT ![h] = m]
  <2>1. (IF ref[h] = None THEN None ELSE Md(h))' = m BY DEF Md
  <2>2. \A g \in Mds \ {h} : ref'[g] = ref[g] /\ (ref[g] # None => Md(g)' = Md(g))
    BY OwnersFacts DEF Md, SameMd
  <2> QED BY <2>1, <2>2 DEF Handles
<1>7. MessageOf(Msg)' = MessageOf(Msg) /\ MessageOf(Cur)' = MessageOf(Cur)
  BY SameMessage, OwnersFacts
<1>8. [e \in Entries |-> MessageOf(e)]' = [e \in Entries |-> MessageOf(e)]
  BY SameKept, OwnersFacts
<1>9. DebugValue' = DebugValue BY SameDebug, OwnersFacts
<1>10. V!SetHandle(h, m)
  BY <1>6, <1>7, <1>8, <1>9 DEF V!SetHandle, V!control, Handles, DebugValue
<1> QED BY <1>1, <1>2, <1>3, <1>4, <1>5, <1>10 DEF Inv

LEMMA NewStep ==
    ASSUME Inv, NEW h \in Mds, New(h)
    PROVE  Inv' /\ V!Handle(h)
<1>1. PICK m : m = V!Empty OBVIOUS
<1>2. h \in Owners /\ m \in V!Metadata BY <1>1, OwnersFacts DEF V!Empty, V!Metadata
<1>3. /\ V!Idle("client") /\ ref[h] = None
      /\ UNCHANGED <<conf, call, calls, flushes, fid, buf, mem, out>>
      /\ NewMetadata(h, m)
  BY <1>1 DEF New, HandleCall, NewMetadata
<1>4. /\ ref' \in [Owners -> Objs \cup {None}] /\ heap' = [o \in Objs |-> heap'[o]]
      /\ ref'[h] \in Objs /\ heap'[ref'[h]] = m
      /\ \A t \in Owners \ {h} : SameMd(t)
  BY <1>2, <1>3, NewMetadataAlone DEF Inv, Typed
<1>5. Shape' BY <1>3, <1>4 DEF Shape, Inv, Typed
<1>6. Inv' /\ V!SetHandle(h, m)
  BY <1>2, <1>3, <1>4, <1>5, HandleStep, OwnersAssumption DEF SameBuf
<1>7. Handles[h] = None BY <1>3 DEF Handles
<1> QED BY <1>1, <1>6, <1>7 DEF V!Handle, V!SetHandle, Handles

LEMMA CopyStep ==
    ASSUME Inv, NEW h \in Mds, NEW g \in Mds, Copy(h, g)
    PROVE  Inv' /\ V!Handle(h)
<1>1. PICK m : m = Md(g) OBVIOUS
<1>2. h \in Owners /\ g \in Owners BY OwnersFacts
<1>3. /\ V!Idle("client") /\ ref[h] = None /\ ref[g] # None
      /\ UNCHANGED <<conf, call, calls, flushes, fid, buf, heap, mem, out>>
      /\ ref' = [ref EXCEPT ![h] = ref[g]]
  BY DEF Copy, HandleCall, CopyOf
<1>4. m \in V!Metadata BY <1>1, <1>2, <1>3 DEF Inv, Typed
<1>5. Shape' BY <1>2, <1>3 DEF Shape, Inv, Typed
<1>6. ref'[h] = ref[g] /\ heap'[ref'[h]] = m /\ \A t \in Owners \ {h} : SameMd(t)
  BY <1>1, <1>2, <1>3 DEF Inv, Typed, Shape, SameMd, Md
<1>7. Inv' /\ V!SetHandle(h, m)
  BY <1>3, <1>4, <1>5, <1>6, HandleStep DEF SameBuf
<1>8. Handles[h] = None /\ Handles[g] # None /\ m = Handles[g]
  BY <1>1, <1>3, <1>4, NoneAssumption DEF Handles
<1> QED BY <1>7, <1>8 DEF V!Handle, V!SetHandle, Handles

LEMMA DeleteStep ==
    ASSUME Inv, NEW h \in Mds, Delete(h)
    PROVE  Inv' /\ V!Handle(h)
<1>1. PICK S : S = {h} OBVIOUS
<1>2. h \in Owners /\ S \in SUBSET Owners BY <1>1, OwnersFacts
<1>3. /\ V!Idle("client") /\ ref[h] # None
      /\ UNCHANGED <<conf, call, calls, flushes, out>>
      /\ Drop(S)
  BY <1>1 DEF Delete, Drop, Without
<1>4. /\ Shape' /\ mem'[Caller] = mem[Caller]
      /\ \A t \in S : ref'[t] = None /\ buf'[t] = None /\ fid'[t] = None
      /\ \A t \in Owners \ S : SameMd(t) /\ SameBuf(t) /\ fid'[t] = fid[t]
  BY <1>2, <1>3, DropAlone DEF Inv, Typed
<1>5. SameBuf(h) /\ fid'[h] = fid[h]
  BY <1>1, <1>4, OwnersFacts DEF Inv, Holding, Cached, SameBuf
<1>6. PICK m : m = None OBVIOUS
<1>7. Inv' /\ V!SetHandle(h, m)
  BY <1>1, <1>3, <1>4, <1>5, <1>6, HandleStep
<1>8. Handles[h] # None BY <1>2, <1>3, NoneAssumption DEF Handles, Inv, Typed
<1> QED BY <1>6, <1>7, <1>8 DEF V!Handle, V!SetHandle, Handles

LEMMA SetStep ==
    ASSUME Inv, NEW h \in Mds, NEW q \in Params, Set(h, q)
    PROVE  Inv' /\ V!Handle(h)
<1>1. PICK m : m = [Md(h) EXCEPT !.param = q] OBVIOUS
<1>2. h \in Owners BY OwnersFacts
<1>3. /\ V!Idle("client") /\ ref[h] # None
      /\ UNCHANGED <<conf, call, calls, flushes, fid, buf, mem, out>>
      /\ Modify(h, {h}, TRUE, m)
  BY <1>1 DEF Set, HandleCall, Modify
<1>4. m \in V!Metadata BY <1>1, <1>2, <1>3 DEF Inv, Typed, V!Metadata
<1>5. /\ ref' \in [Owners -> Objs \cup {None}] /\ heap' = [o \in Objs |-> heap'[o]]
      /\ ref'[h] \in Objs /\ heap'[ref'[h]] = m
      /\ \A t \in Owners \ {h} : SameMd(t)
  BY <1>2, <1>3, ModifySelf DEF Inv, Typed
<1>6. Shape' BY <1>3, <1>5 DEF Shape, Inv, Typed
<1>7. Inv' /\ V!SetHandle(h, m)
  BY <1>3, <1>4, <1>5, <1>6, HandleStep, OwnersAssumption DEF SameBuf
<1>8. Handles[h] # None /\ m = [Handles[h] EXCEPT !.param = q]
  BY <1>1, <1>2, <1>3, NoneAssumption DEF Handles, Inv, Typed
<1> QED BY <1>7, <1>8 DEF V!Handle, V!SetHandle, Handles

LEMMA OverwriteStep ==
    ASSUME Inv, NEW d \in Data, Overwrite(d)
    PROVE  Inv' /\ V!Overwrite
<1>1. /\ call = V!NoCall /\ mem' = [mem EXCEPT ![Caller] = V!Written(d)]
      /\ UNCHANGED <<conf, call, calls, flushes, ref, flag, fid, buf, heap, out>>
  BY DEF Overwrite, V!Idle, pointers
<1>2. Shape' /\ mem'[Caller] = V!Written(d) /\ \A b \in Bufs : mem'[b] = mem[b]
  BY <1>1, OwnersAssumption DEF Inv, Typed, Shape
<1>3. \A s \in Owners : SameMd(s) BY <1>1 DEF SameMd
<1>4. \A s \in Owners : buf[s] # Caller => SameBuf(s)
  BY <1>1, <1>2 DEF SameBuf, Inv, Typed, Shape
<1>5. \A s \in {Msg, Cur} \cup Entries : buf[s] # Caller
  BY <1>1, OwnersFacts, OwnersAssumption DEF Inv, Holding, OwnBuffers, V!NoCall
<1>6. Inv'
  <2>1. V!Written(d) \in Payloads BY DEF Words, Payloads, V!Written
  <2>2. Typed' BY <1>1, <1>2, <1>4, <2>1 DEF Inv, Typed, Md, Payload, SameBuf
  <2>3. Cached' BY <1>1 DEF Inv, Cached, FieldIdFresh, Md
  <2>4. CallTyped' BY <1>1 DEF Inv, CallTyped
  <2>5. Holding' BY <1>1, <1>4, <1>5, OwnersFacts DEF Inv, Holding, V!NoCall
  <2>6. OwnBuffers' BY <1>1 DEF Inv, OwnBuffers
  <2> QED BY <2>2, <2>3, <2>4, <2>5, <2>6 DEF Inv
<1>7. Handles' = Handles BY <1>3, SameHandles, OwnersFacts
<1>8. MessageOf(Msg)' = MessageOf(Msg) /\ MessageOf(Cur)' = MessageOf(Cur)
  BY <1>3, <1>4, <1>5, SameMessage, OwnersFacts
<1>9. [e \in Entries |-> MessageOf(e)]' = [e \in Entries |-> MessageOf(e)]
  BY <1>3, <1>4, <1>5, SameKept, OwnersFacts
<1>10. DebugValue' = DebugValue
  <2>1. CASE buf[Debug] = Caller
    BY <1>1, <2>1 DEF DebugValue, MessageOf, Md, Payload
  <2>2. CASE buf[Debug] # Caller
    BY <1>3, <1>4, <2>2, SameDebug, OwnersFacts
  <2> QED BY <2>1, <2>2
<1>11. V!Idle("client") /\ mem'[Caller] \in {V!Written(x) : x \in Data} BY <1>2 DEF Overwrite
<1> QED BY <1>1, <1>6, <1>7, <1>8, <1>9, <1>10, <1>11
        DEF V!Overwrite, V!control, Handles, DebugValue

-----------------------------------------------------------------------------
(* Calls and messages that begin *)

\* Dispatch gets a message of metadata m and payload d.
LEMMA BeginStep ==
    ASSUME Inv, NEW tag \in V!Tags, NEW src, NEW m \in V!Metadata, NEW d \in Payloads,
           call = V!NoCall, V!Begin(tag, src), tag # "Field" => d = {},
           Shape', mem'[Caller] = mem[Caller],
           fid'[Msg] \in {None, m}, \A t \in Owners \ {Msg} : fid'[t] = fid[t],
           \A t \in Owners \ (Mds \cup {Msg}) : SameMd(t),
           \A h \in Mds : SameMd(h) \/ heap'[ref'[h]] \in V!Metadata,
           \A t \in Owners \ {Msg} : SameBuf(t),
           \A e \in Entries : buf[e] # None => buf[e] # buf'[Msg],
           ref'[Msg] # None, heap'[ref'[Msg]] = m,
           buf'[Msg] # None, mem'[buf'[Msg]] = d
    PROVE  /\ Inv'
           /\ MessageOf(Msg)' = [md |-> m, payload |-> d]
           /\ MessageOf(Cur)' = MessageOf(Cur)
           /\ [e \in Entries |-> MessageOf(e)]' = [e \in Entries |-> MessageOf(e)]
           /\ DebugValue' = DebugValue
<1>1. /\ call' = [tag |-> tag, src |-> src, plan |-> None, rest |-> PlanOrder, todo |-> <<>>]
      /\ call'.tag = tag /\ call'.plan = None /\ call'.rest = PlanOrder
  BY DEF V!Begin
<1>2. call' # V!NoCall BY <1>1, NoneAssumption DEF V!NoCall
<1>3. ref[Msg] = None /\ ref[Cur] = None /\ buf[Cur] = None
  BY OwnersFacts DEF Inv, Holding, V!NoCall
<1>4. Typed' BY TypedKept, OwnersFacts
<1>5. Cached'
  <2>1. \A s \in Owners \ {Msg, Cur, Debug} : fid'[s] = None BY OwnersFacts DEF Inv, Cached
  <2>2. \A s \in Owners : \/ SameMd(s) /\ fid'[s] = fid[s]
                          \/ fid'[s] = None
                          \/ ref'[s] # None /\ fid'[s] = heap'[ref'[s]]
    BY <2>1, OwnersFacts
  <2> QED BY <2>1, <2>2, CachedKept
<1>6. CallTyped' BY <1>1, PipelineAssumption DEF CallTyped
<1>7. Holding'
  <2>1. ref'[Cur] = None /\ \A s \in Owners \ (Mds \cup {Msg}) : ref'[s] = ref[s] /\ buf'[s] = buf[s]
    BY <1>3, OwnersFacts DEF SameMd, SameBuf
  <2>2. \A h \in Mds : buf'[h] = None BY OwnersFacts DEF Inv, Holding, SameBuf
  <2>3. \A s \in Owners \ Mds : ref'[s] = None <=> buf'[s] = None
    BY <2>1 DEF Inv, Holding
  <2> QED BY <1>1, <1>2, <2>1, <2>2, <2>3 DEF Holding, Payload
<1>8. OwnBuffers' BY OwnersFacts DEF Inv, OwnBuffers, SameBuf
<1>9. MessageOf(Msg)' = [md |-> m, payload |-> d] BY DEF MessageOf, Md, Payload
<1>10. MessageOf(Cur)' = MessageOf(Cur) BY SameMessage, OwnersFacts
<1>11. [e \in Entries |-> MessageOf(e)]' = [e \in Entries |-> MessageOf(e)]
  BY SameKept, OwnersFacts
<1>12. DebugValue' = DebugValue BY SameDebug, OwnersFacts
<1> QED BY <1>4, <1>5, <1>6, <1>7, <1>8, <1>9, <1>10, <1>11, <1>12 DEF Inv

LEMMA UncachedMessage ==
    ASSUME Inv, call = V!NoCall
    PROVE  fid[Msg] = None
BY OwnersFacts DEF Inv, Holding, Cached, FieldIdFresh

LEMMA WriteFieldStep ==
    ASSUME Inv, NEW h \in Mds, NEW moved \in BOOLEAN, WriteField(h, moved)
    PROVE  Inv' /\ V!WriteField(h)
<1>1. PICK m : m = V!Marked(Md(h), "raw") OBVIOUS
<1>2. PICK d : d = mem[Caller] OBVIOUS
<1>3. PICK S : S = {h, Msg} OBVIOUS
<1>4. h \in Owners /\ h # Msg /\ S \in SUBSET Owners /\ h \in S BY <1>3, OwnersFacts
<1>5. /\ V!Idle("client") /\ call = V!NoCall /\ ref[h] # None
      /\ V!Begin("Field", None) /\ UNCHANGED <<fid, out>>
      /\ Modify(h, S, TRUE, m)
  <2>1. Modify(h, {h, Msg}, TRUE, V!Marked(Md(h), "raw")) BY DEF WriteField
  <2>2. Modify(h, S, TRUE, m) BY <1>1, <1>3, <2>1 DEF Modify
  <2> QED BY <2>2 DEF WriteField, V!Idle
<1>6. m \in V!Metadata BY <1>1, <1>4, <1>5 DEF Inv, Typed, V!Metadata, V!Marked
<1>7. d \in Payloads BY <1>2 DEF Inv, Typed, Words, Payloads, V!Written
<1>8. /\ ref' \in [Owners -> Objs \cup {None}] /\ heap' = [o \in Objs |-> heap'[o]]
      /\ \A t \in S : ref'[t] \in Objs /\ heap'[ref'[t]] = m
      /\ \A t \in Owners \ S : SameMd(t)
  BY <1>4, <1>5, ModifyAlone DEF Inv, Typed
<1>9. /\ buf' \in [Owners -> Bufs \cup {Caller, None}]
      /\ mem' = [b \in Bufs \cup {Caller} |-> mem'[b]] /\ mem'[Caller] = mem[Caller]
      /\ buf'[Msg] # None /\ mem'[buf'[Msg]] = d
      /\ \A t \in Owners \ {Msg} : SameBuf(t)
      /\ \A e \in Entries : buf[e] # None => buf[e] # buf'[Msg]
  <2>1. CASE moved
    <3>1. NewBuffer(Msg, d) BY <1>2, <2>1 DEF WriteField, NewBuffer
    <3>2. Shape /\ Msg \in Owners /\ \A e \in Entries : e \in Owners \ {Msg}
      BY OwnersFacts DEF Inv, Typed
    <3>3. /\ buf' \in [Owners -> Bufs \cup {Caller, None}]
          /\ mem' = [b \in Bufs \cup {Caller} |-> mem'[b]]
          /\ buf'[Msg] \in Bufs /\ mem'[buf'[Msg]] = d /\ mem'[Caller] = mem[Caller]
          /\ \A t \in Owners \ {Msg} : SameBuf(t) /\ buf[t] # buf'[Msg]
      BY <3>1, <3>2, NewBufferAlone
    <3> QED BY <3>2, <3>3, OwnersAssumption
  <2>2. CASE ~ moved
    <3>1. buf' = [buf EXCEPT ![Msg] = Caller] /\ mem' = mem BY <2>2 DEF WriteField
    <3> QED BY <1>2, <3>1, OwnersFacts, OwnersAssumption
            DEF Inv, Typed, Shape, SameBuf, OwnBuffers
  <2> QED BY <2>1, <2>2
<1>10. Shape' BY <1>5, <1>8, <1>9 DEF Shape, Inv, Typed
<1>11. ref'[Msg] # None /\ heap'[ref'[Msg]] = m /\ ref'[h] # None /\ heap'[ref'[h]] = m
  BY <1>3, <1>8, OwnersAssumption
<1>12. /\ \A t \in Owners \ (Mds \cup {Msg}) : SameMd(t)
       /\ \A g \in Mds : SameMd(g) \/ heap'[ref'[g]] \in V!Metadata
  BY <1>3, <1>4, <1>6, <1>8, <1>11, OwnersFacts
<1>13. "Field" \in V!Tags BY DEF V!Tags
<1>14. /\ Inv'
       /\ MessageOf(Msg)' = [md |-> m, payload |-> d]
       /\ MessageOf(Cur)' = MessageOf(Cur)
       /\ [e \in Entries |-> MessageOf(e)]' = [e \in Entries |-> MessageOf(e)]
       /\ DebugValue' = DebugValue
  BY <1>5, <1>6, <1>7, <1>9, <1>10, <1>11, <1>12, <1>13, UncachedMessage, BeginStep
<1>15. Handles[h] # None /\ m = V!Marked(Handles[h], "raw")
  BY <1>1, <1>4, <1>5, NoneAssumption DEF Handles, Inv, Typed
<1>16. Handles' = [Handles EXCEPT ![h] = m]
  <2>1. (IF ref[h] = None THEN None ELSE Md(h))' = m BY <1>11 DEF Md
  <2>2. \A g \in Mds \ {h} : ref'[g] = ref[g] /\ (ref[g] # None => Md(g)' = Md(g))
    BY <1>3, <1>8, OwnersFacts DEF Md, SameMd
  <2> QED BY <2>1, <2>2 DEF Handles
<1>17. Handles'[h] = m BY <1>16 DEF Handles
<1>18. d = mem[Caller] BY <1>2
<1> QED BY <1>5, <1>9, <1>14, <1>15, <1>16, <1>17, <1>18
        DEF V!WriteField, V!Message, Handles, DebugValue

LEMMA SignalStep ==
    ASSUME Inv, NEW h \in Mds, NEW tag \in {"Flush", "Notification"}, Signal(h, tag)
    PROVE  Inv' /\ V!Signal(h, tag)
<1>1. PICK m : m = Md(h) OBVIOUS
<1>2. PICK d : d = {} OBVIOUS
<1>3. h \in Owners /\ h # Msg /\ Msg \in Owners BY OwnersFacts
<1>4. /\ V!Idle("client") /\ call = V!NoCall /\ ref[h] # None
      /\ V!Begin(tag, None) /\ UNCHANGED <<heap, fid, out>>
      /\ ref' = [ref EXCEPT ![Msg] = ref[h]]
      /\ NewBuffer(Msg, d)
  BY <1>2 DEF Signal, NewBuffer, CopyOf, V!Idle
<1>5. m \in V!Metadata /\ d \in Payloads
  <2>1. m \in V!Metadata BY <1>1, <1>3, <1>4 DEF Inv, Typed
  <2>2. d \in Payloads BY <1>2 DEF Payloads
  <2> QED BY <2>1, <2>2
<1>6. /\ buf' \in [Owners -> Bufs \cup {Caller, None}]
      /\ mem' = [b \in Bufs \cup {Caller} |-> mem'[b]]
      /\ buf'[Msg] \in Bufs /\ mem'[buf'[Msg]] = d /\ mem'[Caller] = mem[Caller]
      /\ \A t \in Owners \ {Msg} : SameBuf(t) /\ buf[t] # buf'[Msg]
  BY <1>3, <1>4, NewBufferAlone DEF Inv, Typed
<1>7. Shape' BY <1>3, <1>4, <1>6 DEF Shape, Inv, Typed
<1>8. /\ ref'[Msg] # None /\ heap'[ref'[Msg]] = m
      /\ \A t \in Owners \ {Msg} : SameMd(t)
  BY <1>1, <1>3, <1>4 DEF Inv, Typed, Shape, Md, SameMd
<1>9. buf'[Msg] # None /\ tag \in V!Tags BY <1>6, OwnersAssumption DEF V!Tags
<1>10. \A e \in Entries : buf[e] # None => buf[e] # buf'[Msg] BY <1>6, OwnersFacts
<1>11. /\ \A t \in Owners \ (Mds \cup {Msg}) : SameMd(t)
       /\ \A g \in Mds : SameMd(g)
  BY <1>8, OwnersFacts
<1>12. /\ Inv'
       /\ MessageOf(Msg)' = [md |-> m, payload |-> d]
       /\ MessageOf(Cur)' = MessageOf(Cur)
       /\ [e \in Entries |-> MessageOf(e)]' = [e \in Entries |-> MessageOf(e)]
       /\ DebugValue' = DebugValue
  BY <1>2, <1>4, <1>5, <1>6, <1>7, <1>8, <1>9, <1>10, <1>11, UncachedMessage, BeginStep
<1>13. Handles' = Handles BY <1>11, SameHandles
<1>14. Handles[h] # None /\ m = Handles[h]
  BY <1>1, <1>4, <1>5, NoneAssumption DEF Handles
<1> QED BY <1>2, <1>4, <1>6, <1>12, <1>13, <1>14
        DEF V!Signal, V!Message, Handles, DebugValue

LEMMA ReceiveStep ==
    ASSUME Inv, NEW tag \in V!Tags, NEW src \in Parts, NEW q \in Params \cup {None},
           Receive(tag, src, q)
    PROVE  Inv' /\ V!Receive(tag, src, q)
<1>1. PICK m : m = V!Decoded(tag, q) OBVIOUS
<1>2. PICK d : d = V!Contents(tag, src, q) OBVIOUS
<1>3. Msg \in Owners BY OwnersFacts
<1>4. /\ V!Idle("server") /\ call = V!NoCall /\ q \in V!Incoming(tag)
      /\ V!Begin(tag, src) /\ UNCHANGED out
      /\ NewMetadata(Msg, m) /\ NewBuffer(Msg, d) /\ fid' = [fid EXCEPT ![Msg] = m]
  BY <1>1, <1>2 DEF Receive, NewBuffer, NewMetadata, V!Idle
<1>5. m \in V!Metadata /\ d \in Payloads /\ (tag # "Field" => d = {})
  <2>1. m \in V!Metadata BY <1>1 DEF V!Decoded, V!Metadata
  <2>2. CASE tag = "Field"
    <3>1. q \in Params /\ d = {<<src, q>>} BY <1>2, <1>4, <2>2 DEF V!Contents, V!Part, V!Incoming
    <3> QED BY <2>1, <2>2, <3>1 DEF Payloads, Words
  <2>3. CASE tag # "Field"
    <3>1. d = {} BY <1>2, <2>3 DEF V!Contents
    <3> QED BY <2>1, <3>1 DEF Payloads
  <2> QED BY <2>2, <2>3
<1>6. /\ ref' \in [Owners -> Objs \cup {None}] /\ heap' = [o \in Objs |-> heap'[o]]
      /\ ref'[Msg] \in Objs /\ heap'[ref'[Msg]] = m
      /\ \A t \in Owners \ {Msg} : SameMd(t)
  BY <1>3, <1>4, NewMetadataAlone DEF Inv, Typed
<1>7. /\ buf' \in [Owners -> Bufs \cup {Caller, None}]
      /\ mem' = [b \in Bufs \cup {Caller} |-> mem'[b]]
      /\ buf'[Msg] \in Bufs /\ mem'[buf'[Msg]] = d /\ mem'[Caller] = mem[Caller]
      /\ \A t \in Owners \ {Msg} : SameBuf(t) /\ buf[t] # buf'[Msg]
  BY <1>3, <1>4, NewBufferAlone DEF Inv, Typed
<1>8. Shape' BY <1>4, <1>6, <1>7 DEF Shape, Inv, Typed
<1>9. /\ buf'[Msg] # None /\ ref'[Msg] # None
      /\ fid'[Msg] = m /\ \A t \in Owners \ {Msg} : fid'[t] = fid[t]
  BY <1>3, <1>4, <1>6, <1>7, OwnersAssumption DEF Inv, Typed, Shape
<1>10. \A e \in Entries : buf[e] # None => buf[e] # buf'[Msg] BY <1>7, OwnersFacts
<1>11. /\ \A t \in Owners \ (Mds \cup {Msg}) : SameMd(t)
       /\ \A g \in Mds : SameMd(g)
  BY <1>6, OwnersFacts
<1>12. /\ Inv'
       /\ MessageOf(Msg)' = [md |-> m, payload |-> d]
       /\ MessageOf(Cur)' = MessageOf(Cur)
       /\ [e \in Entries |-> MessageOf(e)]' = [e \in Entries |-> MessageOf(e)]
       /\ DebugValue' = DebugValue
  BY <1>4, <1>5, <1>6, <1>7, <1>8, <1>9, <1>10, <1>11, BeginStep
<1>13. Handles' = Handles BY <1>11, SameHandles
<1> QED BY <1>1, <1>2, <1>4, <1>7, <1>12, <1>13
        DEF V!Receive, V!Message, Handles, DebugValue

-----------------------------------------------------------------------------
(* The control of a call *)

\* While an action is at work, dispatch and the plan have a message.
LEMMA AtFacts ==
    ASSUME Inv, NEW kind, V!At(kind)
    PROVE  /\ call # V!NoCall /\ call.plan \in Plans /\ call.plan # None
           /\ ref[Cur] # None /\ buf[Cur] # None
           /\ Md(Cur) \in V!Metadata /\ Payload(Cur) \in Payloads
           /\ MessageOf(Cur) = [md |-> Md(Cur), payload |-> Payload(Cur)]
<1>1. call.plan # None BY DEF V!At
<1>2. call # V!NoCall /\ call.plan \in Plans BY <1>1 DEF V!NoCall, Inv, CallTyped
<1>3. ref[Cur] # None /\ buf[Cur] # None BY <1>1, OwnersFacts DEF Inv, Holding
<1>4. Md(Cur) \in V!Metadata /\ Payload(Cur) \in Payloads
  BY <1>3, OwnersFacts DEF Inv, Typed
<1> QED BY <1>1, <1>2, <1>3, <1>4 DEF MessageOf

LEMMA ToNextActionFacts ==
    ASSUME Inv, call # V!NoCall, V!HandsOn
    PROVE  /\ CallTyped' /\ call' # V!NoCall
           /\ call'.plan = call.plan /\ call'.tag = call.tag
<1>1. call' = [tag |-> call.tag, src |-> call.src, plan |-> call.plan,
               rest |-> call.rest, todo |-> Tail(call.todo)]
  BY DEF V!HandsOn, Inv, CallTyped
<1>2. call'.plan = call.plan /\ call'.tag = call.tag /\ call'.rest = call.rest BY <1>1
<1>3. call' # V!NoCall BY <1>2, NoneAssumption DEF V!NoCall, Inv, CallTyped
<1> QED BY <1>1, <1>2, <1>3 DEF Inv, CallTyped

LEMMA PlanEndsFacts ==
    ASSUME Inv, call # V!NoCall, V!Returns
    PROVE  /\ CallTyped' /\ call' # V!NoCall
           /\ call'.plan = None /\ call'.tag = call.tag
<1>1. call' = [tag |-> call.tag, src |-> call.src, plan |-> None,
               rest |-> call.rest, todo |-> <<>>]
  BY DEF V!Returns, Inv, CallTyped
<1>2. call'.plan = None /\ call'.tag = call.tag /\ call'.rest = call.rest BY <1>1
<1>3. call' # V!NoCall BY <1>2, NoneAssumption DEF V!NoCall, Inv, CallTyped
<1> QED BY <1>1, <1>2, <1>3 DEF Inv, CallTyped

LEMMA ToNextPlanFacts ==
    ASSUME Inv, V!AtNextPlan, V!ToNextPlan
    PROVE  /\ CallTyped' /\ call' # V!NoCall
           /\ call'.plan \in Plans /\ call'.plan # None /\ call'.tag = call.tag
           /\ Head(call.rest) \in Plans
<1>1. call # V!NoCall /\ call.rest # <<>> /\ call.rest \in Seq(Plans)
  BY DEF V!AtNextPlan, Inv, CallTyped
<1>2. Head(call.rest) \in Plans /\ Tail(call.rest) \in Seq(Plans) BY <1>1
<1>3. call' = [tag |-> call.tag, src |-> call.src, plan |-> Head(call.rest),
               rest |-> Tail(call.rest), todo |-> conf.chain[Head(call.rest)]]
  BY DEF V!ToNextPlan, Inv, CallTyped
<1>4. /\ call'.plan = Head(call.rest) /\ call'.tag = call.tag
      /\ call'.rest = Tail(call.rest)
  BY <1>3
<1>5. call' # V!NoCall BY <1>1, <1>4, NoneAssumption DEF V!NoCall, Inv, CallTyped
<1>6. call'.plan # None BY <1>2, <1>4, PipelineAssumption
<1> QED BY <1>1, <1>2, <1>3, <1>4, <1>5, <1>6 DEF Inv, CallTyped

-----------------------------------------------------------------------------
(* The message of a plan *)

\* The plan gets a message of metadata m and payload d, or changes its own to that.
LEMMA CurGets ==
    ASSUME Inv, NEW m \in V!Metadata, NEW d \in Payloads,
           CallTyped', call # V!NoCall, call' # V!NoCall, call'.plan # None,
           call'.tag = call.tag, call.tag # "Field" => d = {},
           Shape', mem'[Caller] = mem[Caller],
           \A t \in Owners \ {Cur} : SameMd(t) /\ SameBuf(t) /\ fid'[t] = fid[t],
           \A e \in Entries : buf[e] # None => buf[e] # buf'[Cur],
           ref'[Cur] # None, heap'[ref'[Cur]] = m, buf'[Cur] # None, mem'[buf'[Cur]] = d,
           fid'[Cur] \in {None, m}
    PROVE  /\ Inv'
           /\ MessageOf(Cur)' = [md |-> m, payload |-> d]
           /\ Handles' = Handles
           /\ MessageOf(Msg)' = MessageOf(Msg)
           /\ [e \in Entries |-> MessageOf(e)]' = [e \in Entries |-> MessageOf(e)]
           /\ DebugValue' = DebugValue
<1>1. Typed' BY TypedKept
<1>2. Cached'
  <2>1. \A s \in Owners \ {Msg, Cur, Debug} : fid'[s] = None BY DEF Inv, Cached
  <2> QED BY <2>1, CachedKept
<1>3. Holding'
  <2>1. \A s \in Owners \ {Cur} : ref'[s] = ref[s] /\ buf'[s] = buf[s] BY DEF SameMd, SameBuf
  <2>2. ref'[Msg] # None /\ \A h \in Mds : buf'[h] = None
    BY <2>1, OwnersFacts DEF Inv, Holding
  <2>3. \A s \in Owners \ Mds : ref'[s] = None <=> buf'[s] = None
    BY <2>1, OwnersFacts DEF Inv, Holding
  <2>4. call.tag # "Field" => Payload(Msg)' = {} /\ Payload(Cur)' = {}
    BY <2>2, OwnersFacts DEF Inv, Holding, Payload, SameBuf, SameMd
  <2> QED BY <2>2, <2>3, <2>4 DEF Holding
<1>4. OwnBuffers' BY OwnersFacts DEF Inv, OwnBuffers, SameBuf
<1>5. MessageOf(Cur)' = [md |-> m, payload |-> d] BY DEF MessageOf, Md, Payload
<1>6. Handles' = Handles BY SameHandles, OwnersFacts
<1>7. MessageOf(Msg)' = MessageOf(Msg) BY SameMessage, OwnersFacts
<1>8. [e \in Entries |-> MessageOf(e)]' = [e \in Entries |-> MessageOf(e)]
  BY SameKept, OwnersFacts
<1>9. DebugValue' = DebugValue BY SameDebug, OwnersFacts
<1> QED BY <1>1, <1>2, <1>3, <1>4, <1>5, <1>6, <1>7, <1>8, <1>9 DEF Inv

\* The plan gives its message up, dispatch keeps its own.
LEMMA CurGone ==
    ASSUME Inv, CallTyped', call # V!NoCall, call' # V!NoCall, call'.plan = None,
           call'.tag = call.tag, Shape', mem'[Caller] = mem[Caller],
           \A t \in Owners \ {Cur} : SameMd(t) /\ SameBuf(t) /\ fid'[t] = fid[t],
           ref'[Cur] = None, buf'[Cur] = None, fid'[Cur] = None
    PROVE  /\ Inv'
           /\ MessageOf(Cur)' = None
           /\ Handles' = Handles
           /\ MessageOf(Msg)' = MessageOf(Msg)
           /\ [e \in Entries |-> MessageOf(e)]' = [e \in Entries |-> MessageOf(e)]
           /\ DebugValue' = DebugValue
<1>1. Typed' BY TypedKept
<1>2. Cached'
  <2>1. \A s \in Owners \ {Msg, Cur, Debug} : fid'[s] = None BY DEF Inv, Cached
  <2> QED BY <2>1, CachedKept
<1>3. Holding'
  <2>1. \A s \in Owners \ {Cur} : ref'[s] = ref[s] /\ buf'[s] = buf[s] BY DEF SameMd, SameBuf
  <2>2. ref'[Msg] # None /\ \A h \in Mds : buf'[h] = None
    BY <2>1, OwnersFacts DEF Inv, Holding
  <2>3. \A s \in Owners \ Mds : ref'[s] = None <=> buf'[s] = None
    BY <2>1, OwnersFacts DEF Inv, Holding
  <2>4. call.tag # "Field" => Payload(Msg)' = {}
    BY <2>2, OwnersFacts DEF Inv, Holding, Payload, SameBuf, SameMd
  <2> QED BY <2>2, <2>3, <2>4 DEF Holding
<1>4. OwnBuffers' BY OwnersFacts DEF Inv, OwnBuffers, SameBuf
<1>5. MessageOf(Cur)' = None BY DEF MessageOf
<1>6. Handles' = Handles BY SameHandles, OwnersFacts
<1>7. MessageOf(Msg)' = MessageOf(Msg) BY SameMessage, OwnersFacts
<1>8. [e \in Entries |-> MessageOf(e)]' = [e \in Entries |-> MessageOf(e)]
  BY SameKept, OwnersFacts
<1>9. DebugValue' = DebugValue BY SameDebug, OwnersFacts
<1> QED BY <1>1, <1>2, <1>3, <1>4, <1>5, <1>6, <1>7, <1>8, <1>9 DEF Inv

\* The call is over, returned or thrown: neither holds a message any more.
LEMMA BothGone ==
    ASSUME Inv, call' = V!NoCall, NEW S \in SUBSET {Msg, Cur}, Drop(S),
           Msg \in S, Cur \in S \/ call.plan = None
    PROVE  /\ Inv' /\ mem'[Caller] = mem[Caller]
           /\ MessageOf(Msg)' = None /\ MessageOf(Cur)' = None
           /\ Handles' = Handles
           /\ [e \in Entries |-> MessageOf(e)]' = [e \in Entries |-> MessageOf(e)]
           /\ DebugValue' = DebugValue
<1>1. S \in SUBSET Owners BY OwnersFacts
<1>2. /\ Shape' /\ mem'[Caller] = mem[Caller]
      /\ \A t \in S : ref'[t] = None /\ buf'[t] = None /\ fid'[t] = None
      /\ \A t \in Owners \ S : SameMd(t) /\ SameBuf(t) /\ fid'[t] = fid[t]
  BY <1>1, DropAlone DEF Inv, Typed
<1>3. \A t \in Owners \ {Msg, Cur} : SameMd(t) /\ SameBuf(t) /\ fid'[t] = fid[t]
  BY <1>2
<1>4. /\ ref'[Msg] = None /\ buf'[Msg] = None /\ fid'[Msg] = None
      /\ ref'[Cur] = None /\ buf'[Cur] = None
      /\ fid'[Cur] = None \/ (SameMd(Cur) /\ fid'[Cur] = fid[Cur])
  BY <1>2, OwnersFacts DEF Inv, Holding, SameMd, SameBuf
<1>5. Typed' BY <1>2, <1>3, <1>4, TypedKept
<1>6. Cached'
  <2>1. \A s \in Owners \ {Msg, Cur, Debug} : fid'[s] = None BY <1>3, <1>4 DEF Inv, Cached
  <2> QED BY <1>3, <1>4, <2>1, CachedKept
<1>7. CallTyped' BY DEF CallTyped, V!NoCall
<1>8. Holding'
  <2>1. \A s \in Owners \ {Msg, Cur} : ref'[s] = ref[s] /\ buf'[s] = buf[s]
    BY <1>3 DEF SameMd, SameBuf
  <2>2. call'.plan = None BY DEF V!NoCall
  <2> QED BY <1>4, <2>1, <2>2, OwnersFacts DEF Inv, Holding
<1>9. OwnBuffers' BY <1>3, <1>4, OwnersFacts DEF Inv, OwnBuffers, SameBuf
<1>10. MessageOf(Msg)' = None /\ MessageOf(Cur)' = None BY <1>4 DEF MessageOf
<1>11. Handles' = Handles BY <1>3, SameHandles, OwnersFacts
<1>12. [e \in Entries |-> MessageOf(e)]' = [e \in Entries |-> MessageOf(e)]
  BY <1>3, SameKept, OwnersFacts
<1>13. DebugValue' = DebugValue BY <1>3, SameDebug, OwnersFacts
<1> QED BY <1>2, <1>5, <1>6, <1>7, <1>8, <1>9, <1>10, <1>11, <1>12, <1>13 DEF Inv

-----------------------------------------------------------------------------
(* Dispatch *)

LEMMA NextPlanStep ==
    ASSUME Inv, NextPlan
    PROVE  Inv' /\ V!NextPlan
<1>n. PICK named : named = (call.tag = "Flush" /\ conf.role = "client") OBVIOUS
<1>1. PICK m : m = IF named THEN [Md(Msg) EXCEPT !.clientPlanName = Head(call.rest)]
                   ELSE Md(Msg)
  OBVIOUS
<1>2. PICK d : d = Payload(Msg) OBVIOUS
<1>3. /\ V!AtNextPlan /\ V!ToNextPlan /\ call # V!NoCall
      /\ buf' = [buf EXCEPT ![Cur] = buf[Msg]] /\ UNCHANGED <<mem, out>>
  BY DEF NextPlan, CopyOf, V!AtNextPlan
<1>4. /\ CallTyped' /\ call' # V!NoCall
      /\ call'.plan \in Plans /\ call'.plan # None /\ call'.tag = call.tag
      /\ Head(call.rest) \in Plans
  BY <1>3, ToNextPlanFacts
<1>5. ref[Msg] # None /\ buf[Msg] # None BY <1>3, OwnersFacts DEF Inv, Holding
<1>6. Md(Msg) \in V!Metadata /\ d \in Payloads BY <1>2, <1>5, OwnersFacts DEF Inv, Typed
<1>7. m \in V!Metadata
  <2>1. V!Plans = Plans BY DEF Plans, V!Plans
  <2> QED BY <1>1, <1>4, <1>6, <2>1 DEF V!Metadata
<1>8. /\ ref' \in [Owners -> Objs \cup {None}] /\ heap' = [o \in Objs |-> heap'[o]]
      /\ fid' = [s \in Owners |-> fid'[s]]
      /\ ref'[Cur] # None /\ heap'[ref'[Cur]] = m
      /\ \A t \in Owners \ {Cur} : SameMd(t) /\ fid'[t] = fid[t]
      /\ fid'[Cur] \in {None, m}
  <2>1. CASE named
    <3>1. PICK o \in NewObjs : /\ ref' = [ref EXCEPT ![Cur] = o]
                               /\ heap' = [heap EXCEPT ![o] = m]
      BY <1>n, <1>1, <2>1 DEF NextPlan
    <3>2. fid' = [fid EXCEPT ![Cur] = None] BY <1>n, <2>1 DEF NextPlan
    <3>3. o \in Objs /\ o # None /\ \A s \in Owners : ref[s] # o
      BY FreshObj, OwnersAssumption
    <3> QED BY <3>1, <3>2, <3>3, OwnersFacts DEF Inv, Typed, Shape, SameMd
  <2>2. CASE ~ named
    <3>1. /\ ref' = [ref EXCEPT ![Cur] = ref[Msg]] /\ heap' = heap
          /\ fid' = [fid EXCEPT ![Cur] = fid[Msg]]
      BY <1>n, <2>2 DEF NextPlan, CopyOf
    <3>2. fid[Msg] \in {None, m} BY <1>1, <2>2, OwnersFacts DEF Inv, Cached, FieldIdFresh
    <3> QED BY <1>1, <1>5, <2>2, <3>1, <3>2, OwnersFacts DEF Inv, Typed, Shape, SameMd, Md
  <2> QED BY <2>1, <2>2
<1>9. /\ buf' \in [Owners -> Bufs \cup {Caller, None}] /\ mem' = mem
      /\ buf'[Cur] = buf[Msg] /\ mem'[buf'[Cur]] = d
      /\ \A t \in Owners \ {Cur} : SameBuf(t)
  BY <1>2, <1>3, OwnersFacts DEF Inv, Typed, Shape, SameBuf, Payload
<1>10. Shape' BY <1>8, <1>9 DEF Shape, Inv, Typed
<1>11. \A e \in Entries : buf[e] # None => buf[e] # buf'[Cur]
  BY <1>9, OwnersFacts DEF Inv, OwnBuffers
<1>12. call.tag # "Field" => d = {} BY <1>2, <1>5 DEF Inv, Holding
<1>13. /\ Inv'
       /\ MessageOf(Cur)' = [md |-> m, payload |-> d]
       /\ Handles' = Handles
       /\ MessageOf(Msg)' = MessageOf(Msg)
       /\ [e \in Entries |-> MessageOf(e)]' = [e \in Entries |-> MessageOf(e)]
       /\ DebugValue' = DebugValue
  BY <1>3, <1>4, <1>5, <1>6, <1>7, <1>8, <1>9, <1>10, <1>11, <1>12, CurGets
<1>14. MessageOf(Msg) = [md |-> Md(Msg), payload |-> d] BY <1>2, <1>5 DEF MessageOf
<1>15. MessageOf(Cur)' = IF named
          THEN [MessageOf(Msg) EXCEPT !.md = [@ EXCEPT !.clientPlanName = Head(call.rest)]]
          ELSE MessageOf(Msg)
  BY <1>1, <1>13, <1>14
<1> QED BY <1>n, <1>3, <1>9, <1>13, <1>15 DEF V!NextPlan, Handles, DebugValue

LEMMA EndCallStep ==
    ASSUME Inv, EndCall
    PROVE  Inv' /\ V!EndCall
<1>1. PICK S : S = {Msg} OBVIOUS
<1>2. /\ V!AtEnd /\ V!ToIdle /\ call.plan = None /\ call' = V!NoCall /\ UNCHANGED out
      /\ Drop(S)
  BY <1>1 DEF EndCall, Drop, Without, V!AtEnd, V!ToIdle
<1>3. ref[Cur] = None BY <1>2 DEF Inv, Holding
<1>4. /\ Inv' /\ mem'[Caller] = mem[Caller]
      /\ MessageOf(Msg)' = None /\ MessageOf(Cur)' = None
      /\ Handles' = Handles
      /\ [e \in Entries |-> MessageOf(e)]' = [e \in Entries |-> MessageOf(e)]
      /\ DebugValue' = DebugValue
  BY <1>1, <1>2, BothGone
<1>5. MessageOf(Cur)' = MessageOf(Cur) BY <1>3, <1>4 DEF MessageOf
<1> QED BY <1>2, <1>4, <1>5 DEF V!EndCall, Handles, DebugValue

LEMMA FailureStep ==
    ASSUME Inv, NEW kind \in V!Kinds, Failure(kind)
    PROVE  Inv' /\ V!Failure(kind)
<1>1. PICK S : S = {Msg, Cur} OBVIOUS
<1>2. /\ V!At(kind) /\ V!Fails /\ call' = V!NoCall /\ UNCHANGED out
      /\ V!Throws(kind, Md(Cur)) \/ kind = "sink"
      /\ Drop(S)
  BY <1>1 DEF Failure, Drop, Without, V!Fails
<1>3. MessageOf(Cur).md = Md(Cur) BY <1>2, AtFacts
<1>4. /\ Inv' /\ mem'[Caller] = mem[Caller]
      /\ MessageOf(Msg)' = None /\ MessageOf(Cur)' = None
      /\ Handles' = Handles
      /\ [e \in Entries |-> MessageOf(e)]' = [e \in Entries |-> MessageOf(e)]
      /\ DebugValue' = DebugValue
  BY <1>1, <1>2, BothGone
<1> QED BY <1>2, <1>3, <1>4 DEF V!Failure, Handles, DebugValue

-----------------------------------------------------------------------------
(* Actions that hand the message on *)

LEMMA EditsTyped ==
    ASSUME NEW kind, NEW m \in V!Metadata, NEW d \in Payloads, V!Edits(kind, m)
    PROVE  /\ kind \in V!Editors /\ kind \in V!Kinds /\ call.tag = "Field"
           /\ V!EditedMd(kind, m) \in V!Metadata /\ V!EditedData(kind, d) \in Payloads
<1>1. kind \in V!Editors /\ call.tag = "Field" BY DEF V!Edits, V!IsField
<1>2. kind \in V!Kinds BY <1>1 DEF V!Editors, V!Kinds
<1>3. V!EditedData(kind, d) \in Payloads
  <2>1. CASE kind = "metadata-mapping" BY <2>1 DEF V!EditedData
  <2>2. CASE kind # "metadata-mapping"
    <3>1. V!EditedData(kind, d) = {Append(c, kind) : c \in d} BY <2>2 DEF V!EditedData
    <3>2. kind \in Words /\ \A c \in d : c \in Seq(Words) BY <1>2 DEF Words, Payloads
    <3>3. \A c \in d : Append(c, kind) \in Seq(Words) BY <3>2
    <3> QED BY <3>1, <3>3 DEF Payloads
  <2> QED BY <2>1, <2>2
<1>4. V!EditedMd(kind, m) \in V!Metadata
  <2>1. CASE kind = "metadata-mapping"
    <3>1. V!EditedMd(kind, m) = [m EXCEPT !.marks = m.marks \cup {"mapped"}]
      BY <2>1 DEF V!EditedMd, V!Marked
    <3> QED BY <3>1 DEF V!Metadata
  <2>2. CASE kind = "scale"
    <3>1. ScaleTo[m.param] \in Params
      BY <2>2, PipelineAssumption DEF V!Edits
    <3>2. V!EditedMd(kind, m) = [m EXCEPT !.param = ScaleTo[m.param]] BY <2>2 DEF V!EditedMd
    <3> QED BY <3>1, <3>2 DEF V!Metadata
  <2>3. CASE kind = "average-rate"
    <3>1. RateTo[m.param] \in Params
      BY <2>3, PipelineAssumption DEF V!Edits, V!FieldThrows
    <3>2. V!EditedMd(kind, m) = [m EXCEPT !.param = RateTo[m.param]] BY <2>3 DEF V!EditedMd
    <3> QED BY <3>1, <3>2 DEF V!Metadata
  <2>4. CASE kind = "mask"
    <3>1. V!EditedMd(kind, m) = [m EXCEPT !.marks = m.marks \cup {"masked"}]
      BY <2>4 DEF V!EditedMd, V!Marked
    <3> QED BY <3>1 DEF V!Metadata
  <2>5. CASE kind = "encode"
    BY <2>5 DEF V!EditedMd, V!Empty, V!Metadata
  <2>6. CASE kind = "encode-mtg2"
    <3>1. V!EditedMd(kind, m) = [param |-> m.param, marks |-> {}, clientPlanName |-> None]
      BY <2>6 DEF V!EditedMd, V!Empty
    <3> QED BY <3>1 DEF V!Metadata
  <2> QED BY <1>1, <2>1, <2>2, <2>3, <2>4, <2>5, <2>6 DEF V!Editors
<1> QED BY <1>1, <1>2, <1>3, <1>4

\* A header that is asked for its field id answers with that of its metadata.
LEMMA FreshId ==
    ASSUME Inv
    PROVE  FieldId(Cur) = Md(Cur)
BY OwnersFacts DEF FieldId, Inv, Cached, FieldIdFresh

LEMMA PassStep ==
    ASSUME Inv, NEW kind \in V!Kinds, Pass(kind)
    PROVE  Inv' /\ V!Execute(kind)
<1>1. PICK m : m = Md(Cur) OBVIOUS
<1>2. PICK d : d = Payload(Cur) OBVIOUS
<1>3. /\ V!At(kind) /\ V!Passes(kind, Md(Cur)) /\ V!ToNextAction
      /\ fid' = (IF kind = "print" THEN [fid EXCEPT ![Cur] = m] ELSE fid)
      /\ UNCHANGED <<ref, flag, buf, heap, mem, out>>
  BY <1>1, FreshId DEF Pass
<1>4. /\ call # V!NoCall /\ call.plan # None
      /\ ref[Cur] # None /\ buf[Cur] # None
      /\ m \in V!Metadata /\ d \in Payloads
      /\ MessageOf(Cur) = [md |-> m, payload |-> d]
  BY <1>1, <1>2, <1>3, AtFacts
<1>5. /\ CallTyped' /\ call' # V!NoCall
      /\ call'.plan = call.plan /\ call'.tag = call.tag
  BY <1>3, <1>4, ToNextActionFacts DEF V!ToNextAction
<1>6. Shape' /\ fid'[Cur] \in {None, m} /\ \A t \in Owners \ {Cur} : fid'[t] = fid[t]
  BY <1>1, <1>3, OwnersFacts DEF Inv, Typed, Shape, Cached, FieldIdFresh
<1>7. /\ \A t \in Owners \ {Cur} : SameMd(t) /\ SameBuf(t)
      /\ ref'[Cur] # None /\ heap'[ref'[Cur]] = m /\ buf'[Cur] # None /\ mem'[buf'[Cur]] = d
      /\ mem'[Caller] = mem[Caller]
  BY <1>1, <1>2, <1>3, <1>4 DEF SameMd, SameBuf, Md, Payload
<1>8. \A e \in Entries : buf[e] # None => buf[e] # buf'[Cur]
  BY <1>3, OwnersFacts DEF Inv, OwnBuffers
<1>9. call.tag # "Field" => d = {} BY <1>2, <1>4 DEF Inv, Holding
<1>10. /\ Inv'
       /\ MessageOf(Cur)' = [md |-> m, payload |-> d]
       /\ Handles' = Handles
       /\ MessageOf(Msg)' = MessageOf(Msg)
       /\ [e \in Entries |-> MessageOf(e)]' = [e \in Entries |-> MessageOf(e)]
       /\ DebugValue' = DebugValue
  BY <1>4, <1>5, <1>6, <1>7, <1>8, <1>9, CurGets
<1>11. MessageOf(Cur).md = Md(Cur) BY <1>1, <1>4
<1> QED BY <1>3, <1>4, <1>7, <1>10, <1>11 DEF V!Execute, Handles, DebugValue

\* What an action that edits the message has to leave for V!Execute
LEMMA EditStep ==
    ASSUME Inv, NEW kind, NEW m, NEW d,
           V!At(kind), V!Edits(kind, Md(Cur)), V!ToNextAction, UNCHANGED out,
           m = V!EditedMd(kind, Md(Cur)), d = V!EditedData(kind, Payload(Cur)),
           Shape', mem'[Caller] = mem[Caller],
           \A t \in Owners \ {Cur} : SameMd(t) /\ SameBuf(t) /\ fid'[t] = fid[t],
           \A e \in Entries : buf[e] # None => buf[e] # buf'[Cur],
           ref'[Cur] # None, heap'[ref'[Cur]] = m, buf'[Cur] # None, mem'[buf'[Cur]] = d,
           fid'[Cur] = None
    PROVE  Inv' /\ V!Execute(kind)
<1>1. /\ call # V!NoCall /\ call.plan # None
      /\ Md(Cur) \in V!Metadata /\ Payload(Cur) \in Payloads
      /\ MessageOf(Cur) = [md |-> Md(Cur), payload |-> Payload(Cur)]
  BY AtFacts
<1>2. call.tag = "Field" /\ m \in V!Metadata /\ d \in Payloads
  BY <1>1, EditsTyped
<1>3. /\ CallTyped' /\ call' # V!NoCall
      /\ call'.plan = call.plan /\ call'.tag = call.tag
  BY <1>1, ToNextActionFacts DEF V!ToNextAction
<1>4. /\ Inv'
      /\ MessageOf(Cur)' = [md |-> m, payload |-> d]
      /\ Handles' = Handles
      /\ MessageOf(Msg)' = MessageOf(Msg)
      /\ [e \in Entries |-> MessageOf(e)]' = [e \in Entries |-> MessageOf(e)]
      /\ DebugValue' = DebugValue
  BY <1>1, <1>2, <1>3, CurGets
<1>5. MessageOf(Cur).md = Md(Cur) /\ MessageOf(Cur).payload = Payload(Cur) BY <1>1
<1> QED BY <1>4, <1>5 DEF V!Execute, V!Message, Handles, DebugValue

LEMMA MetadataMappingStep ==
    ASSUME Inv, MetadataMapping
    PROVE  Inv' /\ V!Execute("metadata-mapping")
<1>1. PICK kind : kind = "metadata-mapping" OBVIOUS
<1>2. PICK m : m = V!EditedMd(kind, Md(Cur)) OBVIOUS
<1>3. PICK d : d = V!EditedData(kind, Payload(Cur)) OBVIOUS
<1>4. /\ V!At(kind) /\ V!Edits(kind, Md(Cur)) /\ V!ToNextAction
      /\ UNCHANGED <<buf, mem, out>> /\ fid' = [fid EXCEPT ![Cur] = None]
      /\ Modify(Cur, {Cur}, TRUE, m)
  BY <1>1, <1>2 DEF MetadataMapping, ModifyMetadata, Modify
<1>5. d = Payload(Cur) BY <1>1, <1>3 DEF V!EditedData
<1>6. ref[Cur] # None /\ buf[Cur] # None /\ Cur \in Owners BY <1>4, AtFacts, OwnersFacts
<1>7. /\ ref' \in [Owners -> Objs \cup {None}] /\ heap' = [o \in Objs |-> heap'[o]]
      /\ ref'[Cur] \in Objs /\ heap'[ref'[Cur]] = m
      /\ \A t \in Owners \ {Cur} : SameMd(t)
  BY <1>4, <1>6, ModifySelf DEF Inv, Typed
<1>8. Shape' /\ fid'[Cur] = None /\ \A t \in Owners \ {Cur} : fid'[t] = fid[t]
  BY <1>4, <1>6, <1>7 DEF Shape, Inv, Typed
<1>9. \A t \in Owners : SameBuf(t) BY <1>4 DEF SameBuf
<1>10. mem'[Caller] = mem[Caller] /\ buf'[Cur] # None /\ mem'[buf'[Cur]] = d /\ ref'[Cur] # None
  BY <1>4, <1>5, <1>6, <1>7, OwnersAssumption DEF Payload
<1>11. \A e \in Entries : buf[e] # None => buf[e] # buf'[Cur]
  BY <1>4, OwnersFacts DEF Inv, OwnBuffers
<1>12. Inv' /\ V!Execute(kind)
  BY <1>2, <1>3, <1>4, <1>7, <1>8, <1>9, <1>10, <1>11, EditStep
<1> QED BY <1>1, <1>12

LEMMA EditBothStep ==
    ASSUME Inv, NEW kind, EditBoth(kind)
    PROVE  Inv' /\ V!Execute(kind)
<1>1. PICK m : m = V!EditedMd(kind, Md(Cur)) OBVIOUS
<1>2. PICK d : d = V!EditedData(kind, Payload(Cur)) OBVIOUS
<1>3. /\ V!At(kind) /\ V!Edits(kind, Md(Cur)) /\ V!ToNextAction
      /\ UNCHANGED out /\ fid' = [fid EXCEPT ![Cur] = None]
  BY DEF EditBoth, ModifyMetadata
<1>4. Modify(Cur, {Cur}, TRUE, m) BY <1>1 DEF EditBoth, ModifyMetadata, Modify
<1>5. ModifyPayload(Cur, d) BY <1>2 DEF EditBoth, ModifyPayload
<1>6. ref[Cur] # None /\ buf[Cur] # None /\ Cur \in Owners BY <1>3, AtFacts, OwnersFacts
<1>7. /\ ref' \in [Owners -> Objs \cup {None}] /\ heap' = [o \in Objs |-> heap'[o]]
      /\ ref'[Cur] \in Objs /\ heap'[ref'[Cur]] = m
      /\ \A t \in Owners \ {Cur} : SameMd(t)
  BY <1>4, <1>6, ModifySelf DEF Inv, Typed
<1>8. /\ buf' \in [Owners -> Bufs \cup {Caller, None}]
      /\ mem' = [b \in Bufs \cup {Caller} |-> mem'[b]]
      /\ buf'[Cur] \in Bufs /\ mem'[buf'[Cur]] = d /\ mem'[Caller] = mem[Caller]
      /\ \A t \in Owners \ {Cur} : SameBuf(t) /\ buf[t] # buf'[Cur]
  BY <1>5, <1>6, ModifyPayloadAlone DEF Inv, Typed
<1>9. Shape' /\ fid'[Cur] = None /\ \A t \in Owners \ {Cur} : fid'[t] = fid[t]
  BY <1>3, <1>6, <1>7, <1>8 DEF Shape, Inv, Typed
<1>10. buf'[Cur] # None /\ ref'[Cur] # None BY <1>7, <1>8, OwnersAssumption
<1>11. \A e \in Entries : buf[e] # None => buf[e] # buf'[Cur] BY <1>8, OwnersFacts
<1> QED BY <1>1, <1>2, <1>3, <1>7, <1>8, <1>9, <1>10, <1>11, EditStep

LEMMA EncodedStep ==
    ASSUME Inv, NEW kind, Encoded(kind)
    PROVE  Inv' /\ V!Execute(kind)
<1>1. PICK m : m = V!EditedMd(kind, Md(Cur)) OBVIOUS
<1>2. PICK d : d = V!EditedData(kind, Payload(Cur)) OBVIOUS
<1>3. /\ V!At(kind) /\ V!Edits(kind, Md(Cur)) /\ V!ToNextAction
      /\ UNCHANGED out /\ fid' = [fid EXCEPT ![Cur] = None] /\ Cur \in Owners
  BY OwnersFacts DEF Encoded
<1>4. NewMetadata(Cur, m) BY <1>1 DEF Encoded, NewMetadata
<1>5. NewBuffer(Cur, d) BY <1>2 DEF Encoded, NewBuffer
<1>6. /\ ref' \in [Owners -> Objs \cup {None}] /\ heap' = [o \in Objs |-> heap'[o]]
      /\ ref'[Cur] \in Objs /\ heap'[ref'[Cur]] = m
      /\ \A t \in Owners \ {Cur} : SameMd(t)
  BY <1>3, <1>4, NewMetadataAlone DEF Inv, Typed
<1>7. /\ buf' \in [Owners -> Bufs \cup {Caller, None}]
      /\ mem' = [b \in Bufs \cup {Caller} |-> mem'[b]]
      /\ buf'[Cur] \in Bufs /\ mem'[buf'[Cur]] = d /\ mem'[Caller] = mem[Caller]
      /\ \A t \in Owners \ {Cur} : SameBuf(t) /\ buf[t] # buf'[Cur]
  BY <1>3, <1>5, NewBufferAlone DEF Inv, Typed
<1>8. Shape' /\ fid'[Cur] = None /\ \A t \in Owners \ {Cur} : fid'[t] = fid[t]
  BY <1>3, <1>6, <1>7 DEF Shape, Inv, Typed
<1>9. buf'[Cur] # None /\ ref'[Cur] # None BY <1>6, <1>7, OwnersAssumption
<1>10. \A e \in Entries : buf[e] # None => buf[e] # buf'[Cur] BY <1>7, OwnersFacts
<1> QED BY <1>1, <1>2, <1>3, <1>6, <1>7, <1>8, <1>9, <1>10, EditStep

-----------------------------------------------------------------------------
(* Actions that end the plan *)

LEMMA DropCurStep ==
    ASSUME Inv, NEW kind, V!At(kind), V!Returns, NEW S, S = {Cur}, Drop(S)
    PROVE  /\ Inv' /\ mem'[Caller] = mem[Caller]
           /\ MessageOf(Cur)' = None
           /\ Handles' = Handles
           /\ MessageOf(Msg)' = MessageOf(Msg)
           /\ [e \in Entries |-> MessageOf(e)]' = [e \in Entries |-> MessageOf(e)]
           /\ DebugValue' = DebugValue
<1>1. S \in SUBSET Owners BY OwnersFacts
<1>2. /\ Shape' /\ mem'[Caller] = mem[Caller]
      /\ \A t \in S : ref'[t] = None /\ buf'[t] = None /\ fid'[t] = None
      /\ \A t \in Owners \ S : SameMd(t) /\ SameBuf(t) /\ fid'[t] = fid[t]
  BY <1>1, DropAlone DEF Inv, Typed
<1>3. call # V!NoCall BY AtFacts
<1>4. /\ CallTyped' /\ call' # V!NoCall
      /\ call'.plan = None /\ call'.tag = call.tag
  BY <1>3, PlanEndsFacts
<1> QED BY <1>2, <1>3, <1>4, CurGone

LEMMA DropMessageStep ==
    ASSUME Inv, NEW kind \in V!Kinds, DropMessage(kind)
    PROVE  Inv' /\ V!EndPlan(kind)
<1>1. PICK S : S = {Cur} OBVIOUS
<1>2. V!At(kind) /\ V!Drops(kind, Md(Cur)) /\ V!PlanEnds /\ Drop(S) /\ UNCHANGED out
  BY <1>1 DEF DropMessage, Drop, Without
<1>3. MessageOf(Cur).md = Md(Cur) BY <1>2, AtFacts
<1>4. /\ Inv' /\ mem'[Caller] = mem[Caller]
      /\ MessageOf(Cur)' = None
      /\ Handles' = Handles
      /\ MessageOf(Msg)' = MessageOf(Msg)
      /\ [e \in Entries |-> MessageOf(e)]' = [e \in Entries |-> MessageOf(e)]
      /\ DebugValue' = DebugValue
  BY <1>1, <1>2, DropCurStep DEF V!PlanEnds
<1> QED BY <1>2, <1>3, <1>4 DEF V!EndPlan, Handles, DebugValue

LEMMA SinkStep ==
    ASSUME Inv, Sink
    PROVE  Inv' /\ V!EndPlan("sink")
<1>1. PICK S : S = {Cur} OBVIOUS
<1>2. /\ V!At("sink") /\ V!IsField /\ V!PlanEnds /\ Drop(S)
      /\ out' = [plan |-> call.plan, message |-> MessageOf(Cur)]
  BY <1>1 DEF Sink, Drop, Without
<1>3. /\ Inv' /\ mem'[Caller] = mem[Caller]
      /\ MessageOf(Cur)' = None
      /\ Handles' = Handles
      /\ MessageOf(Msg)' = MessageOf(Msg)
      /\ [e \in Entries |-> MessageOf(e)]' = [e \in Entries |-> MessageOf(e)]
      /\ DebugValue' = DebugValue
  BY <1>1, <1>2, DropCurStep DEF V!PlanEnds
<1> QED BY <1>2, <1>3 DEF V!EndPlan, Handles, DebugValue

LEMMA DebugSinkStep ==
    ASSUME Inv, DebugSink
    PROVE  Inv' /\ V!EndPlan("debug-sink")
<1>1. /\ V!At("debug-sink") /\ V!PlanEnds /\ UNCHANGED <<heap, mem, out>>
      /\ \A f \in {ref, buf, fid} : f = [s \in Owners |-> f[s]]
      /\ Cur \in Owners /\ Debug \in Owners /\ Cur # Debug
  BY OwnersFacts DEF DebugSink, Inv, Typed, Shape
<1>2. /\ ref' = [s \in Owners |-> IF s = Cur THEN None ELSE IF s = Debug THEN ref[Cur] ELSE ref[s]]
      /\ buf' = [s \in Owners |-> IF s = Cur THEN None ELSE IF s = Debug THEN buf[Cur] ELSE buf[s]]
      /\ fid' = [s \in Owners |-> IF s = Cur THEN None ELSE IF s = Debug THEN fid[Cur] ELSE fid[s]]
  BY <1>1 DEF DebugSink, Without, CopyOf
<1>3. /\ call # V!NoCall /\ ref[Cur] # None /\ buf[Cur] # None
      /\ MessageOf(Cur) = [md |-> Md(Cur), payload |-> Payload(Cur)]
  BY <1>1, AtFacts
<1>4. /\ CallTyped' /\ call' # V!NoCall
      /\ call'.plan = None /\ call'.tag = call.tag
  BY <1>1, <1>3, PlanEndsFacts DEF V!PlanEnds
<1>5. \A t \in Owners \ {Cur, Debug} : SameMd(t) /\ SameBuf(t) /\ fid'[t] = fid[t]
  BY <1>1, <1>2 DEF SameMd, SameBuf
<1>6. /\ ref'[Cur] = None /\ buf'[Cur] = None /\ fid'[Cur] = None
      /\ ref'[Debug] = ref[Cur] /\ buf'[Debug] = buf[Cur] /\ fid'[Debug] = fid[Cur]
  BY <1>1, <1>2
<1>7. Typed'
  <2>1. Shape' BY <1>1, <1>2 DEF Inv, Typed, Shape
  <2>2. heap'[ref'[Debug]] \in V!Metadata /\ mem'[buf'[Debug]] \in Payloads
    BY <1>1, <1>3, <1>6 DEF Inv, Typed, Md, Payload
  <2> QED BY <1>1, <1>5, <1>6, <2>1, <2>2, TypedKept
<1>8. Cached'
  <2>1. \A s \in Owners \ {Msg, Cur, Debug} : fid'[s] = None BY <1>5 DEF Inv, Cached
  <2>2. fid'[Debug] = None \/ (ref'[Debug] # None /\ fid'[Debug] = heap'[ref'[Debug]])
    BY <1>1, <1>6 DEF Inv, Cached, FieldIdFresh, Md
  <2> QED BY <1>5, <1>6, <2>1, <2>2, CachedKept
<1>9. Holding'
  <2>1. \A s \in Owners \ {Cur, Debug} : ref'[s] = ref[s] /\ buf'[s] = buf[s]
    BY <1>5 DEF SameMd, SameBuf
  <2>2. ref'[Msg] # None /\ \A h \in Mds : buf'[h] = None
    BY <1>3, <2>1, OwnersFacts DEF Inv, Holding
  <2>3. \A s \in Owners \ Mds : ref'[s] = None <=> buf'[s] = None
    BY <1>3, <1>6, <2>1, OwnersFacts DEF Inv, Holding
  <2>4. call.tag # "Field" => Payload(Msg)' = {}
    BY <1>1, <2>1, <2>2, OwnersFacts DEF Inv, Holding, Payload
  <2> QED BY <1>4, <1>6, <2>2, <2>3, <2>4 DEF Holding
<1>10. OwnBuffers' BY <1>5, <1>6, OwnersFacts DEF Inv, OwnBuffers, SameBuf
<1>11. MessageOf(Cur)' = None BY <1>6 DEF MessageOf
<1>12. Handles' = Handles BY <1>5, SameHandles, OwnersFacts
<1>13. MessageOf(Msg)' = MessageOf(Msg) BY <1>5, SameMessage, OwnersFacts
<1>14. [e \in Entries |-> MessageOf(e)]' = [e \in Entries |-> MessageOf(e)]
  BY <1>5, SameKept, OwnersFacts
<1>15. MessageOf(Debug)' = MessageOf(Cur)
  BY <1>1, <1>3, <1>6 DEF MessageOf, Md, Payload
<1>16. DebugValue' \in {MessageOf(Cur), [MessageOf(Cur) EXCEPT !.payload = {<<"reference">>}]}
  BY <1>15 DEF DebugValue
<1>17. V!EndPlan("debug-sink")
  BY <1>1, <1>11, <1>12, <1>13, <1>14, <1>16
     DEF V!EndPlan, V!Reference, Handles, DebugValue
<1> QED BY <1>7, <1>8, <1>4, <1>9, <1>10, <1>17 DEF Inv

-----------------------------------------------------------------------------
(* Aggregation *)

\* A flush that goes on is made anew, the same.
LEMMA GlobalFlushStep ==
    ASSUME Inv, V!At("aggregate"), call.tag = "Flush", NEW m, m = Md(Cur), GlobalFlush(m),
           CallTyped', call' # V!NoCall, call'.plan = call.plan, call'.tag = call.tag
    PROVE  /\ Inv' /\ mem'[Caller] = mem[Caller]
           /\ MessageOf(Cur)' = MessageOf(Cur)
           /\ Handles' = Handles
           /\ MessageOf(Msg)' = MessageOf(Msg)
           /\ [e \in Entries |-> MessageOf(e)]' = [e \in Entries |-> MessageOf(e)]
           /\ DebugValue' = DebugValue
<1>1. PICK d : d = {} OBVIOUS
<1>2. Cur \in Owners BY OwnersFacts
<1>3. NewMetadata(Cur, m) /\ NewBuffer(Cur, d) /\ fid' = [fid EXCEPT ![Cur] = m]
  BY <1>1 DEF GlobalFlush, NewMetadata, NewBuffer
<1>4. /\ ref' \in [Owners -> Objs \cup {None}] /\ heap' = [o \in Objs |-> heap'[o]]
      /\ ref'[Cur] \in Objs /\ heap'[ref'[Cur]] = m
      /\ \A t \in Owners \ {Cur} : SameMd(t)
  BY <1>2, <1>3, NewMetadataAlone DEF Inv, Typed
<1>5. /\ buf' \in [Owners -> Bufs \cup {Caller, None}]
      /\ mem' = [b \in Bufs \cup {Caller} |-> mem'[b]]
      /\ buf'[Cur] \in Bufs /\ mem'[buf'[Cur]] = d /\ mem'[Caller] = mem[Caller]
      /\ \A t \in Owners \ {Cur} : SameBuf(t) /\ buf[t] # buf'[Cur]
  BY <1>2, <1>3, NewBufferAlone DEF Inv, Typed
<1>6. Shape' /\ fid'[Cur] = m /\ \A t \in Owners \ {Cur} : fid'[t] = fid[t]
  BY <1>2, <1>3, <1>4, <1>5 DEF Shape, Inv, Typed
<1>7. buf'[Cur] # None /\ ref'[Cur] # None BY <1>4, <1>5, OwnersAssumption
<1>8. \A e \in Entries : buf[e] # None => buf[e] # buf'[Cur] BY <1>5, OwnersFacts
<1>9. /\ call # V!NoCall /\ call.plan # None /\ ref[Cur] # None /\ m \in V!Metadata
      /\ MessageOf(Cur) = [md |-> m, payload |-> Payload(Cur)]
  BY AtFacts
<1>10. d \in Payloads BY <1>1 DEF Payloads
<1>11. Payload(Cur) = d BY <1>1, <1>9 DEF Inv, Holding
<1> QED BY <1>1, <1>4, <1>5, <1>6, <1>7, <1>8, <1>9, <1>10, <1>11, CurGets

LEMMA AggregateFlushStep ==
    ASSUME Inv, AggregateFlush
    PROVE  Inv' /\ V!AggregateFlush
<1>1. PICK m : m = Md(Cur) OBVIOUS
<1>2. /\ V!At("aggregate") /\ call.tag = "Flush" /\ UNCHANGED out
      /\ \/ m.param = None /\ V!ToNextAction /\ GlobalFlush(m)
         \/ /\ ~ V!FlushThrows("aggregate", m) /\ V!CountFlush(m)
            /\ IF V!LastFlush(m) THEN GlobalFlush(m) ELSE Drop({Cur})
  BY <1>1, FreshId DEF AggregateFlush
<1>3. call # V!NoCall /\ call.plan # None /\ MessageOf(Cur).md = m BY <1>1, <1>2, AtFacts
<1>4. CASE m.param = None /\ V!ToNextAction /\ GlobalFlush(m)
  <2>1. CallTyped' /\ call' # V!NoCall /\ call'.plan = call.plan /\ call'.tag = call.tag
    BY <1>3, <1>4, ToNextActionFacts DEF V!ToNextAction
  <2> QED BY <1>1, <1>2, <1>3, <1>4, <2>1, GlobalFlushStep
          DEF V!AggregateFlush, Handles, DebugValue
<1>5. CASE /\ ~ V!FlushThrows("aggregate", m) /\ V!CountFlush(m) /\ V!LastFlush(m)
           /\ GlobalFlush(m)
  <2>1. V!HandsOn BY <1>5 DEF V!CountFlush
  <2>2. CallTyped' /\ call' # V!NoCall /\ call'.plan = call.plan /\ call'.tag = call.tag
    BY <1>3, <2>1, ToNextActionFacts
  <2> QED BY <1>1, <1>2, <1>3, <1>5, <2>2, GlobalFlushStep
          DEF V!AggregateFlush, Handles, DebugValue
<1>6. CASE /\ ~ V!FlushThrows("aggregate", m) /\ V!CountFlush(m) /\ ~ V!LastFlush(m)
           /\ Drop({Cur})
  <2>1. V!Returns BY <1>6 DEF V!CountFlush
  <2>2. PICK S : S = {Cur} OBVIOUS
  <2>3. Drop(S) BY <1>6, <2>2 DEF Drop, Without
  <2>4. /\ Inv' /\ mem'[Caller] = mem[Caller]
        /\ MessageOf(Cur)' = None
        /\ Handles' = Handles
        /\ MessageOf(Msg)' = MessageOf(Msg)
        /\ [e \in Entries |-> MessageOf(e)]' = [e \in Entries |-> MessageOf(e)]
        /\ DebugValue' = DebugValue
    BY <1>2, <2>1, <2>2, <2>3, DropCurStep
  <2> QED BY <1>2, <1>3, <1>6, <2>4 DEF V!AggregateFlush, Handles, DebugValue
<1> QED BY <1>2, <1>4, <1>5, <1>6

\* What the two specifications take for the id of a field is the same.
LEMMA SameIds == V!FieldIds = FieldIds /\ V!Entries = Entries /\ V!Plans = Plans
<1>1. V!Plans = Plans BY DEF Plans, V!Plans
<1>2. V!FieldIds = FieldIds
  <2>1. \A m \in V!FieldIds : m \in FieldIds BY DEF FieldIds, V!FieldIds, V!Metadata
  <2>2. ASSUME NEW m \in FieldIds PROVE m \in V!FieldIds
    BY PipelineAssumption DEF FieldIds, V!FieldIds, V!Metadata
  <2> QED BY <2>1, <2>2
<1> QED BY <1>1, <1>2 DEF Entries, V!Entries

LEMMA AggregateStep ==
    ASSUME Inv, Aggregate
    PROVE  Inv' /\ V!AggregatePart
<1>p. PICK p : p = <<call.plan, Md(Cur)>> OBVIOUS
<1>f. p = <<call.plan, FieldId(Cur)>> BY <1>p, FreshId
<1> DEFINE isNew == ref[p] = None
           ref1 == IF isNew THEN CopyOf(ref, p, Cur) ELSE ref
           now == IF isNew THEN Payload(Cur) ELSE V!Joined(Payload(p), Payload(Cur))
<1>1. V!At("aggregate") /\ V!IsField /\ UNCHANGED <<heap, out>> /\ fid' = [fid EXCEPT ![Cur] = None]
  BY DEF Aggregate
<1>2. /\ call # V!NoCall /\ call.plan \in Plans /\ call.plan # None
      /\ ref[Cur] # None /\ buf[Cur] # None
      /\ Md(Cur) \in V!Metadata /\ Payload(Cur) \in Payloads
      /\ MessageOf(Cur) = [md |-> Md(Cur), payload |-> Payload(Cur)]
  BY <1>1, AtFacts
<1>e. p \in Entries /\ p = V!Entry
  <2>1. Md(Cur) \in V!FieldIds /\ ~ V!Throws("aggregate", Md(Cur))
    BY <1>1 DEF Aggregate, V!Throws, V!FieldThrows
  <2>2. Md(Cur) \in FieldIds BY <2>1, SameIds
  <2>3. MessageOf(Cur).md = Md(Cur) BY <1>2
  <2> QED BY <1>p, <1>2, <2>2, <2>3 DEF Entries, V!Entry
<1>3. p \in Owners \ Mds /\ p # Cur /\ p # Msg /\ p # Debug /\ Cur \in Owners
  BY <1>e, OwnersFacts
<1>4. PICK b \in (IF isNew THEN NewBufs ELSE {buf[p]}) :
         /\ mem' = [mem EXCEPT ![b] = now]
         /\ \/ /\ V!Whole(now) /\ V!ToNextAction
               /\ ref' = [ref1 EXCEPT ![Cur] = ref1[p], ![p] = None]
               /\ buf' = [buf EXCEPT ![Cur] = b, ![p] = None]
            \/ /\ ~ V!Whole(now) /\ V!PlanEnds
               /\ ref' = [ref1 EXCEPT ![Cur] = None]
               /\ buf' = [buf EXCEPT ![Cur] = None, ![p] = b]
  BY <1>f DEF Aggregate
<1>5. b \in Bufs /\ b # None /\ b # Caller /\ \A t \in Owners \ {p} : buf[t] # b
  <2>1. CASE isNew BY <1>4, <2>1, FreshBuf, OwnersAssumption
  <2>2. CASE ~ isNew
    <3>1. buf[p] # None BY <1>3, <2>2 DEF Inv, Holding
    <3> QED BY <1>e, <1>3, <1>4, <2>2, <3>1 DEF Inv, OwnBuffers, Typed, Shape
  <2> QED BY <2>1, <2>2
<1>6. ~ isNew => MessageOf(p) = [md |-> Md(p), payload |-> mem[b]] /\ mem[b] \in Payloads
                 /\ Md(p) \in V!Metadata /\ MessageOf(p) # None
  <2> SUFFICES ASSUME ~ isNew PROVE MessageOf(p) = [md |-> Md(p), payload |-> mem[b]]
                 /\ mem[b] \in Payloads /\ Md(p) \in V!Metadata /\ MessageOf(p) # None
    OBVIOUS
  <2>1. buf[p] = b BY <1>4
  <2>2. mem[b] \in Payloads /\ Md(p) \in V!Metadata
    BY <1>3, <1>5, <2>1 DEF Inv, Typed, Payload
  <2>3. MessageOf(p) = [md |-> Md(p), payload |-> mem[b]] BY <2>1 DEF MessageOf, Payload
  <2> QED BY <2>2, <2>3, NoneAssumption
\* What the aggregation makes of the part
<1>7. PICK m : m = (IF isNew THEN Md(Cur) ELSE Md(p)) OBVIOUS
<1>8. PICK d : d = now OBVIOUS
<1>9. m \in V!Metadata /\ d \in Payloads
  <2>1. ~ isNew => d = V!Joined(mem[b], Payload(Cur)) BY <1>4, <1>8 DEF Payload
  <2> QED BY <1>2, <1>6, <1>7, <1>8, <2>1 DEF V!Joined, Payloads
<1>10. V!Aggregated = [md |-> m, payload |-> d]
  <2>0. [e \in Entries |-> MessageOf(e)][V!Entry] = MessageOf(p) BY <1>e
  <2>1. CASE isNew
    <3>1. MessageOf(p) = None BY <2>1 DEF MessageOf
    <3> QED BY <1>2, <1>7, <1>8, <2>0, <2>1, <3>1 DEF V!Aggregated
  <2>2. CASE ~ isNew
    <3>1. V!Aggregated = [MessageOf(p) EXCEPT !.payload = V!Joined(MessageOf(p).payload, MessageOf(Cur).payload)]
      BY <1>2, <1>6, <2>0, <2>2 DEF V!Aggregated
    <3>2. MessageOf(p) = [md |-> m, payload |-> Payload(p)] BY <1>7, <2>2 DEF MessageOf
    <3>3. MessageOf(p).payload = Payload(p) /\ MessageOf(Cur).payload = Payload(Cur) BY <1>2, <3>2
    <3>4. V!Aggregated = [MessageOf(p) EXCEPT !.payload = d] BY <1>8, <2>2, <3>1, <3>3
    <3> QED BY <3>2, <3>4
  <2> QED BY <2>1, <2>2
<1>11. /\ mem' = [c \in Bufs \cup {Caller} |-> mem'[c]] /\ mem'[b] = d
       /\ mem'[Caller] = mem[Caller] /\ \A c \in Bufs \ {b} : mem'[c] = mem[c]
  BY <1>4, <1>5, <1>8 DEF Inv, Typed, Shape
<1>12. ref1[p] # None /\ heap'[ref1[p]] = m /\ ref1 \in [Owners -> Objs \cup {None}]
       /\ \A t \in Owners \ {p} : ref1[t] = ref[t]
  BY <1>1, <1>2, <1>3, <1>7 DEF CopyOf, Inv, Typed, Shape, Md
<1>13. /\ ref' \in [Owners -> Objs \cup {None}]
       /\ buf' \in [Owners -> Bufs \cup {Caller, None}]
       /\ \A t \in Owners \ {p, Cur} : ref'[t] = ref[t] /\ buf'[t] = buf[t]
  <2> HIDE DEF ref1
  <2> QED BY <1>3, <1>4, <1>5, <1>12 DEF Inv, Typed, Shape
<1>14. \A t \in Owners \ {p, Cur} : SameMd(t) /\ SameBuf(t) /\ fid'[t] = fid[t]
  BY <1>1, <1>3, <1>5, <1>11, <1>13 DEF Inv, Typed, Shape, SameMd, SameBuf
<1>15. Shape' /\ fid'[Cur] = None /\ fid'[p] = None
  BY <1>1, <1>3, <1>11, <1>13 DEF Shape, Inv, Typed, Cached
<1>16. Cached'
  <2>1. \A s \in Owners \ {Msg, Cur, Debug} : fid'[s] = None
    BY <1>14, <1>15 DEF Inv, Cached
  <2> QED BY <1>14, <1>15, <2>1, CachedKept
<1>17. Handles' = Handles BY <1>e, <1>14, SameHandles, OwnersFacts
<1>18. MessageOf(Msg)' = MessageOf(Msg) BY <1>3, <1>14, SameMessage, OwnersFacts
<1>19. DebugValue' = DebugValue BY <1>3, <1>14, SameDebug, OwnersFacts
<1>20. \A t \in Entries \ {p} : MessageOf(t)' = MessageOf(t)
  BY <1>14, SameMessage, OwnersFacts
<1>t. ~ V!Throws("aggregate", MessageOf(Cur).md)
  <2>1. MessageOf(Cur).md = Md(Cur) BY <1>2
  <2> QED BY <2>1 DEF Aggregate
<1>w. V!Whole(V!Aggregated.payload) <=> V!Whole(now)
  <2>1. V!Aggregated.payload = now BY <1>8, <1>10
  <2> QED BY <2>1
<1>21. CASE /\ V!Whole(now) /\ V!ToNextAction
            /\ ref' = [ref1 EXCEPT ![Cur] = ref1[p], ![p] = None]
            /\ buf' = [buf EXCEPT ![Cur] = b, ![p] = None]
  <2>1. ref'[Cur] = ref1[p] /\ ref'[p] = None /\ buf'[Cur] = b /\ buf'[p] = None
    <3> HIDE DEF ref1
    <3> QED BY <1>3, <1>12, <1>21 DEF Inv, Typed, Shape
  <2>2. MessageOf(Cur)' = V!Aggregated /\ MessageOf(p)' = None
    BY <1>10, <1>11, <1>12, <2>1 DEF MessageOf, Md, Payload
  <2>3. [e \in Entries |-> MessageOf(e)]' = [[e \in Entries |-> MessageOf(e)] EXCEPT ![p] = None]
    BY <1>e, <1>20, <2>2
  <2>4. V!AggregatePart
    BY <1>e, <1>1, <1>t, <1>w, <1>11, <1>17, <1>18, <1>19, <1>21, <2>2, <2>3
       DEF V!AggregatePart, Handles, DebugValue
  <2>5. /\ CallTyped' /\ call' # V!NoCall
        /\ call'.plan = call.plan /\ call'.tag = call.tag
    BY <1>2, <1>21, ToNextActionFacts DEF V!ToNextAction
  <2>6. Typed' BY <1>9, <1>11, <1>12, <1>14, <1>15, <2>1, TypedKept
  <2>7. Holding'
    <3>1. ref'[Msg] # None /\ \A h \in Mds : buf'[h] = None
      BY <1>2, <1>3, <1>13, OwnersFacts DEF Inv, Holding
    <3>2. \A s \in Owners \ Mds : ref'[s] = None <=> buf'[s] = None
      BY <1>5, <1>12, <1>13, <2>1 DEF Inv, Holding
    <3> QED BY <1>1, <1>2, <1>12, <2>1, <2>5, <3>1, <3>2 DEF Holding, V!IsField
  <2>8. OwnBuffers' BY <1>3, <1>5, <1>13, <2>1, OwnersFacts DEF Inv, OwnBuffers
  <2> QED BY <1>16, <2>4, <2>5, <2>6, <2>7, <2>8 DEF Inv
<1>22. CASE /\ ~ V!Whole(now) /\ V!PlanEnds
            /\ ref' = [ref1 EXCEPT ![Cur] = None]
            /\ buf' = [buf EXCEPT ![Cur] = None, ![p] = b]
  <2>1. ref'[Cur] = None /\ ref'[p] = ref1[p] /\ buf'[Cur] = None /\ buf'[p] = b
    <3> HIDE DEF ref1
    <3> QED BY <1>3, <1>12, <1>22 DEF Inv, Typed, Shape
  <2>2. MessageOf(Cur)' = None /\ MessageOf(p)' = V!Aggregated
    BY <1>10, <1>11, <1>12, <2>1 DEF MessageOf, Md, Payload
  <2>3. [e \in Entries |-> MessageOf(e)]' = [[e \in Entries |-> MessageOf(e)] EXCEPT ![p] = V!Aggregated]
    BY <1>e, <1>20, <2>2
  <2>4. V!AggregatePart
    BY <1>e, <1>1, <1>t, <1>w, <1>11, <1>17, <1>18, <1>19, <1>22, <2>2, <2>3
       DEF V!AggregatePart, Handles, DebugValue
  <2>5. /\ CallTyped' /\ call' # V!NoCall
        /\ call'.plan = None /\ call'.tag = call.tag
    BY <1>2, <1>22, PlanEndsFacts DEF V!PlanEnds
  <2>6. Typed' BY <1>9, <1>11, <1>12, <1>14, <1>15, <2>1, TypedKept
  <2>7. Holding'
    <3>1. ref'[Msg] # None /\ \A h \in Mds : buf'[h] = None
      BY <1>2, <1>3, <1>13, OwnersFacts DEF Inv, Holding
    <3>2. \A s \in Owners \ Mds : ref'[s] = None <=> buf'[s] = None
      BY <1>5, <1>12, <1>13, <2>1 DEF Inv, Holding
    <3> QED BY <1>1, <1>2, <1>12, <2>1, <2>5, <3>1, <3>2 DEF Holding, V!IsField
  <2>8. OwnBuffers' BY <1>3, <1>5, <1>13, <2>1, OwnersFacts DEF Inv, OwnBuffers
  <2> QED BY <1>16, <2>4, <2>5, <2>6, <2>7, <2>8 DEF Inv
<1> QED BY <1>4, <1>21, <1>22

-----------------------------------------------------------------------------
(* The theorems *)

LEMMA InitRefines == Init => V!Init
<1> SUFFICES ASSUME Init PROVE V!Init OBVIOUS
<1>1. \A s \in Owners : ref[s] = None /\ buf[s] = None BY DEF Init
<1>2. mem[Caller] \in {V!Written(d) : d \in Data} BY DEF Init
<1>3. /\ \A s \in Owners : MessageOf(s) = None
      /\ \A h \in Mds : ref[h] = None /\ h \in Owners
      /\ ref[Debug] = None /\ Entries \subseteq Owners
  BY <1>1, OwnersFacts DEF MessageOf
<1>4. V!Entries = Entries BY SameIds
<1>6. {Msg, Cur, Debug} \subseteq Owners BY OwnersFacts
<1> QED BY <1>2, <1>3, <1>4, <1>6 DEF Init, V!Init

\* Every step keeps the invariant and is a step that copies values.
LEMMA StepRefines == Inv /\ [Next]_vars => Inv' /\ [V!Next]_V!vars
<1> SUFFICES ASSUME Inv, [Next]_vars PROVE Inv' /\ [V!Next]_V!vars OBVIOUS
<1>k. {"metadata-mapping", "scale", "average-rate", "mask", "encode", "encode-mtg2",
       "aggregate", "sink", "debug-sink"} \subseteq V!Kinds
  BY DEF V!Kinds
<1>t. {"Flush", "Notification"} \subseteq V!Tags BY DEF V!Tags
<1>1. ASSUME NEW h \in Mds, New(h) \/ Delete(h) \/ (\E g \in Mds : Copy(h, g))
                            \/ (\E q \in Params : Set(h, q))
      PROVE  Inv' /\ V!Next
  <2>1. Inv' /\ V!Handle(h) BY <1>1, NewStep, DeleteStep, CopyStep, SetStep
  <2> QED BY <2>1 DEF V!Next
<1>2. ASSUME NEW d \in Data, Overwrite(d) PROVE Inv' /\ V!Next
  BY <1>2, OverwriteStep DEF V!Next
<1>3. ASSUME NEW h \in Mds, NEW moved \in BOOLEAN, WriteField(h, moved) PROVE Inv' /\ V!Next
  BY <1>3, WriteFieldStep DEF V!Next
<1>4. ASSUME NEW h \in Mds, NEW tag \in {"Flush", "Notification"}, Signal(h, tag)
      PROVE  Inv' /\ V!Next
  <2>1. Inv' /\ V!Signal(h, tag) BY <1>4, SignalStep
  <2> QED BY <1>t, <2>1 DEF V!Next
<1>5. ASSUME NEW tag \in V!Tags, NEW src \in Parts, NEW q \in Params \cup {None},
             Receive(tag, src, q)
      PROVE  Inv' /\ V!Next
  BY <1>5, ReceiveStep DEF V!Next
<1>6. ASSUME NextPlan \/ EndCall \/ Aggregate \/ AggregateFlush PROVE Inv' /\ V!Next
  BY <1>6, NextPlanStep, EndCallStep, AggregateStep, AggregateFlushStep DEF V!Next
<1>7. ASSUME NEW kind \in V!Kinds, Pass(kind) \/ DropMessage(kind) \/ Failure(kind)
      PROVE  Inv' /\ V!Next
  BY <1>7, PassStep, DropMessageStep, FailureStep DEF V!Next
<1>8. ASSUME MetadataMapping PROVE Inv' /\ V!Next
  BY <1>8, <1>k, MetadataMappingStep DEF V!Next
<1>9. ASSUME Scale \/ AverageRate \/ Mask PROVE Inv' /\ V!Next
  BY <1>9, <1>k, EditBothStep DEF Scale, AverageRate, Mask, V!Next
<1>10. ASSUME Encode \/ EncodeMtg2 PROVE Inv' /\ V!Next
  BY <1>10, <1>k, EncodedStep DEF Encode, EncodeMtg2, V!Next
<1>11. ASSUME Sink \/ DebugSink PROVE Inv' /\ V!Next
  BY <1>11, <1>k, SinkStep, DebugSinkStep DEF V!Next
<1>12. CASE UNCHANGED vars
  <2>1. UNCHANGED <<conf, call, calls, flushes, ref, flag, fid, buf, heap, mem, out>>
    BY <1>12 DEF vars, pointers
  <2>2. Inv'
    BY <2>1 DEF Inv, Typed, Shape, Cached, FieldIdFresh, CallTyped, Holding, OwnBuffers,
                Md, Payload
  <2>3. UNCHANGED V!vars
    BY <2>1 DEF V!vars, V!control, MessageOf, Md, Payload
  <2> QED BY <2>2, <2>3
<1> QED BY <1>1, <1>2, <1>3, <1>4, <1>5, <1>6, <1>7, <1>8, <1>9, <1>10, <1>11, <1>12 DEF Next


-----------------------------------------------------------------------------
(* The parts of a field meet in the aggregation *)

\* A set that holds 0 and with n also n + 1 holds every natural number.
LEMMA SetInduction ==
    ASSUME NEW S, 0 \in S, \A n \in Nat : n \in S => n + 1 \in S
    PROVE  Nat \subseteq S
<1> SUFFICES ASSUME Nat \ S # {} PROVE FALSE OBVIOUS
<1>1. IsWellFoundedOn(OpToRel(<, Nat), Nat) BY NatLessThanWellFounded
<1>2. PICK x \in Nat \ S : \A y \in Nat \ S : ~ (<<y, x>> \in OpToRel(<, Nat))
  BY <1>1, WFMin
<1>3. x # 0 /\ x - 1 \in Nat OBVIOUS
<1>4. x - 1 \in S
  <2>1. <<x - 1, x>> \in OpToRel(<, Nat) BY <1>3 DEF OpToRel
  <2> QED BY <1>2, <1>3, <2>1
<1>5. (x - 1) + 1 \in S BY <1>3, <1>4
<1>6. (x - 1) + 1 = x BY <1>3
<1> QED BY <1>2, <1>5, <1>6

\* g is the route of a field q through the first n actions of a chain.
Routes(c, q, n, g) ==
    g = [i \in 0 .. n |-> IF i = 0 THEN Start(q) ELSE Handed(c[i], g[i - 1])]

\* A chain of any length has a route: the recursive definition defines it.
LEMMA RouteFacts ==
    ASSUME NEW c, Len(c) \in Nat, NEW q
    PROVE  /\ Route(c, q)[0] = Start(q)
           /\ \A i \in 1 .. Len(c) : Route(c, q)[i] = Handed(c[i], Route(c, q)[i - 1])
<1> DEFINE S == {n \in Nat : \E g : Routes(c, q, n, g)}
<1>1. 0 \in S
  <2>1. PICK g : g = [i \in {0} |-> Start(q)] OBVIOUS
  <2>2. Routes(c, q, 0, g) BY <2>1 DEF Routes
  <2> QED BY <2>2
<1>2. ASSUME NEW n \in Nat, n \in S PROVE n + 1 \in S
  <2>1. PICK g : g = [i \in 0 .. n |-> IF i = 0 THEN Start(q) ELSE Handed(c[i], g[i - 1])]
    BY <1>2 DEF Routes
  <2>2. PICK m : m = Handed(c[n + 1], g[n]) OBVIOUS
  <2>3. PICK f : f = [i \in 0 .. n + 1 |-> IF i = n + 1 THEN m ELSE g[i]] OBVIOUS
  <2>4. ASSUME NEW i \in 0 .. n + 1
        PROVE  f[i] = IF i = 0 THEN Start(q) ELSE Handed(c[i], f[i - 1])
    <3>1. CASE i = n + 1
      <4>1. f[i] = m /\ i - 1 = n /\ n \in 0 .. n + 1 /\ n # n + 1 /\ i # 0 BY <2>3, <3>1
      <4>2. f[n] = g[n] BY <2>3, <4>1
      <4> QED BY <2>2, <3>1, <4>1, <4>2
    <3>2. CASE i # n + 1
      <4>1. i \in 0 .. n /\ f[i] = g[i] BY <2>3, <3>2
      <4>2. i # 0 => i - 1 \in 0 .. n + 1 /\ i - 1 # n + 1 BY <4>1
      <4>3. i # 0 => f[i - 1] = g[i - 1] BY <2>3, <4>2
      <4> QED BY <2>1, <4>1, <4>3
    <3> QED BY <3>1, <3>2
  <2>5. Routes(c, q, n + 1, f) BY <2>3, <2>4 DEF Routes
  <2> QED BY <2>5
<1> HIDE DEF S
<1>3. Len(c) \in S BY <1>1, <1>2, SetInduction
<1>4. \E g : Routes(c, q, Len(c), g) BY <1>3 DEF S
<1>5. Route(c, q) = CHOOSE g : Routes(c, q, Len(c), g) BY DEF Route, Routes
<1>6. Routes(c, q, Len(c), Route(c, q)) BY <1>4, <1>5
<1> QED BY <1>6 DEF Routes


\* A cell that says which field it is a part of
Named(x) == x \in Seq(Words) /\ Len(x) >= 2

\* The cells of a message whose metadata is what the first i actions of chain c make
\* of that of their fields
OnItsWay(c, i, d, m) == \A x \in d : Named(x) /\ m = Route(c, x[2])[i]

\* Where the plan at work is in its chain; on a server its message is a part on its way
\* to the aggregation, or has been through it.
OnRoute ==
    LET c == conf.chain[call.plan]
    IN  \E i \in Nat :
          /\ call.todo \in Seq(V!Kinds) /\ Len(call.todo) + i = Len(c)
          /\ \A j \in 1 .. Len(call.todo) : call.todo[j] = c[i + j]
          /\ conf.role = "server" /\ call.tag = "Field" =>
                \/ \E j \in 1 .. i : c[j] = "aggregate"
                \/ OnItsWay(c, i, MessageOf(Cur).payload, MessageOf(Cur).md)

\* What is kept under e are parts that the plan sends there.
KeptWell(e) == MessageOf(e) # None =>
    /\ MessageOf(e).md = e[2]
    /\ \A x \in MessageOf(e).payload : IdOf(e[1], x[2]) = e[2]

Arriving == conf.role = "server" /\ call.tag = "Field" =>
    \A x \in MessageOf(Msg).payload : Named(x) /\ MessageOf(Msg).md = Start(x[2])

Meeting ==
    /\ conf \in Configs
    /\ Arriving
    /\ call.plan # None => OnRoute
    /\ \A e \in Entries : KeptWell(e)

LEMMA InitMeeting == Init => Meeting
<1> SUFFICES ASSUME Init PROVE Meeting OBVIOUS
<1>1. \A e \in Entries : MessageOf(e) = None BY OwnersFacts DEF Init, MessageOf
<1>2. call.plan = None /\ call.tag # "Field"
  <2>1. None # "Field" BY NoneAssumption DEF V!Tags
  <2> QED BY <2>1 DEF Init, V!NoCall
<1> QED BY <1>1, <1>2 DEF Init, Meeting, Arriving, KeptWell

\* What is kept stays well as long as it stays.
LEMMA KeptStays ==
    ASSUME Meeting, conf' = conf, [e \in Entries |-> MessageOf(e)]' = [e \in Entries |-> MessageOf(e)]
    PROVE  conf' \in Configs /\ \A e \in Entries : KeptWell(e)'
<1>1. \A e \in Entries : MessageOf(e)' = MessageOf(e) OBVIOUS
<1> QED BY <1>1 DEF Meeting, KeptWell, IdOf

\* Steps between calls
LEMMA QuietMeets ==
    ASSUME Meeting, UNCHANGED <<conf, call>>,
           MessageOf(Msg)' = MessageOf(Msg), MessageOf(Cur)' = MessageOf(Cur),
           [e \in Entries |-> MessageOf(e)]' = [e \in Entries |-> MessageOf(e)]
    PROVE  Meeting'
<1>1. conf' \in Configs /\ \A e \in Entries : KeptWell(e)' BY KeptStays
<1>2. Arriving' BY DEF Meeting, Arriving
<1>3. call'.plan # None => OnRoute' BY DEF Meeting, OnRoute
<1> QED BY <1>1, <1>2, <1>3 DEF Meeting

\* A call begins, or is over.
LEMMA BeginMeets ==
    ASSUME Meeting, conf' = conf, call'.plan = None,
           conf.role = "server" /\ call'.tag = "Field" =>
               \A x \in MessageOf(Msg)'.payload : Named(x) /\ MessageOf(Msg)'.md = Start(x[2]),
           [e \in Entries |-> MessageOf(e)]' = [e \in Entries |-> MessageOf(e)]
    PROVE  Meeting'
<1>1. conf' \in Configs /\ \A e \in Entries : KeptWell(e)' BY KeptStays
<1>2. Arriving' BY DEF Arriving
<1> QED BY <1>1, <1>2 DEF Meeting

LEMMA ReceiveMeets ==
    ASSUME Inv, Meeting, NEW tag \in V!Tags, NEW src \in Parts, NEW q \in Params \cup {None},
           V!Receive(tag, src, q)
    PROVE  Meeting'
<1>1. /\ conf' = conf /\ q \in V!Incoming(tag)
      /\ call' = [tag |-> tag, src |-> src, plan |-> None, rest |-> PlanOrder, todo |-> <<>>]
      /\ MessageOf(Msg)' = V!Message(V!Decoded(tag, q), V!Contents(tag, src, q))
      /\ [e \in Entries |-> MessageOf(e)]' = [e \in Entries |-> MessageOf(e)]
  BY DEF V!Receive, V!Begin
<1>2. call'.plan = None /\ call'.tag = tag BY <1>1
<1>3. ASSUME tag = "Field", NEW x \in MessageOf(Msg)'.payload
      PROVE  Named(x) /\ MessageOf(Msg)'.md = Start(x[2])
  <2>1. /\ MessageOf(Msg)'.md = Start(q) /\ MessageOf(Msg)'.payload = {<<src, q>>}
        /\ q \in Params
    BY <1>1, <1>3 DEF V!Message, V!Contents, V!Part, V!Incoming, Start
  <2>2. x = <<src, q>> BY <1>3, <2>1
  <2> QED BY <2>1, <2>2 DEF Named, Words
<1> QED BY <1>1, <1>2, <1>3, BeginMeets

LEMMA NextPlanMeets ==
    ASSUME Inv, Meeting, V!NextPlan
    PROVE  Meeting'
<1>1. /\ call # V!NoCall /\ call.rest # <<>>
      /\ call' = [call EXCEPT !.plan = Head(call.rest), !.rest = Tail(call.rest),
                              !.todo = conf.chain[Head(call.rest)]]
      /\ conf' = conf
      /\ call.tag # "Flush" => MessageOf(Cur)' = MessageOf(Msg)
      /\ MessageOf(Msg)' = MessageOf(Msg)
      /\ [e \in Entries |-> MessageOf(e)]' = [e \in Entries |-> MessageOf(e)]
  BY DEF V!NextPlan, V!AtNextPlan, V!ToNextPlan
<1>2. call' = [tag |-> call.tag, src |-> call.src, plan |-> Head(call.rest),
               rest |-> Tail(call.rest), todo |-> conf.chain[Head(call.rest)]]
  BY <1>1 DEF Inv, CallTyped
<1>3. /\ call'.tag = call.tag /\ call'.plan \in Plans /\ call'.todo = conf.chain[call'.plan]
  BY <1>1, <1>2 DEF Inv, CallTyped
<1>4. conf' \in Configs /\ \A e \in Entries : KeptWell(e)' BY <1>1, KeptStays
<1>5. Arriving' BY <1>1, <1>3 DEF Meeting, Arriving
<1>6. OnRoute'
  <2>1. PICK c : c = conf.chain[call'.plan] OBVIOUS
  <2>2. c \in Seq(V!Kinds) BY <1>3, <2>1, ConfigsAssumption DEF Meeting
  <2>3. /\ call'.todo \in Seq(V!Kinds) /\ Len(call'.todo) + 0 = Len(c)
        /\ \A j \in 1 .. Len(call'.todo) : call'.todo[j] = c[0 + j]
    BY <1>3, <2>1, <2>2
  <2>4. ASSUME conf.role = "server", call.tag = "Field"
        PROVE  OnItsWay(c, 0, MessageOf(Cur)'.payload, MessageOf(Cur)'.md)
    <3>1. \A x : Route(c, x[2])[0] = Start(x[2]) BY <2>2, RouteFacts
    <3> QED BY <1>1, <2>4, <3>1 DEF Meeting, Arriving, OnItsWay
  <2> QED BY <1>1, <1>3, <2>1, <2>3, <2>4 DEF OnRoute
<1> QED BY <1>4, <1>5, <1>6 DEF Meeting


\* The plan at work: the action it is at is the next of its chain.
LEMMA AtRoute ==
    ASSUME Inv, Meeting, NEW kind, V!At(kind)
    PROVE  /\ call # V!NoCall /\ call.plan \in Plans /\ call.plan # None /\ OnRoute
           /\ call = [tag |-> call.tag, src |-> call.src, plan |-> call.plan,
                      rest |-> call.rest, todo |-> call.todo]
BY DEF V!At, V!NoCall, Inv, CallTyped, Meeting

\* The plan hands its message on and is one step further in its chain.
LEMMA HandedOn ==
    ASSUME Inv, Meeting, NEW kind, V!At(kind), V!HandsOn, conf' = conf,
           ASSUME conf.role = "server", call.tag = "Field", kind # "aggregate",
                  NEW c, Len(c) \in Nat, NEW i \in 1 .. Len(c), c[i] = kind,
                  OnItsWay(c, i - 1, MessageOf(Cur).payload, MessageOf(Cur).md)
           PROVE  OnItsWay(c, i, MessageOf(Cur)'.payload, MessageOf(Cur)'.md)
    PROVE  /\ OnRoute' /\ call'.tag = call.tag /\ call'.plan = call.plan
<1>1. call.todo # <<>> /\ Head(call.todo) = kind /\ call' = [call EXCEPT !.todo = Tail(@)]
  BY DEF V!At, V!HandsOn
<1>2. call' = [tag |-> call.tag, src |-> call.src, plan |-> call.plan,
               rest |-> call.rest, todo |-> Tail(call.todo)]
  BY <1>1, AtRoute
<1>3. call'.tag = call.tag /\ call'.plan = call.plan /\ call'.todo = Tail(call.todo) BY <1>2
<1>4. PICK c : c = conf.chain[call.plan] OBVIOUS
<1>5. PICK i \in Nat :
        /\ call.todo \in Seq(V!Kinds) /\ Len(call.todo) + i = Len(c)
        /\ \A j \in 1 .. Len(call.todo) : call.todo[j] = c[i + j]
        /\ conf.role = "server" /\ call.tag = "Field" =>
              \/ \E j \in 1 .. i : c[j] = "aggregate"
              \/ OnItsWay(c, i, MessageOf(Cur).payload, MessageOf(Cur).md)
  BY <1>4, AtRoute DEF OnRoute
<1>6. PICK n \in Nat : n = Len(call.todo) BY <1>5
<1>7. n # 0 /\ call.todo[1] = kind /\ Len(c) = n + i BY <1>1, <1>5, <1>6
<1>8. c[i + 1] = kind /\ i + 1 \in 1 .. Len(c) /\ Len(c) \in Nat /\ (i + 1) - 1 = i
  BY <1>5, <1>6, <1>7
<1>9. /\ Tail(call.todo) \in Seq(V!Kinds) /\ Len(Tail(call.todo)) = n - 1
      /\ \A j \in 1 .. Len(Tail(call.todo)) : Tail(call.todo)[j] = call.todo[j + 1]
  BY <1>1, <1>5, <1>6
<1>10. ASSUME NEW j \in 1 .. Len(Tail(call.todo)) PROVE Tail(call.todo)[j] = c[(i + 1) + j]
  <2>1. j + 1 \in 1 .. n /\ i + (j + 1) = (i + 1) + j BY <1>7, <1>9
  <2> QED BY <1>5, <1>6, <1>9, <2>1
<1>11. Len(Tail(call.todo)) + (i + 1) = Len(c)
  <2>1. (n - 1) + (i + 1) = n + i OBVIOUS
  <2> QED BY <1>7, <1>9, <2>1
<1>12. ASSUME conf.role = "server", call.tag = "Field"
       PROVE  \/ \E j \in 1 .. i + 1 : c[j] = "aggregate"
              \/ OnItsWay(c, i + 1, MessageOf(Cur)'.payload, MessageOf(Cur)'.md)
  <2>1. CASE kind = "aggregate" BY <1>8, <2>1
  <2>2. CASE \E j \in 1 .. i : c[j] = "aggregate" BY <2>2
  <2>3. CASE kind # "aggregate" /\ OnItsWay(c, i, MessageOf(Cur).payload, MessageOf(Cur).md)
    BY <1>8, <1>12, <2>3
  <2> QED BY <1>5, <1>12, <2>1, <2>2, <2>3
<1>13. i + 1 \in Nat OBVIOUS
<1>14. OnRoute' BY <1>3, <1>4, <1>9, <1>10, <1>11, <1>12, <1>13 DEF OnRoute
<1> QED BY <1>3, <1>14

\* What an action makes of the metadata is what the route has next.
LEMMA FieldWork ==
    ASSUME V!IsField, NEW kind \in V!Kinds, NEW m
    PROVE  /\ V!Edits(kind, m) => Handed(kind, m) = V!EditedMd(kind, m)
           /\ V!Passes(kind, m) => Handed(kind, m) = m
BY DEF V!IsField, V!Edits, V!Throws, V!Passes, Handed, V!Editors

\* The cells of a message that an action changes are of the same parts.
LEMMA EditedCells ==
    ASSUME NEW kind \in V!Kinds, NEW d, \A x \in d : Named(x),
           NEW y \in V!EditedData(kind, d)
    PROVE  Named(y) /\ \E x \in d : y[2] = x[2]
<1>1. CASE kind = "metadata-mapping" BY <1>1 DEF V!EditedData
<1>2. CASE kind # "metadata-mapping"
  <2>1. PICK x \in d : y = Append(x, kind) BY <1>2 DEF V!EditedData
  <2>2. x \in Seq(Words) /\ Len(x) >= 2 /\ kind \in Words BY DEF Named, Words
  <2>3. y \in Seq(Words) /\ Len(y) = Len(x) + 1 /\ y[2] = x[2] BY <2>1, <2>2
  <2> QED BY <2>2, <2>3 DEF Named
<1> QED BY <1>1, <1>2

LEMMA ExecuteMeets ==
    ASSUME Inv, Meeting, NEW kind \in V!Kinds, V!Execute(kind)
    PROVE  Meeting'
<1>1. /\ V!At(kind) /\ V!HandsOn /\ conf' = conf
      /\ \/ /\ V!Edits(kind, MessageOf(Cur).md)
            /\ MessageOf(Cur)' = V!Message(V!EditedMd(kind, MessageOf(Cur).md),
                                           V!EditedData(kind, MessageOf(Cur).payload))
         \/ V!Passes(kind, MessageOf(Cur).md) /\ MessageOf(Cur)' = MessageOf(Cur)
      /\ MessageOf(Msg)' = MessageOf(Msg)
      /\ [e \in Entries |-> MessageOf(e)]' = [e \in Entries |-> MessageOf(e)]
  BY DEF V!Execute, V!ToNextAction
<1>2. ASSUME call.tag = "Field", NEW c, Len(c) \in Nat, NEW i \in 1 .. Len(c), c[i] = kind,
             OnItsWay(c, i - 1, MessageOf(Cur).payload, MessageOf(Cur).md)
      PROVE  OnItsWay(c, i, MessageOf(Cur)'.payload, MessageOf(Cur)'.md)
  <2>1. MessageOf(Cur)'.md = Handed(kind, MessageOf(Cur).md)
    BY <1>1, <1>2, FieldWork DEF V!IsField, V!Message
  <2>2. \A x \in MessageOf(Cur).payload :
           Named(x) /\ MessageOf(Cur)'.md = Route(c, x[2])[i]
    BY <1>2, <2>1, RouteFacts DEF OnItsWay
  <2>3. \A y \in MessageOf(Cur)'.payload :
           Named(y) /\ \E x \in MessageOf(Cur).payload : y[2] = x[2]
    <3>1. CASE MessageOf(Cur)' = MessageOf(Cur) BY <2>2, <3>1
    <3>2. CASE MessageOf(Cur)'.payload = V!EditedData(kind, MessageOf(Cur).payload)
      BY <2>2, <3>2, EditedCells
    <3> QED BY <1>1, <3>1, <3>2 DEF V!Message
  <2> QED BY <2>2, <2>3 DEF OnItsWay
<1>3. OnRoute' /\ call'.tag = call.tag /\ call'.plan = call.plan BY <1>1, <1>2, HandedOn
<1>4. conf' \in Configs /\ \A e \in Entries : KeptWell(e)' BY <1>1, KeptStays
<1>5. Arriving' BY <1>1, <1>3 DEF Meeting, Arriving
<1> QED BY <1>3, <1>4, <1>5 DEF Meeting

\* A plan is over, dispatch has its message still.
LEMMA ReturnMeets ==
    ASSUME Inv, Meeting, NEW kind, V!At(kind), V!Returns, conf' = conf,
           MessageOf(Msg)' = MessageOf(Msg), \A e \in Entries : KeptWell(e)'
    PROVE  Meeting'
<1>1. call' = [tag |-> call.tag, src |-> call.src, plan |-> None, rest |-> call.rest,
               todo |-> <<>>]
  BY AtRoute DEF V!Returns
<1>2. call'.tag = call.tag /\ call'.plan = None BY <1>1
<1>3. Arriving' BY <1>2 DEF Meeting, Arriving
<1> QED BY <1>2, <1>3 DEF Meeting

LEMMA EndPlanMeets ==
    ASSUME Inv, Meeting, NEW kind \in V!Kinds, V!EndPlan(kind)
    PROVE  Meeting'
<1>1. /\ V!At(kind) /\ V!Returns /\ conf' = conf /\ MessageOf(Msg)' = MessageOf(Msg)
      /\ [e \in Entries |-> MessageOf(e)]' = [e \in Entries |-> MessageOf(e)]
  BY DEF V!EndPlan, V!PlanEnds
<1> QED BY <1>1, KeptStays, ReturnMeets

\* An exception or the end of a call
LEMMA IdleMeets ==
    ASSUME Meeting, call' = V!NoCall, conf' = conf,
           [e \in Entries |-> MessageOf(e)]' = [e \in Entries |-> MessageOf(e)]
    PROVE  Meeting'
<1>1. call'.plan = None /\ call'.tag # "Field"
  <2>1. None # "Field" BY NoneAssumption DEF V!Tags
  <2> QED BY <2>1 DEF V!NoCall
<1> QED BY <1>1, BeginMeets


LEMMA AggregateFlushMeets ==
    ASSUME Inv, Meeting, V!AggregateFlush
    PROVE  Meeting'
<1>1. /\ V!At("aggregate") /\ conf' = conf /\ (V!HandsOn \/ V!Returns)
      /\ MessageOf(Msg)' = MessageOf(Msg)
      /\ [e \in Entries |-> MessageOf(e)]' = [e \in Entries |-> MessageOf(e)]
  BY DEF V!AggregateFlush, V!ToNextAction, V!CountFlush
<1>2. conf' \in Configs /\ \A e \in Entries : KeptWell(e)' BY <1>1, KeptStays
<1>3. CASE V!HandsOn
  <2>1. OnRoute' /\ call'.tag = call.tag /\ call'.plan = call.plan BY <1>1, <1>3, HandedOn
  <2>2. Arriving' BY <1>1, <2>1 DEF Meeting, Arriving
  <2> QED BY <1>2, <2>1, <2>2 DEF Meeting
<1>4. CASE V!Returns BY <1>1, <1>2, <1>4, ReturnMeets
<1> QED BY <1>1, <1>3, <1>4

\* A message that comes to the aggregation is of parts that the plan sends there.
LEMMA AtAggregation ==
    ASSUME Inv, Meeting, V!At("aggregate"), V!IsField
    PROVE  \A x \in MessageOf(Cur).payload : IdOf(call.plan, x[2]) = MessageOf(Cur).md
<1>1. PICK c : c = conf.chain[call.plan] OBVIOUS
<1>2. PICK i \in Nat :
        /\ call.todo \in Seq(V!Kinds) /\ Len(call.todo) + i = Len(c)
        /\ \A j \in 1 .. Len(call.todo) : call.todo[j] = c[i + j]
        /\ conf.role = "server" /\ call.tag = "Field" =>
              \/ \E j \in 1 .. i : c[j] = "aggregate"
              \/ OnItsWay(c, i, MessageOf(Cur).payload, MessageOf(Cur).md)
  BY <1>1, AtRoute DEF OnRoute
<1>3. call.plan \in Plans BY AtRoute
<1>4. /\ c \in Seq(V!Kinds) /\ conf.role \in {"client", "server"}
      /\ \A k, j \in Aggregations(c) : conf.role = "server" /\ k = j
  BY <1>1, <1>3, ConfigsAssumption DEF Meeting
<1>5. PICK n \in Nat : n = Len(call.todo) BY <1>2
<1>6. c[i + 1] = "aggregate" /\ i + 1 \in 1 .. Len(c)
  <2>1. n # 0 /\ call.todo[1] = "aggregate" BY <1>2, <1>5 DEF V!At
  <2> QED BY <1>2, <1>5, <2>1
<1>7. i + 1 \in Aggregations(c) BY <1>4, <1>6 DEF Aggregations
<1>8. conf.role = "server" /\ Aggregations(c) = {i + 1} BY <1>4, <1>7
<1>9. ~ \E j \in 1 .. i : c[j] = "aggregate"
  <2> SUFFICES ASSUME NEW j \in 1 .. i, c[j] = "aggregate" PROVE FALSE OBVIOUS
  <2>1. j \in 1 .. Len(c) /\ j # i + 1 BY <1>6
  <2>2. j \in Aggregations(c) BY <1>4, <2>1 DEF Aggregations
  <2> QED BY <1>8, <2>1, <2>2
<1>10. OnItsWay(c, i, MessageOf(Cur).payload, MessageOf(Cur).md)
  BY <1>2, <1>8, <1>9 DEF V!IsField
<1>11. (CHOOSE k \in Aggregations(c) : TRUE) = i + 1 BY <1>8
<1>12. (i + 1) - 1 = i OBVIOUS
<1> QED BY <1>1, <1>10, <1>11, <1>12 DEF OnItsWay, IdOf

LEMMA AggregateMeets ==
    ASSUME Inv, Meeting, V!AggregatePart
    PROVE  Meeting'
<1>1. /\ V!At("aggregate") /\ V!IsField /\ conf' = conf /\ MessageOf(Msg)' = MessageOf(Msg)
      /\ ~ V!Throws("aggregate", MessageOf(Cur).md)
  BY DEF V!AggregatePart, V!ToNextAction, V!PlanEnds
<1>2. PICK e : e = V!Entry OBVIOUS
<1>3. e = <<call.plan, MessageOf(Cur).md>> /\ e \in Entries
  <2>1. MessageOf(Cur).md \in FieldIds /\ call.plan \in Plans
    BY <1>1, AtRoute, SameIds DEF V!Throws, V!FieldThrows
  <2> QED BY <1>2, <2>1 DEF V!Entry, Entries
<1>4. CASE V!Whole(V!Aggregated.payload)
  <2>1. /\ V!HandsOn
        /\ [t \in Entries |-> MessageOf(t)]' = [[t \in Entries |-> MessageOf(t)] EXCEPT ![e] = None]
    BY <1>2, <1>4 DEF V!AggregatePart, V!ToNextAction
  <2>2. MessageOf(e)' = None /\ \A t \in Entries \ {e} : MessageOf(t)' = MessageOf(t)
    BY <1>3, <2>1
  <2>3. \A t \in Entries : KeptWell(t)' BY <1>1, <2>2 DEF Meeting, KeptWell, IdOf
  <2>4. OnRoute' /\ call'.tag = call.tag /\ call'.plan = call.plan BY <1>1, <2>1, HandedOn
  <2>5. Arriving' BY <1>1, <2>4 DEF Meeting, Arriving
  <2> QED BY <1>1, <2>3, <2>4, <2>5 DEF Meeting
<1>5. CASE ~ V!Whole(V!Aggregated.payload)
  <2>1. /\ V!Returns
        /\ [t \in Entries |-> MessageOf(t)]'
              = [[t \in Entries |-> MessageOf(t)] EXCEPT ![e] = V!Aggregated]
    BY <1>2, <1>5 DEF V!AggregatePart, V!PlanEnds
  <2>2. MessageOf(e)' = V!Aggregated /\ \A t \in Entries \ {e} : MessageOf(t)' = MessageOf(t)
    BY <1>3, <2>1
  <2>3. [t \in Entries |-> MessageOf(t)][V!Entry] = MessageOf(e) BY <1>2, <1>3
  <2>4. \A x \in MessageOf(Cur).payload : IdOf(e[1], x[2]) = e[2]
    BY <1>1, <1>3, AtAggregation
  <2>5. /\ V!Aggregated.md = e[2]
        /\ \A x \in V!Aggregated.payload : IdOf(e[1], x[2]) = e[2]
    <3>1. CASE MessageOf(e) = None
      <4>1. V!Aggregated = MessageOf(Cur) BY <2>3, <3>1 DEF V!Aggregated
      <4> QED BY <1>3, <2>4, <4>1
    <3>2. CASE MessageOf(e) # None
      <4>1. V!Aggregated
              = [MessageOf(e) EXCEPT !.payload = V!Joined(@, MessageOf(Cur).payload)]
        BY <2>3, <3>2 DEF V!Aggregated
      <4>2. MessageOf(e) = [md |-> Md(e), payload |-> Payload(e)] BY <3>2 DEF MessageOf
      <4>3. /\ V!Aggregated.md = MessageOf(e).md
            /\ V!Aggregated.payload = V!Joined(MessageOf(e).payload, MessageOf(Cur).payload)
        BY <4>1, <4>2
      <4>4. \A x \in V!Aggregated.payload :
               x \in MessageOf(e).payload \/ x \in MessageOf(Cur).payload
        BY <4>3 DEF V!Joined
      <4>5. /\ MessageOf(e).md = e[2]
            /\ \A x \in MessageOf(e).payload : IdOf(e[1], x[2]) = e[2]
        BY <1>3, <3>2 DEF Meeting, KeptWell
      <4> QED BY <2>4, <4>3, <4>4, <4>5
    <3> QED BY <3>1, <3>2
  <2>6. KeptWell(e)' BY <1>1, <2>2, <2>5 DEF KeptWell, IdOf
  <2>7. \A t \in Entries \ {e} : KeptWell(t)' BY <1>1, <2>2 DEF Meeting, KeptWell, IdOf
  <2>8. \A t \in Entries : KeptWell(t)' BY <2>6, <2>7
  <2> QED BY <1>1, <2>1, <2>8, ReturnMeets
<1> QED BY <1>4, <1>5

LEMMA StepMeets == Inv /\ Meeting /\ [Next]_vars => Meeting'
<1> SUFFICES ASSUME Inv, Meeting, [Next]_vars PROVE Meeting' OBVIOUS
<1>1. [V!Next]_V!vars BY StepRefines
<1>2. ASSUME NEW h \in Mds, V!Handle(h) PROVE Meeting'
  BY <1>2, QuietMeets DEF V!Handle, V!SetHandle, V!control
<1>3. CASE V!Overwrite BY <1>3, QuietMeets DEF V!Overwrite, V!control
<1>4. ASSUME NEW h \in Mds, V!WriteField(h) \/ (\E tag \in V!Tags : V!Signal(h, tag))
      PROVE  Meeting'
  <2>1. PICK tag \in V!Tags \cup {"Field"} : V!Begin(tag, None) /\ conf.role = "client"
    BY <1>4 DEF V!WriteField, V!Signal, V!Idle
  <2>2. [e \in Entries |-> MessageOf(e)]' = [e \in Entries |-> MessageOf(e)]
    BY <1>4 DEF V!WriteField, V!Signal
  <2>3. call'.plan = None /\ conf' = conf BY <2>1 DEF V!Begin
  <2> QED BY <2>1, <2>2, <2>3, BeginMeets
<1>5. CASE UNCHANGED V!vars BY <1>5, QuietMeets DEF V!vars, V!control
<1>6. ASSUME NEW kind \in V!Kinds, V!Execute(kind) \/ V!EndPlan(kind) PROVE Meeting'
  BY <1>6, ExecuteMeets, EndPlanMeets
<1>7. ASSUME NEW kind \in V!Kinds, V!Failure(kind) PROVE Meeting'
  BY <1>7, IdleMeets DEF V!Failure, V!Fails
<1>8. CASE V!EndCall BY <1>8, IdleMeets DEF V!EndCall, V!ToIdle
<1>9. CASE V!NextPlan \/ V!AggregatePart \/ V!AggregateFlush
  BY <1>9, NextPlanMeets, AggregateMeets, AggregateFlushMeets
<1>10. ASSUME NEW tag \in V!Tags, NEW src \in Parts, NEW q \in Params \cup {None},
              V!Receive(tag, src, q)
       PROVE  Meeting'
  BY <1>10, ReceiveMeets
<1> QED BY <1>1, <1>2, <1>3, <1>4, <1>5, <1>6, <1>7, <1>8, <1>9, <1>10 DEF V!Next

LEMMA MeetingParts == Inv /\ Meeting => PartsMeet
<1> SUFFICES ASSUME Inv, Meeting, NEW p \in Plans, NEW id \in FieldIds, ref[<<p, id>>] # None
             PROVE  /\ Md(<<p, id>>) = id
                    /\ \A c \in Payload(<<p, id>>) : IdOf(p, c[2]) = id
  BY DEF PartsMeet
<1>1. PICK e : e = <<p, id>> OBVIOUS
<1>2. e \in Entries /\ e[1] = p /\ e[2] = id BY <1>1 DEF Entries
<1>3. e \in Owners \ Mds /\ ref[e] # None BY <1>1, <1>2, OwnersFacts
<1>4. MessageOf(e) = [md |-> Md(e), payload |-> Payload(e)] BY <1>3 DEF MessageOf
<1>5. MessageOf(e) # None
  <2>1. Md(e) \in V!Metadata /\ Payload(e) \in Payloads BY <1>3 DEF Inv, Typed, Holding
  <2> QED BY <1>4, <2>1, NoneAssumption
<1>6. /\ MessageOf(e).md = id /\ \A x \in MessageOf(e).payload : IdOf(p, x[2]) = id
  BY <1>2, <1>5 DEF Meeting, KeptWell
<1> QED BY <1>1, <1>4, <1>6

\* A header's field id is that of its metadata, from the wire or computed, however
\* many plans, handles and messages share that metadata.
THEOREM IdsFresh == Spec => []FieldIdFresh
<1>1. Inv /\ [Next]_vars => Inv' BY StepRefines
<1>2. Inv => FieldIdFresh BY DEF Inv, Cached
<1> QED BY <1>1, <1>2, InitInv, PTL DEF Spec

\* Copy on write cannot be told from copying: whatever the plans, their actions and
\* the calls, every step is a step of the plans in which nothing is shared.
THEOREM SharingUnseen == Spec => ValueSemantics
<1>1. Init => Inv /\ V!Init BY InitInv, InitRefines
<1>2. Inv /\ [Next]_vars => Inv' /\ [V!Next]_V!vars BY StepRefines
<1> QED BY <1>1, <1>2, PTL DEF Spec, ValueSemantics, V!Spec

\* The parts of a field meet: whatever the chains do with the metadata before they
\* aggregate, whatever other plans do with the object they share, and however many
\* fields are under way, a plan keeps a part where its own actions send its field.
THEOREM PartsAggregate == Spec => []PartsMeet
<1>1. Init => Inv /\ Meeting BY InitInv, InitMeeting
<1>2. Inv /\ Meeting /\ [Next]_vars => Inv' /\ Meeting' BY StepRefines, StepMeets
<1> QED BY <1>1, <1>2, MeetingParts, PTL DEF Spec

=============================================================================
