------------------------------ MODULE Aggregate ------------------------------
(***************************************************************************)
(* The aggregate action of a server plan (Aggregate, AggregationCatalogue) *)
(* with the domain maps it consults (Mappings, DomainMap).  Every client   *)
(* that holds a part of a domain announces its part, then sends its part   *)
(* of every field and a flush at the end of every step.  The dispatcher    *)
(* hands over the messages of one client in the order they were sent (see  *)
(* IOServer) and those of different clients in any order.                  *)
(***************************************************************************)
EXTENDS Naturals, FiniteSets, Functions

CONSTANTS Sources,      \* client peers
          Domains,      \* names of domains
          Members,      \* Members[d]: the clients that hold a part of d
          LocalSize,    \* LocalSize[d][p]: Domain::localSize of p's part
          PartialSize,  \* PartialSize[d]: Domain::partialSize
          Fields,       \* field ids
          DomainOf,     \* DomainOf[f]: the domain of the field
          StepOf,       \* StepOf[f]: the model step that produces it
          MaxStep       \* bound: model steps

Steps    == 1 .. MaxStep
FlushIds == Domains \X Steps

\* Sum of the local sizes of the parts that have arrived
TotalSize(d, S) == SumFunctionOnSet(LocalSize[d], S)

ASSUME ShapeAssumption ==
    /\ IsFiniteSet(Sources)
    /\ Members \in [Domains -> (SUBSET Sources) \ {{}}]
    /\ DomainOf \in [Fields -> Domains]
    /\ MaxStep \in Nat
    /\ StepOf \in [Fields -> Steps]

\* The parts of a domain add up to its size and none of them is empty.  (A part
\* without points would let isComplete hold before it has arrived.)
ASSUME CoverAssumption ==
    \A d \in Domains : \A S \in SUBSET Members[d] :
        TotalSize(d, S) = PartialSize[d] <=> S = Members[d]

VARIABLES
    known,      \* Mappings: known[d], the sources in the DomainMap of d
    catalogue,  \* keys of messageMap_ and of processedParts_
    written,    \* messageMap_: parts copied into the payload of the global field
    parts,      \* processedParts_: sources booked for the field
    flushes,    \* flushes_: sources whose flush has arrived
    failed,     \* an exception has left the action
    arrived,    \* history: fields received from each source
    flushArrived, \* history: flushes received from each source
    emitted,    \* history: how often the global field was passed on
    payload,    \* history: the parts in the payload that was passed on
    flushed,    \* history: how often the flush was passed on
    passed      \* history: sources whose "global" flush was passed on

catVars == <<catalogue, written, parts>>
vars == <<known, catVars, flushes, failed, arrived, flushArrived, emitted, payload, flushed, passed>>

Init ==
    /\ known = [d \in Domains |-> {}]
    /\ catalogue = {}
    /\ written = [f \in Fields |-> {}]
    /\ parts = [f \in Fields |-> {}]
    /\ flushes = [i \in FlushIds |-> {}]
    /\ failed = FALSE
    /\ arrived = [p \in Sources |-> {}]
    /\ flushArrived = [p \in Sources |-> {}]
    /\ emitted = [f \in Fields |-> 0]
    /\ payload = [f \in Fields |-> {}]
    /\ flushed = [i \in FlushIds |-> 0]
    /\ passed = {}

-----------------------------------------------------------------------------
(* What a client sends: its domain first, each part of a field once, and the *)
(* flush of a step after the fields of that step.                            *)

MaySendField(p, f) ==
    /\ p \in Members[DomainOf[f]] /\ p \in known[DomainOf[f]]
    /\ f \notin arrived[p]
    /\ \A i \in flushArrived[p] : i[1] = DomainOf[f] => i[2] < StepOf[f]

FieldsUpTo(d, k) == {f \in Fields : DomainOf[f] = d /\ StepOf[f] <= k}

MaySendFlush(p, d, k) ==
    /\ p \in Members[d] /\ p \in known[d]
    /\ <<d, k>> \notin flushArrived[p]
    /\ FieldsUpTo(d, k) \subseteq arrived[p]

-----------------------------------------------------------------------------

\* mutant: any part makes the map complete
IsCompleteAny(d) == known[d] # {}

\* DomainMap::isComplete
IsComplete(d) == TotalSize(d, known[d]) = PartialSize[d]

\* mutant: the part is filed under the next rank
AddDomainNextRank(p, d) ==
    /\ p \in Members[d]
    /\ known' = [known EXCEPT ![d] = @ \cup {p + 1}]
    /\ UNCHANGED <<catVars, flushes, failed, arrived, flushArrived, emitted, payload, flushed, passed>>

\* Mappings::add; a source that is already in the map is ignored with a warning
AddDomain(p, d) ==
    /\ p \in Members[d]
    /\ known' = [known EXCEPT ![d] = @ \cup {p}]
    /\ UNCHANGED <<catVars, flushes, failed, arrived, flushArrived, emitted, payload, flushed, passed>>

\* contains / addNew: the entry the part goes to, a fresh one if there is none
Entry(map, f) == IF f \in catalogue THEN map[f] ELSE {}

\* allPartsArrived, with the sources booked for the field
AllPartsArrived(d, booked) ==
    IsComplete(d) /\ Cardinality(booked) = Cardinality(known[d])

\* mutant: asks whether all parts have arrived before it books this one
HandleFieldAskFirst(p, f) ==
    LET d == DomainOf[f]
        w == Entry(written, f) \cup {p}
        q == Entry(parts, f) \cup {p}
    IN  /\ ~ failed
        /\ MaySendField(p, f)
        /\ arrived' = [arrived EXCEPT ![p] = @ \cup {f}]
        /\ IF AllPartsArrived(d, Entry(parts, f))
           THEN /\ catalogue' = catalogue \ {f}
                /\ written' = [written EXCEPT ![f] = {}]
                /\ parts' = [parts EXCEPT ![f] = {}]
                /\ emitted' = [emitted EXCEPT ![f] = @ + 1]
                /\ payload' = [payload EXCEPT ![f] = w]
           ELSE /\ catalogue' = catalogue \cup {f}
                /\ written' = [written EXCEPT ![f] = w]
                /\ parts' = [parts EXCEPT ![f] = q]
                /\ UNCHANGED <<emitted, payload>>
        /\ UNCHANGED <<known, flushes, failed, flushArrived, flushed, passed>>

\* handleField, then executeNext(globalField(fid)) if all parts are there
HandleField(p, f) ==
    LET d == DomainOf[f]
        w == Entry(written, f) \cup {p}
        q == Entry(parts, f) \cup {p}
    IN  /\ ~ failed
        /\ MaySendField(p, f)
        /\ arrived' = [arrived EXCEPT ![p] = @ \cup {f}]
        /\ IF AllPartsArrived(d, q)
           THEN /\ catalogue' = catalogue \ {f}
                /\ written' = [written EXCEPT ![f] = {}]
                /\ parts' = [parts EXCEPT ![f] = {}]
                /\ emitted' = [emitted EXCEPT ![f] = @ + 1]
                /\ payload' = [payload EXCEPT ![f] = w]
           ELSE /\ catalogue' = catalogue \cup {f}
                /\ written' = [written EXCEPT ![f] = w]
                /\ parts' = [parts EXCEPT ![f] = q]
                /\ UNCHANGED <<emitted, payload>>
        /\ UNCHANGED <<known, flushes, failed, flushArrived, flushed, passed>>

\* mutant: passes the first flush on instead of waiting for all sources
HandleFlushFirst(p, d, k) ==
    LET i == <<d, k>>
    IN  /\ ~ failed
        /\ MaySendFlush(p, d, k)
        /\ flushArrived' = [flushArrived EXCEPT ![p] = @ \cup {i}]
        /\ flushes' = [flushes EXCEPT ![i] = @ \cup {p}]
        /\ flushed' = [flushed EXCEPT ![i] = 1]
        /\ UNCHANGED <<known, failed, catVars, arrived, emitted, payload, passed>>

\* mutant: flushes of all steps are counted under one id
HandleFlushNoStep(p, d, k) ==
    LET i == <<d, 1>>
        q == flushes[i] \cup {p}
    IN  /\ ~ failed
        /\ MaySendFlush(p, d, k)
        /\ flushArrived' = [flushArrived EXCEPT ![p] = @ \cup {<<d, k>>}]
        /\ failed' = (p \in flushes[i])
        /\ IF p \notin flushes[i] /\ AllPartsArrived(d, q)
           THEN /\ flushes' = [flushes EXCEPT ![i] = {}]
                /\ flushed' = [flushed EXCEPT ![<<d, k>>] = @ + 1]
           ELSE /\ flushes' = [flushes EXCEPT ![i] = q]
                /\ UNCHANGED flushed
        /\ UNCHANGED <<known, catVars, arrived, emitted, payload, passed>>

\* handleFlush of a flush with a domain: flushCount throws for a second flush of
\* the same source; the last one passes a global flush on and resets the count
HandleFlush(p, d, k) ==
    LET i == <<d, k>>
        q == flushes[i] \cup {p}
    IN  /\ ~ failed
        /\ MaySendFlush(p, d, k)
        /\ flushArrived' = [flushArrived EXCEPT ![p] = @ \cup {i}]
        /\ failed' = (p \in flushes[i])
        /\ IF p \notin flushes[i] /\ AllPartsArrived(d, q)
           THEN /\ flushes' = [flushes EXCEPT ![i] = {}]
                /\ flushed' = [flushed EXCEPT ![i] = @ + 1]
           ELSE /\ flushes' = [flushes EXCEPT ![i] = q]
                /\ UNCHANGED flushed
        /\ UNCHANGED <<known, catVars, arrived, emitted, payload, passed>>

\* handleFlush with domain "global", as multio_synchronize and
\* multio_close_connections send it: every client's flush is passed on at once
GlobalFlush(p) ==
    /\ ~ failed
    /\ p \notin passed
    /\ passed' = passed \cup {p}
    /\ UNCHANGED <<known, catVars, flushes, failed, arrived, flushArrived, emitted, payload, flushed>>

Next ==
    \/ \E p \in Sources, d \in Domains : AddDomain(p, d)
    \/ \E p \in Sources, f \in Fields : HandleField(p, f)
    \/ \E p \in Sources, d \in Domains, k \in Steps : HandleFlush(p, d, k)
    \/ \E p \in Sources : GlobalFlush(p)

Spec == Init /\ [][Next]_vars

-----------------------------------------------------------------------------

TypeOK ==
    /\ known \in [Domains -> SUBSET Sources]
    /\ catalogue \subseteq Fields
    /\ written \in [Fields -> SUBSET Sources]
    /\ parts \in [Fields -> SUBSET Sources]
    /\ flushes \in [FlushIds -> SUBSET Sources]
    /\ failed \in BOOLEAN
    /\ arrived \in [Sources -> SUBSET Fields]
    /\ flushArrived \in [Sources -> SUBSET FlushIds]
    /\ emitted \in [Fields -> Nat]
    /\ payload \in [Fields -> SUBSET Sources]
    /\ flushed \in [FlushIds -> Nat]
    /\ passed \subseteq Sources

\* A global field is passed on with the part of every client of its domain in
\* its payload, although the decision looks only at two numbers.
EmittedWhole ==
    \A f \in Fields : emitted[f] > 0 => payload[f] = Members[DomainOf[f]]

AllSent(f) == \A p \in Members[DomainOf[f]] : f \in arrived[p]

\* A field is passed on when its last part arrives, and only once: it is never
\* forgotten in the catalogue, in whichever order parts and domains come.
EmittedExactlyOnce ==
    \A f \in Fields : /\ emitted[f] = IF AllSent(f) THEN 1 ELSE 0
                      /\ AllSent(f) => f \notin catalogue

\* The flush of a step is passed on only after every field of that domain and
\* of the steps up to it: what comes after the action may take it as complete.
FlushAfterFields ==
    \A i \in FlushIds : flushed[i] > 0 =>
        \A f \in FieldsUpTo(i[1], i[2]) : emitted[f] = 1

\* A flush is passed on once, when the last client has sent it, and no client's
\* flush is taken for a repetition.
FlushedExactlyOnce ==
    /\ ~ failed
    /\ \A i \in FlushIds :
          flushed[i] = IF \A p \in Members[i[1]] : i \in flushArrived[p] THEN 1 ELSE 0

=============================================================================
