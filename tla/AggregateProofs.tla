--------------------------- MODULE AggregateProofs ---------------------------
(* Aggregation is complete and never premature, for any clients, domains and *)
(* fields.                                                                   *)
EXTENDS Masks, FiniteSetTheorems, TLAPS

\* Clients whose part of f, whose flush i, has been received
Got(f)      == {p \in Sources : f \in arrived[p]}
GotFlush(i) == {p \in Sources : i \in flushArrived[p]}

\* The environment: a client is in the domain map before it sends anything
Announced ==
    /\ \A d \in Domains : known[d] \subseteq Members[d]
    /\ \A f \in Fields : Got(f) \subseteq known[DomainOf[f]]
    /\ \A i \in FlushIds : GotFlush(i) \subseteq known[i[1]]
    /\ \A i \in FlushIds : \A p \in GotFlush(i) : FieldsUpTo(i[1], i[2]) \subseteq arrived[p]

\* The catalogue holds the parts of the fields that are not complete
FieldState(f) ==
    LET all == Got(f) = Members[DomainOf[f]]
    IN  /\ f \in catalogue <=> Got(f) # {} /\ ~ all
        /\ f \in catalogue => parts[f] = Got(f) /\ written[f] = Got(f)
        /\ emitted[f] = IF all THEN 1 ELSE 0
        /\ all => payload[f] = Members[DomainOf[f]]

FlushState(i) ==
    LET all == GotFlush(i) = Members[i[1]]
    IN  /\ flushes[i] = IF all THEN {} ELSE GotFlush(i)
        /\ flushed[i] = IF all THEN 1 ELSE 0

FieldInv == \A f \in Fields : FieldState(f)
FlushInv == ~ failed /\ \A i \in FlushIds : FlushState(i)

Inv == TypeOK /\ Announced /\ FieldInv /\ FlushInv

\* Counting parts and adding up sizes decide exactly whether everyone is there.
LEMMA CountsDecide ==
    ASSUME TypeOK, Announced, NEW d \in Domains, NEW q \in SUBSET known[d]
    PROVE  AllPartsArrived(d, q) <=> q = Members[d]
<1>1. known[d] \subseteq Members[d] /\ Members[d] \subseteq Sources
  BY ShapeAssumption DEF Announced
<1>2. IsFiniteSet(known[d]) BY <1>1, ShapeAssumption, FS_Subset
<1>3. IsComplete(d) <=> known[d] = Members[d]
  BY <1>1, CoverAssumption DEF IsComplete
<1>4. Cardinality(q) = Cardinality(known[d]) <=> q = known[d]
  BY <1>2, FS_Subset
<1> QED BY <1>1, <1>3, <1>4 DEF AllPartsArrived

\* Nothing has arrived and nothing was passed on at the start.
LEMMA InitInv == Init => Inv
<1> SUFFICES ASSUME Init PROVE Inv OBVIOUS
<1>1. TypeOK BY ShapeAssumption DEF Init, TypeOK
<1>2. /\ \A f \in Fields : Got(f) = {} /\ Members[DomainOf[f]] # {}
      /\ \A i \in FlushIds : GotFlush(i) = {} /\ Members[i[1]] # {}
  BY ShapeAssumption DEF Init, Got, GotFlush, FlushIds
<1>3. Announced BY <1>2 DEF Init, Announced
<1>4. FieldInv BY <1>2 DEF Init, FieldInv, FieldState
<1>5. FlushInv BY <1>2 DEF Init, FlushInv, FlushState
<1> QED BY <1>1, <1>3, <1>4, <1>5 DEF Inv

\* A part that arrives keeps the environment's order and the field's state.
LEMMA FieldStep ==
    ASSUME Inv, NEW p \in Sources, NEW f \in Fields, HandleField(p, f)
    PROVE  Inv'
<1> DEFINE d == DomainOf[f]
           q == Entry(parts, f) \cup {p}
           w == Entry(written, f) \cup {p}
<1> USE DEF Inv
<1>1. d \in Domains /\ p \in known[d] /\ p \in Members[d] /\ f \notin arrived[p]
  BY ShapeAssumption DEF HandleField, MaySendField
<1>2. \A g \in Fields : Got(g)' = IF g = f THEN Got(f) \cup {p} ELSE Got(g)
  BY DEF HandleField, Got, TypeOK
<1>3. \A i \in FlushIds : GotFlush(i)' = GotFlush(i)
  BY DEF HandleField, GotFlush
<1>4. TypeOK'
  <2>1. q \in SUBSET Sources /\ w \in SUBSET Sources
    BY DEF Entry, TypeOK
  <2>2. arrived' \in [Sources -> SUBSET Fields] BY DEF HandleField, TypeOK
  <2>3. CASE AllPartsArrived(d, q)
    BY <2>1, <2>2, <2>3 DEF HandleField, TypeOK
  <2>4. CASE ~ AllPartsArrived(d, q)
    BY <2>1, <2>2, <2>4 DEF HandleField, TypeOK
  <2> QED BY <2>3, <2>4
<1>5. Announced'
  <2>1. known' = known BY DEF HandleField
  <2>2. \A g \in Fields : Got(g)' \subseteq known[DomainOf[g]] BY <1>1, <1>2 DEF Announced
  <2>3. \A i \in FlushIds : \A r \in GotFlush(i) : FieldsUpTo(i[1], i[2]) \subseteq arrived'[r]
    BY DEF Announced, HandleField, TypeOK, GotFlush
  <2> QED BY <1>3, <2>1, <2>2, <2>3 DEF Announced, FieldsUpTo
<1>6. Entry(parts, f) = Got(f) /\ Entry(written, f) = Got(f)
  <2>1. Got(f) # Members[d] BY <1>1, ShapeAssumption DEF Got
  <2> QED BY <2>1 DEF Entry, FieldInv, FieldState
<1>7. AllPartsArrived(d, q) <=> q = Members[d]
  <2>1. q \subseteq known[d] BY <1>1, <1>6 DEF Announced
  <2> QED BY <1>1, <2>1, CountsDecide
<1>8. FieldState(f)'
  <2>1. Got(f)' = q /\ w = q BY <1>2, <1>6
  <2>2. emitted[f] = 0 BY <1>1, ShapeAssumption DEF FieldInv, FieldState, Got
  <2>3. q # {} OBVIOUS
  <2>4. CASE q = Members[d]
    <3>1. f \notin catalogue' /\ emitted'[f] = 1 /\ payload'[f] = w
      BY <1>7, <2>2, <2>4 DEF HandleField, TypeOK
    <3> QED BY <2>1, <2>4, <3>1 DEF FieldState
  <2>5. CASE q # Members[d]
    BY <1>7, <2>1, <2>2, <2>3, <2>5 DEF HandleField, FieldState, TypeOK
  <2> QED BY <2>4, <2>5
<1>9. \A g \in Fields \ {f} : FieldState(g)'
  <2> TAKE g \in Fields \ {f}
  <2>1. Got(g)' = Got(g) BY <1>2
  <2>2. /\ g \in catalogue' <=> g \in catalogue
        /\ parts'[g] = parts[g] /\ written'[g] = written[g]
        /\ emitted'[g] = emitted[g] /\ payload'[g] = payload[g]
    BY DEF HandleField, TypeOK
  <2> QED BY <2>1, <2>2 DEF FieldInv, FieldState
<1>10. FlushInv'
  BY <1>3 DEF HandleField, FlushInv, FlushState
<1> QED BY <1>4, <1>5, <1>8, <1>9, <1>10 DEF FieldInv

\* A flush that arrives keeps the fields alone and the count of its id exact.
LEMMA FlushStep ==
    ASSUME Inv, NEW p \in Sources, NEW d \in Domains, NEW k \in Steps, HandleFlush(p, d, k)
    PROVE  Inv'
<1> USE DEF Inv
<1>0. PICK i \in FlushIds : i = <<d, k>> /\ i[1] = d /\ i[2] = k
  <2>1. <<d, k>> \in FlushIds BY DEF FlushIds
  <2>2. <<d, k>>[1] = d /\ <<d, k>>[2] = k OBVIOUS
  <2> QED BY <2>1, <2>2
<1> DEFINE q == flushes[i] \cup {p}
<1>1. /\ p \in known[d] /\ p \in Members[d] /\ i \notin flushArrived[p]
      /\ FieldsUpTo(d, k) \subseteq arrived[p]
      /\ i[1] = d /\ i[2] = k
  BY <1>0 DEF HandleFlush, MaySendFlush
<1>eff. /\ flushArrived' = [flushArrived EXCEPT ![p] = @ \cup {i}]
       /\ failed' = (p \in flushes[i])
       /\ IF p \notin flushes[i] /\ AllPartsArrived(d, q)
          THEN /\ flushes' = [flushes EXCEPT ![i] = {}]
               /\ flushed' = [flushed EXCEPT ![i] = @ + 1]
          ELSE /\ flushes' = [flushes EXCEPT ![i] = q]
               /\ UNCHANGED flushed
  BY <1>0, Zenon DEF HandleFlush
<1>2. \A j \in FlushIds : GotFlush(j)' = IF j = i THEN GotFlush(i) \cup {p} ELSE GotFlush(j)
  BY <1>eff DEF GotFlush, TypeOK
<1>3. \A f \in Fields : Got(f)' = Got(f) BY DEF HandleFlush, Got
<1>4. flushes[i] = GotFlush(i) /\ p \notin flushes[i] /\ flushed[i] = 0
  <2>1. p \notin GotFlush(i) /\ GotFlush(i) # Members[d] BY <1>1 DEF GotFlush
  <2> QED BY <1>1, <2>1 DEF FlushInv, FlushState
<1>5. AllPartsArrived(d, q) <=> q = Members[d]
  <2>1. q \subseteq known[d] BY <1>1, <1>4 DEF Announced
  <2> QED BY <2>1, CountsDecide
<1>6. TypeOK'
  <2>1. q \in SUBSET Sources BY <1>1 DEF TypeOK
  <2>2. flushArrived' \in [Sources -> SUBSET FlushIds] BY <1>eff DEF TypeOK
  <2>3. failed' \in BOOLEAN BY <1>eff
  <2>4. flushes' \in [FlushIds -> SUBSET Sources] /\ flushed' \in [FlushIds -> Nat]
    <3>1. CASE AllPartsArrived(d, q)
      BY <1>4, <1>eff, <2>1, <3>1 DEF TypeOK
    <3>2. CASE ~ AllPartsArrived(d, q)
      BY <1>4, <1>eff, <2>1, <3>2 DEF TypeOK
    <3> QED BY <3>1, <3>2
  <2> QED BY <2>2, <2>3, <2>4 DEF HandleFlush, TypeOK, catVars
<1>7. Announced'
  <2>1. known' = known /\ arrived' = arrived BY DEF HandleFlush
  <2>2. \A j \in FlushIds : GotFlush(j)' \subseteq known[j[1]] BY <1>1, <1>2 DEF Announced
  <2>3. \A j \in FlushIds : \A r \in GotFlush(j)' : FieldsUpTo(j[1], j[2]) \subseteq arrived[r]
    BY <1>1, <1>2 DEF Announced
  <2> QED BY <1>3, <2>1, <2>2, <2>3 DEF Announced, FieldsUpTo
<1>8. FieldInv'
  BY <1>3 DEF HandleFlush, catVars, FieldInv, FieldState
<1>9. FlushState(i)'
  <2>1. GotFlush(i)' = q BY <1>1, <1>2, <1>4
  <2>2. CASE q = Members[d]
    <3>1. flushes'[i] = {} /\ flushed'[i] = 1
      BY <1>4, <1>5, <1>eff, <2>2 DEF TypeOK
    <3> QED BY <1>1, <2>1, <2>2, <3>1 DEF FlushState
  <2>3. CASE q # Members[d]
    BY <1>1, <1>4, <1>5, <1>eff, <2>1, <2>3 DEF FlushState, TypeOK
  <2> QED BY <2>2, <2>3
<1>10. \A j \in FlushIds \ {i} : FlushState(j)'
  <2> TAKE j \in FlushIds \ {i}
  <2>1. GotFlush(j)' = GotFlush(j) BY <1>2
  <2>2. flushes'[j] = flushes[j] /\ flushed'[j] = flushed[j] BY <1>eff DEF TypeOK
  <2> QED BY <2>1, <2>2 DEF FlushInv, FlushState
<1>11. ~ failed' BY <1>4, <1>eff
<1> QED BY <1>6, <1>7, <1>8, <1>9, <1>10, <1>11 DEF FlushInv

\* Every message the dispatcher can hand over keeps the invariant.
LEMMA StepInv == Inv /\ [Next]_vars => Inv'
<1> SUFFICES ASSUME Inv, [Next]_vars PROVE Inv' OBVIOUS
<1> USE DEF Inv
<1>1. ASSUME NEW p \in Sources, NEW d \in Domains, AddDomain(p, d) PROVE Inv'
  <2>1. /\ \A f \in Fields : Got(f)' = Got(f)
        /\ \A i \in FlushIds : GotFlush(i)' = GotFlush(i)
    BY <1>1 DEF AddDomain, Got, GotFlush
  <2>2. \A e \in Domains : known'[e] = IF e = d THEN known[d] \cup {p} ELSE known[e]
    BY <1>1 DEF AddDomain, TypeOK
  <2>3. TypeOK' BY <1>1 DEF AddDomain, catVars, TypeOK
  <2>4. Announced'
    <3>1. \A e \in Domains : known'[e] \subseteq Members[e] /\ known[e] \subseteq known'[e]
      BY <1>1, <2>2 DEF AddDomain, Announced
    <3>2. \A f \in Fields : DomainOf[f] \in Domains BY ShapeAssumption
    <3>3. \A i \in FlushIds : i[1] \in Domains BY DEF FlushIds
    <3>4. arrived' = arrived BY <1>1 DEF AddDomain
    <3>5. \A f \in Fields : Got(f)' \subseteq known'[DomainOf[f]]
      BY <2>1, <3>1, <3>2 DEF Announced
    <3>6. \A i \in FlushIds : GotFlush(i)' \subseteq known'[i[1]]
      BY <2>1, <3>1, <3>3 DEF Announced
    <3> QED BY <2>1, <3>1, <3>4, <3>5, <3>6 DEF Announced, FieldsUpTo
  <2>5. FieldInv' BY <1>1, <2>1 DEF AddDomain, catVars, FieldInv, FieldState
  <2>6. FlushInv' BY <1>1, <2>1 DEF AddDomain, FlushInv, FlushState
  <2> QED BY <2>3, <2>4, <2>5, <2>6
<1>2. ASSUME UNCHANGED <<known, catVars, flushes, failed, arrived, flushArrived, emitted, payload, flushed>>,
             passed' \subseteq Sources
      PROVE  Inv'
  BY <1>2 DEF catVars, TypeOK, Announced, FieldInv, FieldState, FlushInv, FlushState, Got, GotFlush, FieldsUpTo
<1>3. ASSUME NEW p \in Sources, GlobalFlush(p) PROVE Inv'
  BY <1>2, <1>3 DEF GlobalFlush, TypeOK
<1>4. CASE UNCHANGED vars
  BY <1>2, <1>4 DEF vars, TypeOK
<1> QED BY <1>1, <1>3, <1>4, FieldStep, FlushStep DEF Next

\* The inductive invariant holds in every state of the action.
LEMMA Invariance == Spec => []Inv
BY InitInv, StepInv, PTL DEF Spec

\* The members of Aggregate and its catalogue keep their types.
THEOREM TypeCorrect == Spec => []TypeOK
<1>1. Inv => TypeOK BY DEF Inv
<1> QED BY <1>1, Invariance, PTL

\* Got(f) is everyone exactly when all members have sent their part.
LEMMA AllGot ==
    ASSUME Inv, NEW f \in Fields
    PROVE  AllSent(f) <=> Got(f) = Members[DomainOf[f]]
<1>1. Got(f) \subseteq Members[DomainOf[f]] /\ Members[DomainOf[f]] \subseteq Sources
  BY ShapeAssumption DEF Inv, Announced
<1> QED BY <1>1 DEF AllSent, Got

\* No global field is passed on with a part missing.
THEOREM FieldsWhole == Spec => []EmittedWhole
<1>1. Inv => EmittedWhole BY DEF Inv, FieldInv, FieldState, EmittedWhole
<1> QED BY <1>1, Invariance, PTL

\* The last part of a field passes it on, once.
THEOREM FieldsOnce == Spec => []EmittedExactlyOnce
<1>1. Inv => EmittedExactlyOnce
  BY AllGot DEF Inv, FieldInv, FieldState, EmittedExactlyOnce
<1> QED BY <1>1, Invariance, PTL

\* The flush of a step comes out behind the fields of the step.
THEOREM FlushOrdered == Spec => []FlushAfterFields
<1>1. Inv => FlushAfterFields
  <2> SUFFICES ASSUME Inv, NEW i \in FlushIds, flushed[i] > 0,
                      NEW f \in FieldsUpTo(i[1], i[2])
               PROVE  emitted[f] = 1
    BY DEF FlushAfterFields
  <2>1. GotFlush(i) = Members[i[1]] BY DEF Inv, FlushInv, FlushState
  <2>2. f \in Fields /\ DomainOf[f] = i[1] BY DEF FieldsUpTo
  <2>3. \A p \in Members[i[1]] : f \in arrived[p] BY <2>1 DEF Inv, Announced
  <2>4. Got(f) = Members[DomainOf[f]] BY <2>2, <2>3, AllGot DEF AllSent
  <2> QED BY <2>2, <2>4 DEF Inv, FieldInv, FieldState
<1> QED BY <1>1, Invariance, PTL

\* The last flush of a step is passed on, once, and none is refused.
THEOREM FlushesOnce == Spec => []FlushedExactlyOnce
<1>1. Inv => FlushedExactlyOnce
  <2> SUFFICES ASSUME Inv, NEW i \in FlushIds
               PROVE  GotFlush(i) = Members[i[1]] <=> \A p \in Members[i[1]] : i \in flushArrived[p]
    BY DEF Inv, FlushInv, FlushState, FlushedExactlyOnce
  <2>1. i[1] \in Domains BY DEF FlushIds
  <2>2. GotFlush(i) \subseteq Members[i[1]] /\ Members[i[1]] \subseteq Sources
    BY <2>1, ShapeAssumption DEF Inv, Announced
  <2> QED BY <2>2 DEF GotFlush
<1> QED BY <1>1, Invariance, PTL

-----------------------------------------------------------------------------
(* A plan that masks.  Masks sits on top of the aggregate action without     *)
(* disturbing it: every behaviour of MaskSpec is one of Aggregate's Spec, so *)
(* that what is proved of the aggregate action holds in a plan that masks.   *)

\* A step of the masked plan is a step of the aggregate action or does not touch
\* its state.
LEMMA MaskStep == MaskNext => Next \/ UNCHANGED vars
<1> SUFFICES ASSUME MaskNext PROVE Next \/ UNCHANGED vars
    OBVIOUS
<1>1. CASE \E p \in Sources, d \in Domains : AddDomain(p, d) /\ UNCHANGED maskVars
    BY <1>1 DEF Next
<1>2. CASE \E p \in Sources, d \in Domains, k \in Steps : AddMask(p, d, k)
    BY <1>2 DEF AddMask
<1>3. CASE \E p \in Sources, f \in Fields : MaskField(p, f)
    BY <1>3 DEF Next, MaskField
<1>4. CASE \E p \in Sources, d \in Domains, k \in Steps :
               HandleFlush(p, d, k) /\ UNCHANGED maskVars
    BY <1>4 DEF Next
<1>5. CASE \E p \in Sources : GlobalFlush(p) /\ UNCHANGED maskVars
    BY <1>5 DEF Next
<1>6. QED
    BY <1>1, <1>2, <1>3, <1>4, <1>5 DEF MaskNext

\* Masking is invisible to the aggregation: Mask messages are kept in domain::Mask
\* and the mask action works behind Aggregate::executeImpl.
THEOREM MasksImplement == MaskSpec => Spec
<1>1. MaskInit => Init
    BY DEF MaskInit
<1>2. [MaskNext]_allVars => [Next]_vars
    BY MaskStep DEF allVars
<1>3. QED
    BY <1>1, <1>2, PTL DEF MaskSpec, Spec

\* Hence the mask action is only ever given fields that hold the parts of all
\* clients of the domain, whose mask it applies cell by cell.
THEOREM MaskedWhole == MaskSpec => []EmittedWhole
    BY MasksImplement, FieldsWhole, PTL
=============================================================================
