---------------------------- MODULE TracerProofs ----------------------------
(***************************************************************************)
(* No chunk is lost or doubled, for any number of threads that record, of  *)
(* chunks and of events, as long as a thread that flushes is alone; and    *)
(* what a thread that traces alone records reaches the file in order.      *)
(***************************************************************************)
EXTENDS Tracer, FiniteSetTheorems, SequenceTheorems, TLAPS

Typed ==
    /\ available \in Seq(Chunks) /\ writing \in Seq(Chunks)
    /\ current \in Chunks \X Nat /\ writer \in Chunks
    /\ pc \in [Recorders -> {"idle", "choose", "exchange", "handover", "write"}]
    /\ call \in [Recorders -> {"none", "record", "flush"}]
    /\ seen \in [Recorders -> Chunks \X Nat]
    /\ got \in [Recorders -> Seq(Chunks)]
    /\ events \in [Recorders -> Nat] /\ flushes \in [Recorders -> Nat]

\* A thread has a chunk in its hands while it tries to switch to it, or has.
Taken ==
    \A t \in Recorders :
        /\ pc[t] \in {"idle", "choose", "write"} => got[t] = <<>>
        /\ pc[t] = "exchange" => IF Switches(t) THEN Len(got[t]) = 1 ELSE got[t] = <<>>

\* A thread that has flushed is the only one that has done anything, and what a
\* thread has seen while it is alone is what is there.
Solo ==
    \A t \in Recorders :
        /\ flushes[t] > 0 => Alone(t)
        /\ call[t] = "flush" => flushes[t] > 0
        /\ events[t] = 0 /\ flushes[t] = 0 => pc[t] = "idle"
        /\ Alone(t) /\ pc[t] \in {"choose", "exchange"} => seen[t] = current

Inv == Typed /\ Taken /\ Solo /\ ChunksConserved

-----------------------------------------------------------------------------
(* Counting places *)

\* 1 if P holds
One(P) == IF P THEN 1 ELSE 0

Holders(c) == {t \in Recorders : c \in {Held(t)[i] : i \in 1 .. Len(Held(t))}}

LEMMA PositionsFinite ==
    ASSUME NEW S, NEW s \in Seq(S), NEW c
    PROVE  IsFiniteSet(Positions(s, c)) /\ Cardinality(Positions(s, c)) \in Nat
<1>1. IsFiniteSet(1 .. Len(s)) BY FS_Interval
<1>2. Positions(s, c) \subseteq 1 .. Len(s) BY DEF Positions
<1> QED BY <1>1, <1>2, FS_Subset, FS_CardinalityType

\* What a push adds to a queue
LEMMA CountAppend ==
    ASSUME NEW S, NEW s \in Seq(S), NEW x \in S, NEW c
    PROVE  Cardinality(Positions(Append(s, x), c)) = Cardinality(Positions(s, c)) + One(x = c)
<1>1. PICK n \in Nat : n = Len(s) OBVIOUS
<1>2. /\ Len(Append(s, x)) = n + 1 /\ Append(s, x)[n + 1] = x
      /\ \A i \in 1 .. n : Append(s, x)[i] = s[i]
  BY <1>1
<1>3. n + 1 \notin Positions(s, c) BY <1>1 DEF Positions
<1>4. IsFiniteSet(Positions(s, c)) /\ Cardinality(Positions(s, c)) \in Nat BY PositionsFinite
<1>5. CASE x = c
  <2>1. Positions(Append(s, x), c) = Positions(s, c) \cup {n + 1}
    BY <1>1, <1>2, <1>5 DEF Positions
  <2> QED BY <1>3, <1>4, <1>5, <2>1, FS_AddElement DEF One
<1>6. CASE x # c
  <2>1. Positions(Append(s, x), c) = Positions(s, c) BY <1>1, <1>2, <1>6 DEF Positions
  <2> QED BY <1>4, <1>6, <2>1 DEF One
<1> QED BY <1>5, <1>6

\* What a pop takes from it
LEMMA CountTail ==
    ASSUME NEW S, NEW s \in Seq(S), s # <<>>, NEW c
    PROVE  Cardinality(Positions(s, c)) = Cardinality(Positions(Tail(s), c)) + One(Head(s) = c)
<1>1. PICK n \in Nat : n = Len(s) /\ n > 0 OBVIOUS
<1>2. PICK P : P = Positions(Tail(s), c) OBVIOUS
<1>3. PICK Q : Q = Positions(s, c) \ {1} OBVIOUS
<1>4. /\ Tail(s) \in Seq(S) /\ Len(Tail(s)) = n - 1
      /\ \A i \in 1 .. n - 1 : Tail(s)[i] = s[i + 1]
  BY <1>1
<1>5. P \subseteq 1 .. n - 1 /\ Q \subseteq 2 .. n BY <1>1, <1>2, <1>3, <1>4 DEF Positions
<1>6. \A i \in 1 .. n - 1 : i \in P <=> i + 1 \in Q
  BY <1>1, <1>2, <1>3, <1>4 DEF Positions
<1>7. ExistsBijection(P, Q)
  <2>1. PICK f : f = [i \in P |-> i + 1] OBVIOUS
  <2>2. f \in [P -> Q] BY <1>5, <1>6, <2>1
  <2>3. \A i, j \in P : f[i] = f[j] => i = j BY <1>5, <2>1
  <2>4. \A j \in Q : \E i \in P : f[i] = j
    <3> SUFFICES ASSUME NEW j \in Q PROVE \E i \in P : f[i] = j OBVIOUS
    <3>1. j - 1 \in 1 .. n - 1 /\ (j - 1) + 1 = j BY <1>5
    <3>2. j - 1 \in P BY <1>6, <3>1
    <3>3. f[j - 1] = j BY <2>1, <3>1, <3>2
    <3> QED BY <3>2, <3>3
  <2> QED BY <2>2, <2>3, <2>4
       DEF ExistsBijection, Bijection, Injection, Surjection, IsInjective
<1>8. IsFiniteSet(P) /\ Cardinality(P) \in Nat BY <1>2, <1>4, PositionsFinite
<1>9. IsFiniteSet(Q) /\ Cardinality(Q) = Cardinality(P) BY <1>7, <1>8, FS_Bijection
<1>10. 1 \notin Q BY <1>3
<1>11. CASE Head(s) = c
  <2>1. 1 \in Positions(s, c) BY <1>1, <1>11 DEF Positions
  <2>2. Positions(s, c) = Q \cup {1} BY <1>3, <2>1
  <2>3. Cardinality(Q \cup {1}) = Cardinality(Q) + 1 BY <1>9, <1>10, FS_AddElement
  <2> QED BY <1>2, <1>9, <1>11, <2>2, <2>3 DEF One
<1>12. CASE Head(s) # c
  <2>1. Positions(s, c) = Q BY <1>1, <1>3, <1>12 DEF Positions
  <2> QED BY <1>2, <1>8, <1>9, <1>12, <2>1 DEF One
<1> QED BY <1>11, <1>12

\* Two sets of threads that differ in t at most
LEMMA CountHolders ==
    ASSUME NEW H \in SUBSET Recorders, NEW K \in SUBSET Recorders, NEW t \in Recorders,
           H \ {t} = K \ {t}
    PROVE  /\ Cardinality(H) \in Nat /\ Cardinality(K) \in Nat
           /\ Cardinality(K) + One(t \in H) = Cardinality(H) + One(t \in K)
<1>1. IsFiniteSet(H) /\ IsFiniteSet(K) BY TracerAssumption, FS_Subset
<1>2. Cardinality(H) \in Nat /\ Cardinality(K) \in Nat BY <1>1, FS_CardinalityType
<1>3. \A S : IsFiniteSet(S) =>
         Cardinality(S \ {t}) = IF t \in S THEN Cardinality(S) - 1 ELSE Cardinality(S)
  BY FS_RemoveElement
<1>4. PICK d : d = Cardinality(H \ {t}) OBVIOUS
<1>5. Cardinality(H) - One(t \in H) = d BY <1>1, <1>2, <1>3, <1>4 DEF One
<1>6. Cardinality(K) - One(t \in K) = d BY <1>1, <1>2, <1>3, <1>4 DEF One
<1>7. One(t \in H) \in Nat /\ One(t \in K) \in Nat BY DEF One
<1> QED BY <1>2, <1>5, <1>6, <1>7

LEMMA PlacesSum ==
    ASSUME Typed, NEW c
    PROVE  /\ PlacesOf(c) = Cardinality(Positions(available, c)) + Cardinality(Positions(writing, c))
                            + Cardinality(Holders(c)) + One(WriterHas /\ writer = c)
                            + One(current[1] = c)
           /\ Cardinality(Positions(available, c)) \in Nat
           /\ Cardinality(Positions(writing, c)) \in Nat
           /\ Cardinality(Holders(c)) \in Nat
<1>1. Holders(c) \in SUBSET Recorders BY DEF Holders
<1>2. IsFiniteSet(Holders(c)) BY <1>1, TracerAssumption, FS_Subset
<1> QED BY <1>2, PositionsFinite, FS_CardinalityType DEF Typed, PlacesOf, Holders, One

\* A step of t changes who holds a chunk by t at most.
LEMMA HoldersStep ==
    ASSUME Typed, Typed', NEW t \in Recorders, NEW c,
           \A u \in Others(t) : pc'[u] = pc[u] /\ got'[u] = got[u] /\ seen'[u] = seen[u]
    PROVE  Cardinality(Holders(c))' + One(t \in Holders(c))
              = Cardinality(Holders(c)) + One(t \in Holders(c)')
<1>1. \A u \in Recorders \ {t} : Held(u)' = Held(u) BY DEF Held, Others
<1>2. Holders(c) \in SUBSET Recorders /\ Holders(c)' \in SUBSET Recorders BY DEF Holders
<1>3. Holders(c) \ {t} = Holders(c)' \ {t} BY <1>1 DEF Holders
<1> QED BY <1>2, <1>3, CountHolders

LEMMA HeldNone ==
    ASSUME NEW t \in Recorders, NEW c, pc[t] \in {"idle", "choose", "write"}
    PROVE  t \notin Holders(c)
BY DEF Holders, Held

LEMMA HeldOne ==
    ASSUME NEW t \in Recorders, NEW c, NEW x, Held(t) = <<x>>
    PROVE  t \in Holders(c) <=> x = c
<1>1. {Held(t)[i] : i \in 1 .. Len(Held(t))} = {x}
  <2>1. PICK h : h = <<x>> OBVIOUS
  <2>2. Len(h) = 1 /\ h[1] = x BY <2>1
  <2>3. {h[i] : i \in 1 .. Len(h)} = {x} BY <2>2
  <2> QED BY <2>1, <2>3
<1> QED BY <1>1 DEF Holders

\* A step of t conserves chunk c if it does so in the places that t reaches.
LEMMA ThreadConserves ==
    ASSUME Typed, Typed', NEW t \in Recorders, NEW c, UNCHANGED <<wpc, writer>>,
           \A u \in Others(t) : pc'[u] = pc[u] /\ got'[u] = got[u] /\ seen'[u] = seen[u],
           Cardinality(Positions(available, c))' + Cardinality(Positions(writing, c))'
             + One(t \in Holders(c)') + One(current'[1] = c)
           = Cardinality(Positions(available, c)) + Cardinality(Positions(writing, c))
             + One(t \in Holders(c)) + One(current[1] = c)
    PROVE  PlacesOf(c)' = PlacesOf(c)
<1>1. /\ PlacesOf(c) = Cardinality(Positions(available, c)) + Cardinality(Positions(writing, c))
                       + Cardinality(Holders(c)) + One(WriterHas /\ writer = c)
                       + One(current[1] = c)
      /\ Cardinality(Positions(available, c)) \in Nat
      /\ Cardinality(Positions(writing, c)) \in Nat
      /\ Cardinality(Holders(c)) \in Nat
  BY PlacesSum
<1>2. /\ PlacesOf(c)' = Cardinality(Positions(available, c))' + Cardinality(Positions(writing, c))'
                        + Cardinality(Holders(c))' + One(WriterHas' /\ writer' = c)
                        + One(current'[1] = c)
      /\ Cardinality(Positions(available, c))' \in Nat
      /\ Cardinality(Positions(writing, c))' \in Nat
      /\ Cardinality(Holders(c))' \in Nat
  <2>1. Holders(c)' \in SUBSET Recorders BY DEF Holders
  <2>2. IsFiniteSet(Holders(c)') BY <2>1, TracerAssumption, FS_Subset
  <2>3. Cardinality(Holders(c)') \in Nat BY <2>2, FS_CardinalityType
  <2>4. available' \in Seq(Chunks) /\ writing' \in Seq(Chunks) BY DEF Typed
  <2>5. /\ Cardinality(Positions(available', c)) \in Nat
        /\ Cardinality(Positions(writing', c)) \in Nat
    BY <2>4, PositionsFinite
  <2>6. PlacesOf(c)' = Cardinality(Positions(available, c))' + Cardinality(Positions(writing, c))'
                       + Cardinality(Holders(c))' + One(WriterHas' /\ writer' = c)
                       + One(current'[1] = c)
    BY DEF PlacesOf, Holders, One
  <2> QED BY <2>3, <2>5, <2>6
<1>3. Cardinality(Holders(c))' + One(t \in Holders(c))
         = Cardinality(Holders(c)) + One(t \in Holders(c)')
  BY HoldersStep
<1>4. One(WriterHas' /\ writer' = c) = One(WriterHas /\ writer = c) BY DEF WriterHas
<1>5. PICK w \in Nat : w = One(WriterHas /\ writer = c) BY DEF One
<1>6. PICK h, k \in Nat : h = One(t \in Holders(c)) /\ k = One(t \in Holders(c)') BY DEF One
<1>7. PICK x, y \in Nat : x = One(current[1] = c) /\ y = One(current'[1] = c) BY DEF One
<1>8. PICK H, K \in Nat : H = Cardinality(Holders(c)) /\ K = Cardinality(Holders(c))'
  BY <1>1, <1>2
<1>9. PICK a, b \in Nat : /\ a = Cardinality(Positions(available, c))
                          /\ b = Cardinality(Positions(available, c))'
  BY <1>1, <1>2
<1>10. PICK d, e \in Nat : /\ d = Cardinality(Positions(writing, c))
                           /\ e = Cardinality(Positions(writing, c))'
  BY <1>1, <1>2
<1>11. PlacesOf(c) = a + d + H + w + x BY <1>1, <1>5, <1>7, <1>8, <1>9, <1>10
<1>12. PlacesOf(c)' = b + e + K + w + y BY <1>2, <1>4, <1>5, <1>7, <1>8, <1>9, <1>10
<1>13. K + h = H + k BY <1>3, <1>6, <1>8
<1>14. b + e + k + y = a + d + h + x BY <1>6, <1>7, <1>9, <1>10
<1> QED BY <1>11, <1>12, <1>13, <1>14

-----------------------------------------------------------------------------
(* The threads that record *)

LEMMA RecordBeginStep ==
    ASSUME Inv, NEW t \in Recorders, RecordBegin(t), \A u \in Others(t) : flushes[u] = 0
    PROVE  Inv'
<1>1. Typed' BY DEF Inv, Typed, RecordBegin, Goto, shared
<1>2. Taken' BY DEF Inv, Typed, Taken, RecordBegin, Goto, Switches
<1>3. Solo'
  <2>1. ASSUME NEW u \in Recorders
        PROVE  /\ flushes'[u] > 0 => Alone(u)'
               /\ call'[u] = "flush" => flushes'[u] > 0
               /\ events'[u] = 0 /\ flushes'[u] = 0 => pc'[u] = "idle"
               /\ Alone(u)' /\ pc'[u] \in {"choose", "exchange"} => seen'[u] = current'
    <3>1. CASE u = t BY <3>1 DEF Inv, Typed, Solo, RecordBegin, Goto, Alone, Others, shared
    <3>2. CASE u # t BY <3>2 DEF Inv, Typed, Solo, RecordBegin, Goto, Alone, Others, shared
    <3> QED BY <3>1, <3>2
  <2> QED BY <2>1 DEF Solo
<1>4. ASSUME NEW c \in Chunks PROVE PlacesOf(c)' = PlacesOf(c)
  <2>1. t \notin Holders(c) BY HeldNone DEF RecordBegin
  <2>2. t \notin Holders(c)' BY DEF RecordBegin, Goto, Holders, Held, Inv, Typed
  <2> QED BY <1>1, <2>1, <2>2, ThreadConserves
       DEF RecordBegin, Goto, Inv, Typed, Others, shared
<1>5. ChunksConserved' BY <1>4 DEF Inv, ChunksConserved, RecordBegin
<1> QED BY <1>1, <1>2, <1>3, <1>5 DEF Inv

LEMMA FlushBeginStep ==
    ASSUME Inv, NEW t \in Recorders, FlushBegin(t), Alone(t)
    PROVE  Inv'
<1>1. Typed' BY DEF Inv, Typed, FlushBegin, Goto, shared
<1>2. Taken' BY DEF Inv, Typed, Taken, FlushBegin, Goto, Switches
<1>3. Solo'
  <2>1. ASSUME NEW u \in Recorders
        PROVE  /\ flushes'[u] > 0 => Alone(u)'
               /\ call'[u] = "flush" => flushes'[u] > 0
               /\ events'[u] = 0 /\ flushes'[u] = 0 => pc'[u] = "idle"
               /\ Alone(u)' /\ pc'[u] \in {"choose", "exchange"} => seen'[u] = current'
    <3>1. CASE u = t BY <3>1 DEF Inv, Typed, Solo, FlushBegin, Goto, Alone, Others, shared
    <3>2. CASE u # t BY <3>2 DEF Inv, Typed, Solo, FlushBegin, Goto, Alone, Others, shared
    <3> QED BY <3>1, <3>2
  <2> QED BY <2>1 DEF Solo
<1>4. ASSUME NEW c \in Chunks PROVE PlacesOf(c)' = PlacesOf(c)
  <2>1. t \notin Holders(c) BY HeldNone DEF FlushBegin
  <2>2. t \notin Holders(c)' BY DEF FlushBegin, Goto, Holders, Held, Inv, Typed
  <2> QED BY <1>1, <2>1, <2>2, ThreadConserves
       DEF FlushBegin, Goto, Inv, Typed, Others, shared
<1>5. ChunksConserved' BY <1>4 DEF Inv, ChunksConserved, FlushBegin
<1> QED BY <1>1, <1>2, <1>3, <1>5 DEF Inv

\* Steps of a call in which nobody begins one
LEMMA SoloKept ==
    ASSUME Inv, NEW t \in Recorders, pc[t] # "idle",
           UNCHANGED <<call, events, flushes>>,
           \A u \in Others(t) : pc'[u] = pc[u] /\ seen'[u] = seen[u],
           pc'[t] \in {"choose", "exchange"} => seen'[t] = current'
    PROVE  Solo'
<1>1. \A u \in Recorders : Alone(u)' <=> Alone(u) BY DEF Alone
<1>2. \A u \in Others(t) : ~ Alone(u) \/ pc[u] = "idle" BY DEF Inv, Solo, Alone, Others
<1>3. ~ (events[t] = 0 /\ flushes[t] = 0) BY DEF Inv, Solo
<1> QED BY <1>1, <1>2, <1>3 DEF Inv, Solo, Others

LEMMA ChooseStep ==
    ASSUME Inv, NEW t \in Recorders, Choose(t)
    PROVE  Inv'
<1>1. /\ pc[t] = "choose" /\ pc' = [pc EXCEPT ![t] = "exchange"]
      /\ UNCHANGED <<current, writing, call, seen, events, flushes, wpc, writer, running>>
      /\ got[t] = <<>>
  BY DEF Choose, Goto, Inv, Taken
<1>2. \/ /\ Switches(t) /\ available # <<>> /\ available' = Tail(available)
         /\ got' = [got EXCEPT ![t] = <<Head(available)>>]
      \/ ~ Switches(t) /\ UNCHANGED <<got, available>>
  BY DEF Choose
<1>3. Typed'
  <2>1. CASE available # <<>> /\ available' = Tail(available)
             /\ got' = [got EXCEPT ![t] = <<Head(available)>>]
    <3>1. Head(available) \in Chunks /\ Tail(available) \in Seq(Chunks) BY <2>1 DEF Inv, Typed
    <3>2. <<Head(available)>> \in Seq(Chunks) BY <3>1
    <3> QED BY <1>1, <2>1, <3>1, <3>2 DEF Inv, Typed
  <2>2. CASE UNCHANGED <<got, available>> BY <1>1, <2>2 DEF Inv, Typed
  <2> QED BY <1>2, <2>1, <2>2
<1>4. Taken'
  <2>1. \A u \in Recorders : Switches(u)' <=> Switches(u) BY <1>1 DEF Switches
  <2>2. \A u \in Others(t) : pc'[u] = pc[u] /\ got'[u] = got[u]
    BY <1>1, <1>2 DEF Inv, Typed, Others
  <2>3. pc'[t] = "exchange" BY <1>1 DEF Inv, Typed
  <2>4. IF Switches(t) THEN Len(got'[t]) = 1 ELSE got'[t] = <<>>
    BY <1>1, <1>2 DEF Inv, Typed
  <2> QED BY <2>1, <2>2, <2>3, <2>4 DEF Inv, Taken, Others
<1>5. Solo'
  <2>1. Alone(t) => seen[t] = current BY <1>1 DEF Inv, Solo
  <2>2. \A u \in Recorders : Alone(u)' <=> Alone(u) BY <1>1 DEF Alone
  <2> QED BY <1>1, <2>1, <2>2 DEF Inv, Solo, Typed
<1>6. ASSUME NEW c \in Chunks PROVE PlacesOf(c)' = PlacesOf(c)
  <2>1. t \notin Holders(c) BY <1>1, HeldNone
  <2>2. \A u \in Others(t) : pc'[u] = pc[u] /\ got'[u] = got[u] /\ seen'[u] = seen[u]
    BY <1>1, <1>2 DEF Inv, Typed, Others
  <2>3. Held(t)' = got'[t] BY <1>1 DEF Held, Inv, Typed
  <2>4. CASE Switches(t) /\ available # <<>> /\ available' = Tail(available)
             /\ got' = [got EXCEPT ![t] = <<Head(available)>>]
    <3>1. Held(t)' = <<Head(available)>> BY <2>3, <2>4 DEF Inv, Typed
    <3>2. t \in Holders(c)' <=> Head(available) = c
      <4>1. PICK h : h = <<Head(available)>> OBVIOUS
      <4>2. Len(h) = 1 /\ h[1] = Head(available) BY <4>1
      <4>3. {h[i] : i \in 1 .. Len(h)} = {Head(available)} BY <4>2
      <4> QED BY <3>1, <4>1, <4>3 DEF Holders
    <3>3. Cardinality(Positions(available, c))
            = Cardinality(Positions(Tail(available), c)) + One(Head(available) = c)
      BY <2>4, CountTail DEF Inv, Typed
    <3>4. Cardinality(Positions(Tail(available), c)) \in Nat
      BY <1>3, <2>4, PositionsFinite DEF Typed
    <3>5. One(t \in Holders(c)') = One(Head(available) = c) /\ One(t \in Holders(c)) = 0
      BY <2>1, <3>2 DEF One
    <3>6. PICK a, b, x, y \in Nat : /\ a = Cardinality(Positions(Tail(available), c))
                                    /\ b = Cardinality(Positions(writing, c))
                                    /\ x = One(Head(available) = c) /\ y = One(current[1] = c)
      BY <3>4, PositionsFinite DEF One, Inv, Typed
    <3>7. a + b + x + y = (a + x) + b + 0 + y OBVIOUS
    <3>8. Cardinality(Positions(available, c))' + Cardinality(Positions(writing, c))'
             + One(t \in Holders(c)') + One(current'[1] = c)
          = Cardinality(Positions(available, c)) + Cardinality(Positions(writing, c))
             + One(t \in Holders(c)) + One(current[1] = c)
      BY <1>1, <2>4, <3>3, <3>5, <3>6, <3>7
    <3> QED BY <1>1, <1>3, <2>2, <3>8, ThreadConserves DEF Inv
  <2>5. CASE ~ Switches(t) /\ UNCHANGED <<got, available>>
    <3>1. Held(t)' = <<>> BY <1>1, <2>3, <2>5
    <3>2. t \notin Holders(c)' BY <3>1 DEF Holders
    <3> QED BY <1>1, <1>3, <2>1, <2>2, <2>5, <3>2, ThreadConserves DEF Inv
  <2> QED BY <1>2, <2>4, <2>5
<1>7. ChunksConserved' BY <1>1, <1>6 DEF Inv, ChunksConserved
<1> QED BY <1>3, <1>4, <1>5, <1>7 DEF Inv

\* The exchange: the chunk that was current and the one taken change places.
LEMMA ReserveStep ==
    ASSUME Inv, NEW t \in Recorders, Reserve(t)
    PROVE  Inv'
<1>1. /\ pc[t] = "exchange" /\ current = seen[t] /\ current' = NextWord(t)
      /\ pc' = [pc EXCEPT ![t] = IF Switches(t) THEN "handover" ELSE "write"]
      /\ UNCHANGED <<available, writing, call, seen, got, events, flushes, wpc, writer, running>>
  BY DEF Reserve, Goto
<1>2. seen[t] \in Chunks \X Nat /\ current \in Chunks \X Nat BY DEF Inv, Typed
<1>3. pc'[t] = IF Switches(t) THEN "handover" ELSE "write" BY <1>1 DEF Inv, Typed
<1>4. ASSUME Switches(t)
      PROVE  /\ got[t] = <<got[t][1]>> /\ got[t][1] \in Chunks
             /\ current'[1] = got[t][1] /\ current' \in Chunks \X Nat
  <2>1. Len(got[t]) = 1 /\ got[t] \in Seq(Chunks) BY <1>1, <1>4 DEF Inv, Taken, Typed
  <2>2. got[t] = <<got[t][1]>> /\ got[t][1] \in Chunks BY <2>1
  <2>3. PICK g \in Chunks : g = got[t][1] BY <2>2
  <2>4. g % ChunkIds = g BY TracerAssumption DEF Chunks
  <2>5. current' = <<g, IF call[t] = "flush" THEN 0 ELSE 1>> BY <1>1, <1>4, <2>3, <2>4 DEF NextWord
  <2> QED BY <2>2, <2>3, <2>5
<1>5. ~ Switches(t) => got[t] = <<>> /\ current'[1] = current[1] /\ current' \in Chunks \X Nat
  BY <1>1, <1>2 DEF Inv, Taken, NextWord
<1>6. Typed' BY <1>1, <1>4, <1>5 DEF Inv, Typed
<1>7. Taken'
  <2>1. \A u \in Recorders : Switches(u)' <=> Switches(u) BY <1>1 DEF Switches
  <2> QED BY <1>1, <1>3, <1>5, <2>1 DEF Inv, Taken, Typed
<1>8. \A u \in Others(t) : pc'[u] = pc[u] /\ got'[u] = got[u] /\ seen'[u] = seen[u]
  BY <1>1 DEF Inv, Typed, Others
<1>9. Solo' BY <1>1, <1>3, <1>8, SoloKept
<1>10. ASSUME NEW c \in Chunks PROVE PlacesOf(c)' = PlacesOf(c)
  <2>1. PICK a, b \in Nat : /\ a = Cardinality(Positions(available, c))
                            /\ b = Cardinality(Positions(writing, c))
    BY PositionsFinite DEF Inv, Typed
  <2>2. CASE Switches(t)
    <3>1. Held(t) = <<got[t][1]>> BY <1>1, <1>4, <2>2 DEF Held
    <3>2. Held(t)' = <<current[1]>> BY <1>1, <1>3, <2>2 DEF Held
    <3>3. t \in Holders(c) <=> got[t][1] = c BY <3>1, HeldOne
    <3>4. t \in Holders(c)' <=> current[1] = c
      <4>1. PICK h : h = <<current[1]>> OBVIOUS
      <4>2. Len(h) = 1 /\ h[1] = current[1] BY <4>1
      <4>3. {h[i] : i \in 1 .. Len(h)} = {current[1]} BY <4>2
      <4> QED BY <3>2, <4>1, <4>3 DEF Holders
    <3>5. PICK x, y \in Nat : x = One(current[1] = c) /\ y = One(got[t][1] = c) BY DEF One
    <3>6. /\ One(t \in Holders(c)) = y /\ One(t \in Holders(c)') = x
          /\ One(current[1] = c) = x /\ One(current'[1] = c) = y
      BY <1>4, <2>2, <3>3, <3>4, <3>5 DEF One
    <3>7. a + b + x + y = a + b + y + x OBVIOUS
    <3>8. Cardinality(Positions(available, c))' + Cardinality(Positions(writing, c))'
             + One(t \in Holders(c)') + One(current'[1] = c)
          = Cardinality(Positions(available, c)) + Cardinality(Positions(writing, c))
             + One(t \in Holders(c)) + One(current[1] = c)
      BY <1>1, <2>1, <3>6, <3>7
    <3> QED BY <1>1, <1>6, <1>8, <3>8, ThreadConserves DEF Inv
  <2>3. CASE ~ Switches(t)
    <3>1. Held(t) = <<>> /\ Held(t)' = <<>> BY <1>1, <1>3, <1>5, <2>3 DEF Held
    <3>2. t \notin Holders(c) /\ t \notin Holders(c)' BY <3>1 DEF Holders
    <3> QED BY <1>1, <1>5, <1>6, <1>8, <2>3, <3>2, ThreadConserves DEF Inv
  <2> QED BY <2>2, <2>3
<1>11. ChunksConserved' BY <1>1, <1>10 DEF Inv, ChunksConserved
<1> QED BY <1>6, <1>7, <1>9, <1>11 DEF Inv

\* The exchange fails: never in a flush, which nobody disturbs, and the chunk that
\* was taken goes back.
LEMMA MissStep ==
    ASSUME Inv, NEW t \in Recorders, Miss(t)
    PROVE  Inv'
<1>1. /\ pc[t] = "exchange" /\ current # seen[t]
      /\ available' = available \o
           [i \in 1 .. Len(got[t]) |-> IF call[t] = "flush" THEN got[t][i] * ChunkIds ELSE got[t][i]]
      /\ seen' = [seen EXCEPT ![t] = current] /\ got' = [got EXCEPT ![t] = <<>>]
      /\ pc' = [pc EXCEPT ![t] = "choose"]
      /\ UNCHANGED <<current, writing, call, events, flushes, wpc, writer, running>>
  BY DEF Miss, Goto
<1>2. call[t] # "flush" BY <1>1 DEF Inv, Solo
<1>3. \/ \E g \in Chunks : got[t] = <<g>> /\ available' = Append(available, g)
      \/ got[t] = <<>> /\ available' = available
  <2>1. available \in Seq(Chunks) /\ got[t] \in Seq(Chunks) BY DEF Inv, Typed
  <2>2. CASE Switches(t)
    <3>1. Len(got[t]) = 1 BY <1>1, <2>2 DEF Inv, Taken
    <3>2. PICK g \in Chunks : g = got[t][1] BY <2>1, <3>1
    <3>3. got[t] = <<g>> BY <2>1, <3>1, <3>2
    <3>4. [i \in 1 .. Len(got[t]) |-> IF call[t] = "flush" THEN got[t][i] * ChunkIds ELSE got[t][i]]
            = <<g>>
      BY <1>2, <3>1, <3>2
    <3>5. available \o <<g>> = Append(available, g) BY <2>1
    <3> QED BY <1>1, <3>3, <3>4, <3>5
  <2>3. CASE ~ Switches(t)
    <3>1. got[t] = <<>> BY <1>1, <2>3 DEF Inv, Taken
    <3>2. [i \in 1 .. Len(got[t]) |-> IF call[t] = "flush" THEN got[t][i] * ChunkIds ELSE got[t][i]]
            = <<>>
      BY <3>1
    <3>3. available \o <<>> = available BY <2>1
    <3> QED BY <1>1, <3>1, <3>2, <3>3
  <2> QED BY <2>2, <2>3
<1>4. Typed'
  <2>1. available' \in Seq(Chunks)
    <3>1. available \in Seq(Chunks) BY DEF Inv, Typed
    <3>2. \A g \in Chunks : Append(available, g) \in Seq(Chunks) BY <3>1
    <3> QED BY <1>3, <3>1, <3>2
  <2>2. <<>> \in Seq(Chunks) OBVIOUS
  <2> QED BY <1>1, <2>1, <2>2 DEF Inv, Typed
<1>5. pc'[t] = "choose" /\ got'[t] = <<>> /\ seen'[t] = current BY <1>1 DEF Inv, Typed
<1>6. \A u \in Others(t) : pc'[u] = pc[u] /\ got'[u] = got[u] /\ seen'[u] = seen[u]
  BY <1>1 DEF Inv, Typed, Others
<1>7. Taken'
  <2>1. \A u \in Others(t) : Switches(u)' <=> Switches(u) BY <1>1, <1>6 DEF Switches
  <2> QED BY <1>5, <1>6, <2>1 DEF Inv, Taken, Others
<1>8. Solo' BY <1>1, <1>5, <1>6, SoloKept
<1>9. ASSUME NEW c \in Chunks PROVE PlacesOf(c)' = PlacesOf(c)
  <2>0. Held(t) = got[t] /\ Held(t)' = <<>> BY <1>1, <1>5 DEF Held
  <2>1. t \notin Holders(c)' BY <2>0 DEF Holders
  <2>2. CASE \E g \in Chunks : got[t] = <<g>> /\ available' = Append(available, g)
    <3>1. PICK g \in Chunks : got[t] = <<g>> /\ available' = Append(available, g) BY <2>2
    <3>2. t \in Holders(c) <=> g = c BY <2>0, <3>1, HeldOne
    <3>3. PICK a, b, x, y \in Nat : /\ a = Cardinality(Positions(available, c))
                                    /\ b = Cardinality(Positions(writing, c))
                                    /\ x = One(g = c) /\ y = One(current[1] = c)
      BY PositionsFinite DEF One, Inv, Typed
    <3>4. Cardinality(Positions(available', c)) = a + x BY <3>1, <3>3, CountAppend DEF Inv, Typed
    <3>5. One(t \in Holders(c)) = x /\ One(t \in Holders(c)') = 0 BY <2>1, <3>2, <3>3 DEF One
    <3>6. (a + x) + b + 0 + y = a + b + x + y OBVIOUS
    <3>7. Cardinality(Positions(available, c))' + Cardinality(Positions(writing, c))'
             + One(t \in Holders(c)') + One(current'[1] = c)
          = Cardinality(Positions(available, c)) + Cardinality(Positions(writing, c))
             + One(t \in Holders(c)) + One(current[1] = c)
      BY <1>1, <3>3, <3>4, <3>5, <3>6
    <3> QED BY <1>1, <1>4, <1>6, <3>7, ThreadConserves DEF Inv
  <2>3. CASE got[t] = <<>> /\ available' = available
    <3>1. t \notin Holders(c) BY <2>0, <2>3 DEF Holders
    <3> QED BY <1>1, <1>4, <1>6, <2>1, <2>3, <3>1, ThreadConserves DEF Inv
  <2> QED BY <1>3, <2>2, <2>3
<1>10. ChunksConserved' BY <1>1, <1>9 DEF Inv, ChunksConserved
<1> QED BY <1>4, <1>7, <1>8, <1>10 DEF Inv

LEMMA HandOverStep ==
    ASSUME Inv, NEW t \in Recorders, HandOver(t)
    PROVE  Inv'
<1>1. /\ pc[t] = "handover" /\ writing' = Append(writing, seen[t][1])
      /\ got' = [got EXCEPT ![t] = <<>>]
      /\ pc' = [pc EXCEPT ![t] = IF call[t] = "flush" THEN "idle" ELSE "write"]
      /\ UNCHANGED <<current, available, call, seen, events, flushes, wpc, writer, running>>
  BY DEF HandOver, Goto
<1>2. seen[t][1] \in Chunks BY DEF Inv, Typed
<1>3. Typed' BY <1>1, <1>2 DEF Inv, Typed
<1>4. pc'[t] \in {"idle", "write"} /\ got'[t] = <<>> BY <1>1 DEF Inv, Typed
<1>5. \A u \in Others(t) : pc'[u] = pc[u] /\ got'[u] = got[u] /\ seen'[u] = seen[u]
  BY <1>1 DEF Inv, Typed, Others
<1>6. Taken'
  <2>1. \A u \in Others(t) : Switches(u)' <=> Switches(u) BY <1>1, <1>5 DEF Switches
  <2> QED BY <1>4, <1>5, <2>1 DEF Inv, Taken, Others
<1>7. Solo' BY <1>1, <1>4, <1>5, SoloKept
<1>8. ASSUME NEW c \in Chunks PROVE PlacesOf(c)' = PlacesOf(c)
  <2>1. PICK g \in Chunks : g = seen[t][1] BY <1>2
  <2>2. Held(t) = <<g>> /\ Held(t)' = <<>> BY <1>1, <1>4, <2>1 DEF Held
  <2>3. t \in Holders(c) <=> g = c BY <2>2, HeldOne
  <2>4. t \notin Holders(c)' BY <2>2 DEF Holders
  <2>5. PICK a, b, x, y \in Nat : /\ a = Cardinality(Positions(available, c))
                                  /\ b = Cardinality(Positions(writing, c))
                                  /\ x = One(g = c) /\ y = One(current[1] = c)
    BY PositionsFinite DEF One, Inv, Typed
  <2>6. Cardinality(Positions(writing', c)) = b + x
    BY <1>1, <2>1, <2>5, CountAppend DEF Inv, Typed
  <2>7. One(t \in Holders(c)) = x /\ One(t \in Holders(c)') = 0 BY <2>3, <2>4, <2>5 DEF One
  <2>8. a + (b + x) + 0 + y = a + b + x + y OBVIOUS
  <2>9. Cardinality(Positions(available, c))' + Cardinality(Positions(writing, c))'
           + One(t \in Holders(c)') + One(current'[1] = c)
        = Cardinality(Positions(available, c)) + Cardinality(Positions(writing, c))
           + One(t \in Holders(c)) + One(current[1] = c)
    BY <1>1, <2>5, <2>6, <2>7, <2>8
  <2> QED BY <1>1, <1>3, <1>5, <2>9, ThreadConserves DEF Inv
<1>9. ChunksConserved' BY <1>1, <1>8 DEF Inv, ChunksConserved
<1> QED BY <1>3, <1>6, <1>7, <1>9 DEF Inv

LEMMA WriteStep ==
    ASSUME Inv, NEW t \in Recorders, Write(t)
    PROVE  Inv'
<1>1. /\ pc[t] = "write" /\ pc' = [pc EXCEPT ![t] = "idle"]
      /\ UNCHANGED <<current, available, writing, call, seen, got, events, flushes, wpc, writer, running>>
  BY DEF Write, Goto
<1>2. Typed' BY <1>1 DEF Inv, Typed
<1>3. pc'[t] = "idle" /\ \A u \in Others(t) : pc'[u] = pc[u] BY <1>1 DEF Inv, Typed, Others
<1>4. Taken'
  <2>1. \A u \in Recorders : Switches(u)' <=> Switches(u) BY <1>1 DEF Switches
  <2> QED BY <1>1, <1>3, <2>1 DEF Inv, Taken, Others
<1>5. Solo' BY <1>1, <1>3, SoloKept
<1>6. ASSUME NEW c \in Chunks PROVE PlacesOf(c)' = PlacesOf(c)
  <2>1. t \notin Holders(c) BY <1>1, HeldNone
  <2>2. t \notin Holders(c)' BY <1>3 DEF Holders, Held
  <2> QED BY <1>1, <1>2, <1>3, <2>1, <2>2, ThreadConserves DEF Inv
<1>7. ChunksConserved' BY <1>1, <1>6 DEF Inv, ChunksConserved
<1> QED BY <1>2, <1>4, <1>5, <1>7 DEF Inv

-----------------------------------------------------------------------------
(* The writer and the destructor *)

\* A step that leaves the threads alone keeps what is said of them.
LEMMA ThreadsKept ==
    ASSUME Inv, UNCHANGED <<current, pc, call, seen, got, events, flushes>>
    PROVE  Taken' /\ Solo' /\ \A c : Holders(c)' = Holders(c)
<1>1. Taken' BY DEF Inv, Taken, Switches
<1>2. Solo' BY DEF Inv, Solo, Alone
<1>3. \A c : Holders(c)' = Holders(c) BY DEF Holders, Held
<1> QED BY <1>1, <1>2, <1>3

LEMMA WriterPopStep ==
    ASSUME Inv, WriterPop
    PROVE  Inv'
<1>1. /\ wpc = "pop" /\ UNCHANGED <<current, available, running>>
      /\ UNCHANGED <<current, pc, call, seen, got, events, flushes>>
      /\ \/ wpc' = "check" /\ UNCHANGED <<writer, writing>>
         \/ /\ writing # <<>> /\ wpc' = "write"
            /\ writer' = Head(writing) /\ writing' = Tail(writing)
  BY DEF WriterPop, locals
<1>2. Typed'
  <2>1. writing \in Seq(Chunks) BY DEF Inv, Typed
  <2>2. writing # <<>> => Head(writing) \in Chunks /\ Tail(writing) \in Seq(Chunks) BY <2>1
  <2>3. writer' \in Chunks /\ writing' \in Seq(Chunks) BY <1>1, <2>1, <2>2 DEF Inv, Typed
  <2> QED BY <1>1, <2>3 DEF Inv, Typed
<1>3. Taken' /\ Solo' /\ \A c : Holders(c)' = Holders(c) BY <1>1, ThreadsKept
<1>4. ASSUME NEW c \in Chunks PROVE PlacesOf(c)' = PlacesOf(c)
  <2>1. Holders(c)' = Holders(c) BY <1>3
  <2>2. PICK a, d, h, y \in Nat : /\ a = Cardinality(Positions(available, c))
                                  /\ d = Cardinality(Positions(writing, c))
                                  /\ h = Cardinality(Holders(c)) /\ y = One(current[1] = c)
                                  /\ PlacesOf(c) = a + d + h + One(WriterHas /\ writer = c) + y
    <3>1. One(current[1] = c) \in Nat /\ One(writer = c) \in Nat /\ Typed BY DEF One, Inv
    <3> QED BY <3>1, PlacesSum
  <2>3. One(WriterHas /\ writer = c) = 0 BY <1>1 DEF WriterHas, One
  <2>4. PlacesOf(c)' = a + Cardinality(Positions(writing', c)) + h
                       + One(WriterHas' /\ writer' = c) + y
    BY <1>1, <2>1, <2>2 DEF PlacesOf, Holders, One
  <2>5. CASE wpc' = "check" /\ UNCHANGED <<writer, writing>>
    <3>1. One(WriterHas' /\ writer' = c) = 0 BY <2>5 DEF WriterHas, One
    <3> QED BY <2>2, <2>3, <2>4, <2>5, <3>1
  <2>6. CASE /\ writing # <<>> /\ wpc' = "write"
             /\ writer' = Head(writing) /\ writing' = Tail(writing)
    <3>1. PICK e, x \in Nat : e = Cardinality(Positions(writing', c)) /\ x = One(Head(writing) = c)
      BY <1>2, PositionsFinite DEF Typed, One
    <3>2. d = e + x BY <2>2, <2>6, <3>1, CountTail DEF Inv, Typed
    <3>3. One(WriterHas' /\ writer' = c) = x BY <2>6, <3>1 DEF WriterHas, One
    <3>4. a + e + h + x + y = a + (e + x) + h + 0 + y OBVIOUS
    <3> QED BY <2>2, <2>3, <2>4, <3>1, <3>2, <3>3, <3>4
  <2> QED BY <1>1, <2>5, <2>6
<1>5. ChunksConserved' BY <1>1, <1>4 DEF Inv, ChunksConserved
<1> QED BY <1>2, <1>3, <1>5 DEF Inv

LEMMA WriterReturnStep ==
    ASSUME Inv, WriterReturn
    PROVE  Inv'
<1>1. /\ wpc = "return" /\ wpc' = "check" /\ writer' = 0
      /\ available' = Append(available, writer) /\ UNCHANGED <<current, writing, running>>
      /\ UNCHANGED <<current, pc, call, seen, got, events, flushes>>
  BY DEF WriterReturn, locals
<1>2. Typed'
  <2>1. 0 \in Chunks BY TracerAssumption DEF Chunks
  <2> QED BY <1>1, <2>1 DEF Inv, Typed
<1>3. Taken' /\ Solo' /\ \A c : Holders(c)' = Holders(c) BY <1>1, ThreadsKept
<1>4. ASSUME NEW c \in Chunks PROVE PlacesOf(c)' = PlacesOf(c)
  <2>1. Holders(c)' = Holders(c) BY <1>3
  <2>2. PICK a, d, h, y, x \in Nat : /\ a = Cardinality(Positions(available, c))
                                     /\ d = Cardinality(Positions(writing, c))
                                     /\ h = Cardinality(Holders(c)) /\ y = One(current[1] = c)
                                     /\ x = One(writer = c)
                                     /\ PlacesOf(c) = a + d + h + One(WriterHas /\ writer = c) + y
    <3>1. Typed BY DEF Inv
    <3>2. PICK y, x \in Nat : y = One(current[1] = c) /\ x = One(writer = c) BY DEF One
    <3>3. PICK a, d, h \in Nat : /\ a = Cardinality(Positions(available, c))
                                 /\ d = Cardinality(Positions(writing, c))
                                 /\ h = Cardinality(Holders(c))
      BY <3>1, PlacesSum
    <3>4. PlacesOf(c) = a + d + h + One(WriterHas /\ writer = c) + y
      BY <3>1, <3>2, <3>3, PlacesSum
    <3> QED BY <3>2, <3>3, <3>4
  <2>3. One(WriterHas /\ writer = c) = x /\ One(WriterHas' /\ writer' = c) = 0
    BY <1>1, <2>2 DEF WriterHas, One
  <2>4. PlacesOf(c)' = Cardinality(Positions(available', c)) + d + h
                       + One(WriterHas' /\ writer' = c) + y
    BY <1>1, <2>1, <2>2 DEF PlacesOf, Holders, One
  <2>5. Cardinality(Positions(available', c)) = a + x
    BY <1>1, <2>2, CountAppend DEF Inv, Typed
  <2>6. (a + x) + d + h + 0 + y = a + d + h + x + y OBVIOUS
  <2> QED BY <2>2, <2>3, <2>4, <2>5, <2>6
<1>5. ChunksConserved' BY <1>1, <1>4 DEF Inv, ChunksConserved
<1> QED BY <1>2, <1>3, <1>5 DEF Inv

\* The steps that leave every chunk where it is
LEMMA WriterQuietStep ==
    ASSUME Inv, WriterCheck \/ WriterWrite \/ WriterClear
    PROVE  Inv'
<1>1. /\ WriterHas' <=> WriterHas
      /\ UNCHANGED <<current, available, writing, writer, running>>
      /\ UNCHANGED <<current, pc, call, seen, got, events, flushes>>
  BY DEF WriterCheck, WriterWrite, WriterClear, WriterHas, shared, locals
<1>2. Typed' BY <1>1 DEF Inv, Typed
<1>3. Taken' /\ Solo' /\ \A c : Holders(c)' = Holders(c) BY <1>1, ThreadsKept
<1>4. ASSUME NEW c \in Chunks PROVE PlacesOf(c)' = PlacesOf(c)
  <2>1. Holders(c)' = Holders(c) BY <1>3
  <2> QED BY <1>1, <2>1 DEF PlacesOf, Holders
<1>5. ChunksConserved' BY <1>1, <1>4 DEF Inv, ChunksConserved
<1> QED BY <1>2, <1>3, <1>5 DEF Inv

\* With the destructor the current chunk is handed over without another one.
LEMMA EndStep ==
    ASSUME Inv, Destroy \/ StopWriter
    PROVE  Inv'
<1>1. /\ running' # "yes" /\ UNCHANGED <<available, writer>>
      /\ UNCHANGED <<current, pc, call, seen, got, events, flushes>>
      /\ writing' = writing \/ writing' = Append(writing, current[1])
  BY DEF Destroy, StopWriter, shared, locals
<1>2. Typed'
  <2>1. writing \in Seq(Chunks) /\ current[1] \in Chunks BY DEF Inv, Typed
  <2>2. writing' \in Seq(Chunks) BY <1>1, <2>1
  <2> QED BY <1>1, <2>2 DEF Inv, Typed
<1>3. Taken' /\ Solo' BY <1>1, ThreadsKept
<1>4. ChunksConserved' BY <1>1 DEF ChunksConserved
<1> QED BY <1>2, <1>3, <1>4 DEF Inv

-----------------------------------------------------------------------------

LEMMA InitInv == Init => Inv
<1> SUFFICES ASSUME Init PROVE Inv OBVIOUS
<1>1. 0 \in Chunks BY TracerAssumption DEF Chunks
<1>2. available = [i \in 1 .. NumChunks - 1 |-> i] /\ Len(available) = NumChunks - 1
      /\ available \in Seq(Chunks)
  BY TracerAssumption DEF Init, Chunks
<1>3. Typed BY <1>1, <1>2 DEF Init, Typed
<1>4. Taken BY DEF Init, Taken
<1>5. Solo BY DEF Init, Solo
<1>6. ASSUME NEW c \in Chunks PROVE PlacesOf(c) = 1
  <2>1. Positions(writing, c) = {} BY DEF Init, Positions
  <2>2. Holders(c) = {} BY DEF Init, Holders, Held
  <2>3. ~ WriterHas /\ current[1] = 0 BY DEF Init, WriterHas
  <2>4. Cardinality({}) = 0 /\ Cardinality({c}) = 1 BY FS_EmptySet, FS_Singleton
  <2>5. PlacesOf(c) = Cardinality(Positions(available, c)) + 0 + 0 + One(WriterHas /\ writer = c)
                      + One(current[1] = c)
    <3>1. PlacesOf(c) = Cardinality(Positions(available, c)) + Cardinality(Positions(writing, c))
                        + Cardinality(Holders(c)) + One(WriterHas /\ writer = c)
                        + One(current[1] = c)
      BY <1>3, PlacesSum
    <3>2. Cardinality(Positions(writing, c)) = 0 /\ Cardinality(Holders(c)) = 0
      BY <2>1, <2>2, <2>4
    <3> QED BY <3>1, <3>2
  <2>6. CASE c = 0
    <3>1. Positions(available, c) = {} BY <1>2, <2>6, TracerAssumption DEF Positions
    <3> QED BY <2>3, <2>4, <2>5, <2>6, <3>1 DEF One
  <2>7. CASE c # 0
    <3>1. Positions(available, c) = {c} BY <1>2, <2>7, TracerAssumption DEF Positions, Chunks
    <3> QED BY <2>3, <2>4, <2>5, <2>7, <3>1 DEF One
  <2> QED BY <2>6, <2>7
<1>7. ChunksConserved BY <1>6 DEF ChunksConserved
<1> QED BY <1>3, <1>4, <1>5, <1>7 DEF Inv

\* What it takes that a call can begin: a thread that flushes is alone.
LEMMA StepInvIf ==
    ASSUME Inv, [Next]_vars,
           \A t \in Recorders : RecordBegin(t) => \A u \in Others(t) : flushes[u] = 0,
           \A t \in Recorders : FlushBegin(t) => Alone(t)
    PROVE  Inv'
<1>1. ASSUME NEW t \in Recorders, Thread(t) PROVE Inv'
  BY <1>1, RecordBeginStep, FlushBeginStep, ChooseStep, ReserveStep, MissStep, HandOverStep,
     WriteStep DEF Thread
<1>2. CASE Writer BY <1>2, WriterPopStep, WriterReturnStep, WriterQuietStep DEF Writer
<1>3. CASE Destroy \/ StopWriter BY <1>3, EndStep
<1>4. CASE UNCHANGED vars
  <2>1. /\ UNCHANGED <<available, writing, wpc, writer, running>>
        /\ UNCHANGED <<current, pc, call, seen, got, events, flushes>>
    BY <1>4 DEF vars, shared, locals
  <2>2. Typed' BY <2>1 DEF Inv, Typed
  <2>3. Taken' /\ Solo' /\ \A c : Holders(c)' = Holders(c) BY <2>1, ThreadsKept
  <2>4. ASSUME NEW c \in Chunks PROVE PlacesOf(c)' = PlacesOf(c)
    <3>1. Holders(c)' = Holders(c) BY <2>3
    <3> QED BY <2>1, <3>1 DEF PlacesOf, Holders, WriterHas
  <2>5. ChunksConserved' BY <2>1, <2>4 DEF Inv, ChunksConserved
  <2> QED BY <2>2, <2>3, <2>5 DEF Inv
<1> QED BY <1>1, <1>2, <1>3, <1>4 DEF Next

LEMMA StepInv == ASSUME ~ Overlap PROVE Inv /\ [Next]_vars => Inv'
<1> SUFFICES ASSUME Inv, [Next]_vars PROVE Inv' OBVIOUS
<1>1. \A t \in Recorders : RecordBegin(t) => \A u \in Others(t) : flushes[u] = 0
  BY DEF RecordBegin
<1>2. \A t \in Recorders : FlushBegin(t) => Alone(t) BY DEF FlushBegin
<1> QED BY <1>1, <1>2, StepInvIf

\* Threads that record, fail to exchange and try again lose no chunk and double
\* none, and nor does a thread that flushes alone: each chunk is current, on one of
\* the queues or with one thread until ~Tracer begins.
THEOREM ChunksStay == ASSUME ~ Overlap PROVE Spec => []ChunksConserved
<1>1. Init => Inv BY InitInv
<1>2. Inv /\ [Next]_vars => Inv' BY StepInv
<1>3. Inv => ChunksConserved BY DEF Inv
<1> QED BY <1>1, <1>2, <1>3, PTL DEF Spec

-----------------------------------------------------------------------------
(***************************************************************************)
(* The log of a thread that traces alone.  A chunk comes round again only  *)
(* after the writer has cleared it, so that the chunks on their way to the *)
(* file hold the thread's events and those ahead of it are blank.          *)
(***************************************************************************)

Entries == {Empty} \cup (Recorders \X Nat)
Pages == [Slots -> Entries]
Blank == [i \in Slots |-> Empty]

Traced ==
    /\ trace \in [Chunks -> Pages] /\ file \in Seq(Pages)
    /\ target \in [Recorders -> Chunks \X Nat]

\* A thread is in a call that it has begun, and in none once ~Tracer has begun.
Calls ==
    \A t \in Recorders :
        /\ call[t] = "none" => pc[t] = "idle"
        /\ pc[t] = "write" => call[t] = "record"
        /\ Recording(t) => events[t] > 0
        /\ running # "yes" => pc[t] = "idle"

\* The writer's chunks are different ones, after ~Tracer has begun as well.
Apart ==
    /\ \A i, j \in 1 .. Len(writing) : writing[i] = writing[j] => i = j
    /\ \A i \in 1 .. Len(writing) : WriterHas => writing[i] # writer

\* t has reserved a slot and not written it.
Reserved(t) == call[t] = "record" /\ pc[t] \in {"handover", "write"}

\* The slot that t has reserved and those after it are empty.
Room(t) ==
    /\ current[2] <= PerChunk
    /\ pc[t] = "handover" => current[2] = IF call[t] = "flush" THEN 0 ELSE 1
    /\ pc[t] = "write" => current[2] > 0
    /\ Reserved(t) => target[t] = <<current[1], current[2] - 1>>
    /\ \A k \in Slots : k >= (IF Reserved(t) THEN current[2] - 1 ELSE current[2])
                            => trace[current[1]][k] = Empty

\* Chunks that a thread can switch to are blank.
Clean(t) ==
    /\ \A i \in 1 .. Len(available) : trace[available[i]] = Blank
    /\ pc[t] = "exchange" => \A i \in 1 .. Len(got[t]) : trace[got[t][i]] = Blank
    /\ wpc = "return" => trace[writer] = Blank

Ready == \A t \in Recorders : Alone(t) /\ running = "yes" => Room(t) /\ Clean(t)

Tidy == Traced /\ Calls /\ Apart /\ Ready /\ LoggedInOrder

-----------------------------------------------------------------------------
(* A sequence of chunks that holds the events 1 .. n of t *)

LEMMA EntryFacts ==
    /\ \A t \in Recorders, n \in Nat : <<t, n>> # Empty /\ <<t, n>> \in Entries /\ <<t, n>>[2] = n
    /\ \A t, u, n, m : <<t, n>> = <<u, m>> => t = u /\ n = m
    /\ Empty \in Entries /\ Blank \in Pages
BY DEF Empty, Entries, Blank, Pages

\* Marks of a longer log
LEMMA MarksAppend ==
    ASSUME NEW P \in Seq(Pages), NEW x \in Pages
    PROVE  /\ \A m : m \in Marks(Append(P, x)) <=>
                        \/ m \in Marks(P)
                        \/ \E j \in Slots : m = <<Len(P) + 1, j>> /\ x[j] # Empty
           /\ \A m \in Marks(P) : At(Append(P, x), m) = At(P, m) /\ m[1] \in 1 .. Len(P) /\ m[2] \in Slots
           /\ \A j \in Slots : At(Append(P, x), <<Len(P) + 1, j>>) = x[j]
<1>1. PICK n \in Nat : n = Len(P) OBVIOUS
<1>2. PICK L : L = Append(P, x) OBVIOUS
<1>3. Len(L) = n + 1 /\ L[n + 1] = x /\ \A i \in 1 .. n : L[i] = P[i] BY <1>1, <1>2
<1>4. ASSUME NEW m
      PROVE  m \in Marks(L) <=> \/ m \in Marks(P)
                                \/ \E j \in Slots : m = <<n + 1, j>> /\ x[j] # Empty
  <2>1. CASE m \in Marks(L)
    <3>1. PICK i \in 1 .. n + 1, j \in Slots : m = <<i, j>> /\ L[i][j] # Empty
      BY <1>3, <2>1 DEF Marks
    <3>2. CASE i = n + 1 BY <1>3, <2>1, <3>1, <3>2
    <3>3. CASE i # n + 1
      <4>1. i \in 1 .. n BY <1>1, <3>3
      <4>2. <<i, j>> \in (1 .. Len(P)) \X Slots /\ P[i][j] # Empty BY <1>1, <1>3, <3>1, <4>1
      <4> QED BY <2>1, <3>1, <4>2 DEF Marks
    <3> QED BY <3>2, <3>3
  <2>2. CASE m \in Marks(P)
    <3>1. PICK i \in 1 .. n, j \in Slots : m = <<i, j>> /\ P[i][j] # Empty
      BY <1>1, <2>2 DEF Marks
    <3>2. i \in 1 .. n + 1 /\ L[i][j] # Empty BY <1>1, <1>3, <3>1
    <3> QED BY <1>3, <2>2, <3>1, <3>2 DEF Marks
  <2>3. CASE \E j \in Slots : m = <<n + 1, j>> /\ x[j] # Empty
    <3>1. PICK j \in Slots : m = <<n + 1, j>> /\ x[j] # Empty BY <2>3
    <3>2. n + 1 \in 1 .. n + 1 BY <1>1
    <3> QED BY <1>3, <2>3, <3>1, <3>2 DEF Marks
  <2> QED BY <2>1, <2>2, <2>3
<1>5. ASSUME NEW m \in Marks(P)
      PROVE  At(L, m) = At(P, m) /\ m[1] \in 1 .. n /\ m[2] \in Slots
  BY <1>1, <1>3 DEF Marks, At
<1>6. \A j \in Slots : At(L, <<n + 1, j>>) = x[j] BY <1>3 DEF At
<1> QED BY <1>1, <1>2, <1>4, <1>5, <1>6

\* A blank chunk adds nothing.
LEMMA InOrderBlank ==
    ASSUME NEW P \in Seq(Pages), NEW t \in Recorders, NEW n \in Nat, InOrder(P, t, n)
    PROVE  InOrder(Append(P, Blank), t, n)
<1>1. Blank \in Pages /\ \A j \in Slots : Blank[j] = Empty BY EntryFacts DEF Blank
<1>2. PICK L : L = Append(P, Blank) OBVIOUS
<1>3. \A m : m \in Marks(L) <=> m \in Marks(P) BY <1>1, <1>2, MarksAppend
<1>4. \A m \in Marks(P) : At(L, m) = At(P, m) BY <1>1, <1>2, MarksAppend
<1>5. InOrder(L, t, n) BY <1>3, <1>4 DEF InOrder
<1> QED BY <1>2, <1>5

\* The next event goes into the last chunk, behind all that is in it.
LEMMA InOrderWrite ==
    ASSUME NEW P \in Seq(Pages), NEW x \in Pages, NEW t \in Recorders, NEW n \in Nat,
           InOrder(Append(P, x), t, n), NEW j \in Slots,
           \A k \in Slots : k >= j => x[k] = Empty
    PROVE  InOrder(Append(P, [x EXCEPT ![j] = <<t, n + 1>>]), t, n + 1)
<1>1. PICK y : y = [x EXCEPT ![j] = <<t, n + 1>>] OBVIOUS
<1>2. PICK l \in Nat : l = Len(P) OBVIOUS
<1>3. PICK e : e = <<t, n + 1>> /\ e # Empty /\ e \in Entries /\ e[2] = n + 1
  <2>1. n + 1 \in Nat OBVIOUS
  <2>2. /\ <<t, n + 1>> # Empty /\ <<t, n + 1>> \in Entries
        /\ <<t, n + 1>>[2] = n + 1
    BY <2>1, EntryFacts
  <2> QED BY <2>2
<1>4. y \in Pages /\ y[j] = e /\ \A k \in Slots \ {j} : y[k] = x[k] BY <1>1, <1>3 DEF Pages
<1>5. PICK L, M : L = Append(P, x) /\ M = Append(P, y) OBVIOUS
<1>6. PICK z : z = <<l + 1, j>> OBVIOUS
<1>7. x[j] = Empty /\ j \in Nat BY DEF Slots
<1>8. \A m \in Marks(L) : m # z /\ At(M, m) = At(L, m) /\ Before(m, z) /\ ~ Before(z, m)
  <2> SUFFICES ASSUME NEW m \in Marks(L)
               PROVE  m # z /\ At(M, m) = At(L, m) /\ Before(m, z) /\ ~ Before(z, m)
    OBVIOUS
  <2>1. CASE m \in Marks(P)
    <3>1. At(M, m) = At(P, m) /\ At(L, m) = At(P, m) BY <1>4, <1>5, <2>1, MarksAppend
    <3>2. m[1] \in 1 .. l BY <1>2, <2>1, MarksAppend
    <3>3. z[1] = l + 1 BY <1>6
    <3> QED BY <1>2, <3>1, <3>2, <3>3 DEF Before
  <2>2. CASE \E k \in Slots : m = <<l + 1, k>> /\ x[k] # Empty
    <3>1. PICK k \in Slots : m = <<l + 1, k>> /\ x[k] # Empty BY <2>2
    <3>2. k \in Nat /\ k < j BY <1>7, <3>1 DEF Slots
    <3>3. At(L, m) = x[k] /\ At(M, m) = y[k] BY <1>2, <1>4, <1>5, <3>1, MarksAppend
    <3>4. y[k] = x[k] BY <1>4, <1>7, <3>2
    <3>5. m[1] = l + 1 /\ m[2] = k /\ z[1] = l + 1 /\ z[2] = j BY <1>6, <3>1
    <3> QED BY <1>2, <1>7, <3>2, <3>3, <3>4, <3>5 DEF Before
  <2> QED BY <1>2, <1>5, <2>1, <2>2, MarksAppend
<1>9. \A m : m \in Marks(M) <=> m \in Marks(L) \/ m = z
  <2> SUFFICES ASSUME NEW m PROVE m \in Marks(M) <=> m \in Marks(L) \/ m = z OBVIOUS
  <2>1. m \in Marks(M) <=> m \in Marks(P) \/ \E k \in Slots : m = <<l + 1, k>> /\ y[k] # Empty
    BY <1>2, <1>4, <1>5, MarksAppend
  <2>2. m \in Marks(L) <=> m \in Marks(P) \/ \E k \in Slots : m = <<l + 1, k>> /\ x[k] # Empty
    BY <1>2, <1>5, MarksAppend
  <2>3. (\E k \in Slots : m = <<l + 1, k>> /\ y[k] # Empty)
          <=> (\E k \in Slots : m = <<l + 1, k>> /\ x[k] # Empty) \/ m = z
    BY <1>3, <1>4, <1>6, <1>7
  <2> QED BY <2>1, <2>2, <2>3
<1>10. At(M, z) = e BY <1>2, <1>4, <1>5, <1>6, MarksAppend
<1>11. \A m \in Marks(L) : At(L, m)[2] \in 1 .. n
  <2> SUFFICES ASSUME NEW m \in Marks(L) PROVE At(L, m)[2] \in 1 .. n OBVIOUS
  <2>1. PICK i \in 1 .. n : At(L, m) = <<t, i>> BY <1>5 DEF InOrder
  <2> QED BY <2>1
<1>12. ASSUME NEW i \in 1 .. n + 1 PROVE \E m \in Marks(M) : At(M, m) = <<t, i>>
  <2>1. CASE i = n + 1 BY <1>3, <1>9, <1>10, <2>1
  <2>2. CASE i # n + 1
    <3>1. i \in 1 .. n BY <2>2
    <3>2. PICK m \in Marks(L) : At(L, m) = <<t, i>> BY <1>5, <3>1 DEF InOrder
    <3> QED BY <1>8, <1>9, <3>2
  <2> QED BY <2>1, <2>2
<1>13. ASSUME NEW m \in Marks(M) PROVE \E i \in 1 .. n + 1 : At(M, m) = <<t, i>>
  <2>1. CASE m = z BY <1>3, <1>10, <2>1
  <2>2. CASE m \in Marks(L)
    <3>1. PICK i \in 1 .. n : At(L, m) = <<t, i>> BY <1>5, <2>2 DEF InOrder
    <3>2. i \in 1 .. n + 1 OBVIOUS
    <3> QED BY <1>8, <2>2, <3>1, <3>2
  <2> QED BY <1>9, <2>1, <2>2
<1>14. ASSUME NEW m \in Marks(M), NEW k \in Marks(M)
       PROVE  Before(m, k) <=> At(M, m)[2] < At(M, k)[2]
  <2>1. CASE m \in Marks(L) /\ k \in Marks(L)
    BY <1>5, <1>8, <2>1 DEF InOrder
  <2>2. CASE m \in Marks(L) /\ k = z
    <3>1. At(M, m)[2] \in 1 .. n /\ At(M, k)[2] = n + 1 BY <1>3, <1>8, <1>10, <1>11, <2>2
    <3>2. At(M, m)[2] < At(M, k)[2] BY <3>1
    <3> QED BY <1>8, <2>2, <3>2
  <2>3. CASE m = z /\ k \in Marks(L)
    <3>1. At(M, k)[2] \in 1 .. n /\ At(M, m)[2] = n + 1 BY <1>3, <1>8, <1>10, <1>11, <2>3
    <3>2. ~ (At(M, m)[2] < At(M, k)[2]) BY <3>1
    <3> QED BY <1>8, <2>3, <3>2
  <2>4. CASE m = z /\ k = z
    <3>1. ~ Before(z, z) BY <1>2, <1>6, <1>7 DEF Before
    <3> QED BY <1>3, <1>10, <2>4, <3>1
  <2> QED BY <1>9, <2>1, <2>2, <2>3, <2>4
<1>15. InOrder(M, t, n + 1) BY <1>12, <1>13, <1>14 DEF InOrder
<1> QED BY <1>1, <1>5, <1>15

-----------------------------------------------------------------------------
(* The log as a function of the chunks and of where they are: w with the   *)
(* writer, q on writeQueue_, h being handed over, c current                *)

Read(tr, s) == [i \in 1 .. Len(s) |-> tr[s[i]]]
Log(f, tr, w, q, h, c) == f \o Read(tr, w \o q \o h \o c)

InWriter == IF wpc = "write" THEN <<writer>> ELSE <<>>
InHand(t) == IF pc[t] = "handover" THEN <<seen[t][1]>> ELSE <<>>
InUse == IF running = "yes" THEN <<current[1]>> ELSE <<>>

LEMMA LoggedIs ==
    ASSUME NEW t \in Recorders
    PROVE  Logged(t) = Log(file, trace, InWriter, writing, InHand(t), InUse)
BY DEF Logged, Log, Traces, Read, Line, InWriter, InHand, InUse

LEMMA ReadType ==
    ASSUME NEW tr \in [Chunks -> Pages], NEW s \in Seq(Chunks)
    PROVE  /\ Read(tr, s) \in Seq(Pages) /\ Len(Read(tr, s)) = Len(s)
           /\ \A i \in 1 .. Len(s) : Read(tr, s)[i] = tr[s[i]]
<1>1. \A i \in 1 .. Len(s) : tr[s[i]] \in Pages BY ElementOfSeq
<1>2. Len(s) \in Nat OBVIOUS
<1> QED BY <1>1, <1>2, IsASeq DEF Read

LEMMA ReadConcat ==
    ASSUME NEW tr \in [Chunks -> Pages], NEW r \in Seq(Chunks), NEW s \in Seq(Chunks)
    PROVE  Read(tr, r \o s) = Read(tr, r) \o Read(tr, s)
BY DEF Read

LEMMA ReadOne ==
    ASSUME NEW tr \in [Chunks -> Pages], NEW c \in Chunks
    PROVE  Read(tr, <<c>>) = <<tr[c]>> /\ <<tr[c]>> \in Seq(Pages) /\ <<c>> \in Seq(Chunks)
BY DEF Read

\* What the writer changes in a chunk that is not among them does not matter.
LEMMA ReadSame ==
    ASSUME NEW tr \in [Chunks -> Pages], NEW tq \in [Chunks -> Pages], NEW s \in Seq(Chunks),
           \A i \in 1 .. Len(s) : tr[s[i]] = tq[s[i]]
    PROVE  Read(tr, s) = Read(tq, s)
BY DEF Read

LEMMA ReadLast ==
    ASSUME NEW f \in Seq(Pages), NEW tr \in [Chunks -> Pages], NEW s \in Seq(Chunks), NEW c \in Chunks
    PROVE  f \o Read(tr, s \o <<c>>) = Append(f \o Read(tr, s), tr[c])
<1>1. PICK x : x = Read(tr, s) /\ x \in Seq(Pages) BY ReadType
<1>2. Read(tr, s \o <<c>>) = x \o <<tr[c]>> BY <1>1, ReadConcat, ReadOne
<1>3. f \o x \in Seq(Pages) BY <1>1, ConcatProperties
<1>4. tr[c] \in Pages OBVIOUS
<1>5. f \o (x \o <<tr[c]>>) = (f \o x) \o <<tr[c]>> BY <1>1, ReadOne, ConcatAssociative
<1>6. (f \o x) \o <<tr[c]>> = Append(f \o x, tr[c]) BY <1>3, <1>4, AppendIsConcat
<1> QED BY <1>1, <1>2, <1>5, <1>6

\* Taking a chunk off writeQueue_
LEMMA LogPop ==
    ASSUME NEW f, NEW tr, NEW q \in Seq(Chunks), NEW h, NEW c, q # <<>>
    PROVE  Log(f, tr, <<Head(q)>>, Tail(q), h, c) = Log(f, tr, <<>>, q, h, c)
<1>1. Head(q) \in Chunks /\ Tail(q) \in Seq(Chunks) BY HeadTailProperties
<1>2. <<Head(q)>> \o Tail(q) = q OBVIOUS
<1>3. <<>> \o q = q BY ConcatEmptySeq
<1> QED BY <1>2, <1>3 DEF Log

\* Writing the chunk that was taken off
LEMMA LogWrite ==
    ASSUME NEW f \in Seq(Pages), NEW tr \in [Chunks -> Pages], NEW w \in Chunks,
           NEW q \in Seq(Chunks), NEW h \in Seq(Chunks), NEW c \in Seq(Chunks)
    PROVE  Log(Append(f, tr[w]), tr, <<>>, q, h, c) = Log(f, tr, <<w>>, q, h, c)
<1>1. <<>> \o q = q BY ConcatEmptySeq
<1>2. <<w>> \in Seq(Chunks) /\ q \o h \in Seq(Chunks) BY ConcatProperties
<1>3. PICK s : s = q \o h \o c /\ s \in Seq(Chunks) BY <1>2, ConcatProperties
<1>4. <<w>> \o q \o h \o c = <<w>> \o s
  <2>1. (<<w>> \o q) \o h = <<w>> \o (q \o h) BY <1>2, ConcatAssociative
  <2>2. (<<w>> \o (q \o h)) \o c = <<w>> \o ((q \o h) \o c) BY <1>2, ConcatAssociative
  <2> QED BY <1>3, <2>1, <2>2
<1>5. PICK x : x = Read(tr, s) /\ x \in Seq(Pages) BY <1>3, ReadType
<1>6. Read(tr, <<w>> \o s) = <<tr[w]>> \o x
  <2>1. Read(tr, <<w>> \o s) = Read(tr, <<w>>) \o Read(tr, s) BY <1>2, <1>3, ReadConcat
  <2>2. Read(tr, <<w>>) = <<tr[w]>> BY ReadOne
  <2> QED BY <1>5, <2>1, <2>2
<1>7. Append(f, tr[w]) = f \o <<tr[w]>>
  <2>1. tr[w] \in Pages OBVIOUS
  <2> QED BY <2>1, AppendIsConcat
<1>8. (f \o <<tr[w]>>) \o x = f \o (<<tr[w]>> \o x) BY <1>5, ReadOne, ConcatAssociative
<1> QED BY <1>1, <1>3, <1>4, <1>5, <1>6, <1>7, <1>8 DEF Log

\* Handing a chunk over
LEMMA LogHandOver ==
    ASSUME NEW f, NEW tr, NEW w \in Seq(Chunks), NEW q \in Seq(Chunks), NEW x \in Chunks, NEW c
    PROVE  Log(f, tr, w, Append(q, x), <<>>, c) = Log(f, tr, w, q, <<x>>, c)
<1>1. Append(q, x) = q \o <<x>> BY AppendIsConcat
<1>2. <<x>> \in Seq(Chunks) /\ w \o q \in Seq(Chunks) BY ConcatProperties
<1>3. (w \o q) \o <<x>> = w \o (q \o <<x>>) BY <1>2, ConcatAssociative
<1>4. w \o q \o <<x>> \in Seq(Chunks) BY <1>2, ConcatProperties
<1>5. (w \o q \o <<x>>) \o <<>> = w \o q \o <<x>> BY <1>4, ConcatEmptySeq
<1> QED BY <1>1, <1>3, <1>5 DEF Log

\* Handing the current chunk over at the end
LEMMA LogDestroy ==
    ASSUME NEW f, NEW tr, NEW w \in Seq(Chunks), NEW q \in Seq(Chunks), NEW x \in Chunks
    PROVE  Log(f, tr, w, Append(q, x), <<>>, <<>>) = Log(f, tr, w, q, <<>>, <<x>>)
<1>1. Log(f, tr, w, Append(q, x), <<>>, <<>>) = Log(f, tr, w, q, <<x>>, <<>>) BY LogHandOver
<1>2. <<x>> \in Seq(Chunks) /\ w \o q \in Seq(Chunks) BY ConcatProperties
<1>3. w \o q \o <<x>> \in Seq(Chunks) BY <1>2, ConcatProperties
<1>4. (w \o q \o <<x>>) \o <<>> = (w \o q \o <<>>) \o <<x>> BY <1>2, <1>3, ConcatEmptySeq
<1> QED BY <1>1, <1>4 DEF Log

\* A switch from chunk x to chunk g
LEMMA LogSwitch ==
    ASSUME NEW f \in Seq(Pages), NEW tr \in [Chunks -> Pages], NEW w \in Seq(Chunks),
           NEW q \in Seq(Chunks), NEW x \in Chunks, NEW g \in Chunks
    PROVE  /\ Log(f, tr, w, q, <<>>, <<x>>) \in Seq(Pages)
           /\ Log(f, tr, w, q, <<x>>, <<g>>) = Append(Log(f, tr, w, q, <<>>, <<x>>), tr[g])
<1>1. <<x>> \in Seq(Chunks) /\ w \o q \in Seq(Chunks) /\ <<>> \in Seq(Chunks) BY ConcatProperties
<1>2. w \o q \o <<x>> = w \o q \o <<>> \o <<x>> BY <1>1, ConcatEmptySeq
<1>3. w \o q \o <<x>> \in Seq(Chunks) BY <1>1, ConcatProperties
<1>4. f \o Read(tr, w \o q \o <<x>>) \in Seq(Pages) BY <1>3, ReadType, ConcatProperties
<1>5. f \o Read(tr, (w \o q \o <<x>>) \o <<g>>) = Append(f \o Read(tr, w \o q \o <<x>>), tr[g])
  BY <1>3, ReadLast
<1> QED BY <1>2, <1>4, <1>5 DEF Log

-----------------------------------------------------------------------------
(* What being in one place only means for two chunks *)

LEMMA SomePosition ==
    ASSUME NEW S, NEW s \in Seq(S), NEW i \in 1 .. Len(s)
    PROVE  /\ Cardinality(Positions(s, s[i])) \in Nat
           /\ Cardinality(Positions(s, s[i])) >= 1
           /\ \A j \in 1 .. Len(s) : i # j /\ s[j] = s[i] => Cardinality(Positions(s, s[i])) >= 2
<1>1. PICK P : P = Positions(s, s[i]) OBVIOUS
<1>2. IsFiniteSet(P) /\ Cardinality(P) \in Nat BY <1>1, PositionsFinite
<1>3. {i} \subseteq P BY <1>1 DEF Positions
<1>4. Cardinality({i}) = 1 BY FS_Singleton
<1>5. Cardinality(P) >= 1
  <2>1. Cardinality({i}) <= Cardinality(P) BY <1>2, <1>3, FS_Subset
  <2> QED BY <1>2, <1>4, <2>1
<1>6. ASSUME NEW j \in 1 .. Len(s), i # j, s[j] = s[i] PROVE Cardinality(P) >= 2
  <2>1. PICK T : T = {i} \cup {j} OBVIOUS
  <2>2. T \subseteq P BY <1>1, <1>6, <2>1 DEF Positions
  <2>3. j \notin {i} /\ IsFiniteSet({i}) BY <1>6, FS_Singleton
  <2>4. Cardinality({i} \cup {j}) = Cardinality({i}) + 1 BY <2>3, FS_AddElement
  <2>5. Cardinality(T) = 2
    <3>1. Cardinality(T) = Cardinality({i}) + 1 BY <2>1, <2>4
    <3> QED BY <1>4, <3>1
  <2>6. Cardinality(T) <= Cardinality(P) BY <1>2, <2>2, FS_Subset
  <2> QED BY <1>2, <2>5, <2>6
<1> QED BY <1>1, <1>2, <1>5, <1>6

LEMMA OnePlace ==
    ASSUME Inv, running = "yes"
    PROVE  /\ Apart
           /\ \A i \in 1 .. Len(writing) : writing[i] # current[1]
           /\ \A i \in 1 .. Len(available) : available[i] # current[1]
           /\ WriterHas => writer # current[1]
           /\ \A t \in Recorders : pc[t] = "handover" =>
                 /\ WriterHas => seen[t][1] # writer
                 /\ \A i \in 1 .. Len(writing) : writing[i] # seen[t][1]
<1>1. ASSUME NEW c \in Chunks
      PROVE  \E a, w, h \in Nat, x, y \in {0, 1} :
                 /\ a = Cardinality(Positions(available, c))
                 /\ w = Cardinality(Positions(writing, c))
                 /\ h = Cardinality(Holders(c))
                 /\ (x = 1 <=> WriterHas /\ writer = c)
                 /\ (y = 1 <=> current[1] = c)
                 /\ a + w + h + x + y = 1
  <2>1. Typed /\ PlacesOf(c) = 1 BY DEF Inv, ChunksConserved
  <2>2. PICK a, w, h \in Nat : /\ a = Cardinality(Positions(available, c))
                               /\ w = Cardinality(Positions(writing, c))
                               /\ h = Cardinality(Holders(c))
    BY <2>1, PlacesSum
  <2>3. PICK x \in {0, 1} : x = One(WriterHas /\ writer = c) BY DEF One
  <2>4. PICK y \in {0, 1} : y = One(current[1] = c) BY DEF One
  <2>5. a + w + h + x + y = 1 BY <2>1, <2>2, <2>3, <2>4, PlacesSum
  <2>6. x = 1 <=> (WriterHas /\ writer = c) BY <2>3 DEF One
  <2>7. y = 1 <=> current[1] = c BY <2>4 DEF One
  <2> QED BY <2>2, <2>5, <2>6, <2>7
<1>2. current[1] \in Chunks /\ writer \in Chunks BY DEF Inv, Typed
<1>3. writing \in Seq(Chunks) /\ available \in Seq(Chunks) BY DEF Inv, Typed
<1>5. ASSUME NEW i \in 1 .. Len(writing)
      PROVE  /\ writing[i] # current[1]
             /\ WriterHas => writing[i] # writer
             /\ \A j \in 1 .. Len(writing) : writing[i] = writing[j] => i = j
  <2>1. PICK c \in Chunks : c = writing[i] BY <1>3
  <2>2. PICK a, w, h \in Nat, x, y \in {0, 1} :
            /\ a = Cardinality(Positions(available, c)) /\ w = Cardinality(Positions(writing, c))
            /\ h = Cardinality(Holders(c)) /\ (x = 1 <=> WriterHas /\ writer = c)
            /\ (y = 1 <=> current[1] = c) /\ a + w + h + x + y = 1
    BY <1>1
  <2>3. w >= 1
    <3>1. Cardinality(Positions(writing, writing[i])) >= 1 BY <1>3, SomePosition
    <3> QED BY <2>1, <2>2, <3>1
  <2>4. ASSUME NEW j \in 1 .. Len(writing), writing[i] = writing[j], i # j PROVE w >= 2
    BY <1>3, <2>1, <2>2, <2>4, SomePosition
  <2>5. x = 0 /\ y = 0 /\ ~ (w >= 2)
    <3>1. a + w + h + x + y = 1 BY <2>2
    <3> QED BY <2>3, <3>1
  <2> QED BY <2>1, <2>2, <2>4, <2>5
<1>6. ASSUME NEW i \in 1 .. Len(available) PROVE available[i] # current[1]
  <2>1. PICK c \in Chunks : c = available[i] BY <1>3
  <2>2. PICK a, w, h \in Nat, x, y \in {0, 1} :
            /\ a = Cardinality(Positions(available, c)) /\ w = Cardinality(Positions(writing, c))
            /\ h = Cardinality(Holders(c)) /\ (x = 1 <=> WriterHas /\ writer = c)
            /\ (y = 1 <=> current[1] = c) /\ a + w + h + x + y = 1
    BY <1>1
  <2>3. a >= 1
    <3>1. Cardinality(Positions(available, available[i])) >= 1 BY <1>3, SomePosition
    <3> QED BY <2>1, <2>2, <3>1
  <2>4. y = 0
    <3>1. a + w + h + x + y = 1 BY <2>2
    <3> QED BY <2>3, <3>1
  <2> QED BY <2>1, <2>2, <2>4
<1>7. ASSUME WriterHas PROVE writer # current[1]
  <2>1. PICK c \in Chunks : c = writer BY <1>2
  <2>2. PICK a, w, h \in Nat, x, y \in {0, 1} :
            /\ a = Cardinality(Positions(available, c)) /\ w = Cardinality(Positions(writing, c))
            /\ h = Cardinality(Holders(c)) /\ (x = 1 <=> WriterHas /\ writer = c)
            /\ (y = 1 <=> current[1] = c) /\ a + w + h + x + y = 1
    BY <1>1
  <2>3. x = 1 BY <1>7, <2>1, <2>2
  <2>4. y = 0 BY <2>2, <2>3
  <2> QED BY <2>1, <2>2, <2>4
<1>8. ASSUME NEW t \in Recorders, pc[t] = "handover"
      PROVE  /\ WriterHas => seen[t][1] # writer
             /\ \A i \in 1 .. Len(writing) : writing[i] # seen[t][1]
  <2>1. PICK c \in Chunks : c = seen[t][1] BY DEF Inv, Typed
  <2>2. PICK a, w, h \in Nat, x, y \in {0, 1} :
            /\ a = Cardinality(Positions(available, c)) /\ w = Cardinality(Positions(writing, c))
            /\ h = Cardinality(Holders(c)) /\ (x = 1 <=> WriterHas /\ writer = c)
            /\ (y = 1 <=> current[1] = c) /\ a + w + h + x + y = 1
    BY <1>1
  <2>3. h # 0
    <3>1. Holders(c) \in SUBSET Recorders BY DEF Holders
    <3>2. IsFiniteSet(Holders(c)) BY <3>1, TracerAssumption, FS_Subset
    <3>3. Held(t) = <<seen[t][1]>> BY <1>8 DEF Held
    <3>4. t \in Holders(c) BY <2>1, <3>3, HeldOne
    <3> QED BY <2>2, <3>2, <3>4, FS_EmptySet
  <2>4. x = 0 /\ w = 0
    <3>1. a + w + h + x + y = 1 BY <2>2
    <3> QED BY <2>3, <3>1
  <2>5. ASSUME NEW i \in 1 .. Len(writing), writing[i] = c PROVE FALSE
    <3>1. Cardinality(Positions(writing, writing[i])) >= 1 BY <1>3, SomePosition
    <3>2. Cardinality(Positions(writing, writing[i])) = w BY <2>2, <2>5
    <3> QED BY <2>4, <3>1, <3>2
  <2> QED BY <2>1, <2>2, <2>4, <2>5
<1>9. Apart BY <1>5 DEF Apart
<1> QED BY <1>5, <1>6, <1>7, <1>8, <1>9

-----------------------------------------------------------------------------
(* The threads that record *)

\* A thread that is alone is the one that takes the steps.
LEMMA Mine ==
    ASSUME Inv, NEW t \in Recorders, NEW u \in Recorders, Alone(u), pc[t] # "idle"
    PROVE  u = t
<1>1. ~ (events[t] = 0 /\ flushes[t] = 0) BY DEF Inv, Solo
<1> QED BY <1>1 DEF Alone, Others

\* Where the chunks of the log are, and of what type
LEMMA LogParts ==
    ASSUME Inv, NEW t \in Recorders
    PROVE  /\ InWriter \in Seq(Chunks) /\ writing \in Seq(Chunks) /\ InHand(t) \in Seq(Chunks)
           /\ InUse \in Seq(Chunks) /\ current[1] \in Chunks /\ current[2] \in Nat
<1>1. /\ writer \in Chunks /\ seen[t][1] \in Chunks /\ writing \in Seq(Chunks)
      /\ current[1] \in Chunks /\ current[2] \in Nat
  BY DEF Inv, Typed
<1> QED BY <1>1 DEF InWriter, InHand, InUse

\* A step that leaves the log as it is
LEMMA LogKept ==
    ASSUME NEW t \in Recorders, InOrder(Logged(t), t, Finished(t)),
           Logged(t)' = Logged(t), Finished(t)' = Finished(t)
    PROVE  InOrder(Logged(t)', t, Finished(t)')
OBVIOUS

LEMMA OrderPrimed ==
    ASSUME \A t \in Recorders : Alone(t)' => InOrder(Logged(t)', t, Finished(t)')
    PROVE  LoggedInOrder'
BY DEF LoggedInOrder

\* and one that leaves the chunks where they are and what they hold
LEMMA LogStill ==
    ASSUME NEW t \in Recorders,
           UNCHANGED <<trace, writing, wpc, writer, running, file>>,
           current'[1] = current[1], InHand(t)' = InHand(t)
    PROVE  Logged(t)' = Logged(t)
BY LoggedIs DEF Logged, Traces, Line, InHand

\* What a step of t has to show
LEMMA TidyMine ==
    ASSUME NEW t \in Recorders, \A u \in Recorders : Alone(u)' => u = t /\ Alone(t),
           Traced', Calls', Apart',
           Alone(t) => InOrder(Logged(t)', t, Finished(t)'),
           Alone(t) /\ running' = "yes" => Room(t)' /\ Clean(t)'
    PROVE  Tidy'
<1>1. LoggedInOrder' BY OrderPrimed
<1>2. Ready' BY DEF Ready
<1> QED BY <1>1, <1>2 DEF Tidy

\* While t is in a call nobody begins one.
LEMMA AloneKept ==
    ASSUME Inv, NEW t \in Recorders, pc[t] # "idle", UNCHANGED <<events, flushes>>
    PROVE  \A u \in Recorders : Alone(u)' => u = t /\ Alone(t)
<1>1. \A u \in Recorders : Alone(u)' <=> Alone(u) BY DEF Alone
<1> QED BY <1>1, Mine

LEMMA RecordBeginTidy ==
    ASSUME Inv, Tidy, NEW t \in Recorders, RecordBegin(t)
    PROVE  Tidy'
<1>1. /\ pc[t] = "idle" /\ running = "yes" /\ pc' = [pc EXCEPT ![t] = "choose"]
      /\ events' = [events EXCEPT ![t] = @ + 1] /\ call' = [call EXCEPT ![t] = "record"]
      /\ seen' = [seen EXCEPT ![t] = current]
      /\ UNCHANGED <<trace, current, available, writing, got, target, flushes,
                     wpc, writer, running, file>>
  BY DEF RecordBegin, Goto, shared
<1>2. /\ pc'[t] = "choose" /\ events'[t] = events[t] + 1 /\ call'[t] = "record"
      /\ events[t] \in Nat
      /\ \A u \in Recorders \ {t} : pc'[u] = pc[u] /\ events'[u] = events[u] /\ call'[u] = call[u]
  BY <1>1 DEF Inv, Typed
<1>3. \A u \in Recorders : Alone(u)' => u = t /\ Alone(t)
  BY <1>1, <1>2 DEF Alone, Others
<1>4. Traced' /\ Apart' BY <1>1 DEF Tidy, Traced, Apart, WriterHas
<1>5. Calls' BY <1>1, <1>2 DEF Tidy, Calls, Recording
<1>6. ASSUME Alone(t) PROVE InOrder(Logged(t)', t, Finished(t)')
  <2>1. InHand(t)' = InHand(t) BY <1>1, <1>2 DEF InHand
  <2>2. Logged(t)' = Logged(t) BY <1>1, <2>1, LogStill
  <2>3. Finished(t)' = Finished(t) BY <1>1, <1>2 DEF Finished, Recording
  <2> QED BY <1>6, <2>2, <2>3, LogKept DEF Tidy, LoggedInOrder
<1>7. ASSUME Alone(t) PROVE Room(t)' /\ Clean(t)'
  <2>1. Room(t) /\ Clean(t) BY <1>1, <1>7 DEF Tidy, Ready
  <2>2. ~ Reserved(t) /\ ~ Reserved(t)' BY <1>1, <1>2 DEF Reserved
  <2>3. Room(t)' BY <1>1, <1>2, <2>1, <2>2 DEF Room
  <2> QED BY <1>1, <1>2, <2>1, <2>3 DEF Clean
<1> QED BY <1>3, <1>4, <1>5, <1>6, <1>7, TidyMine

LEMMA FlushBeginTidy ==
    ASSUME Inv, Tidy, NEW t \in Recorders, FlushBegin(t)
    PROVE  Tidy'
<1>1. /\ pc[t] = "idle" /\ running = "yes" /\ pc' = [pc EXCEPT ![t] = "choose"]
      /\ flushes' = [flushes EXCEPT ![t] = @ + 1] /\ call' = [call EXCEPT ![t] = "flush"]
      /\ seen' = [seen EXCEPT ![t] = current]
      /\ UNCHANGED <<trace, current, available, writing, got, target, events,
                     wpc, writer, running, file>>
  BY DEF FlushBegin, Goto, shared
<1>2. /\ pc'[t] = "choose" /\ flushes'[t] = flushes[t] + 1 /\ call'[t] = "flush"
      /\ flushes[t] \in Nat
      /\ \A u \in Recorders \ {t} : pc'[u] = pc[u] /\ flushes'[u] = flushes[u] /\ call'[u] = call[u]
  BY <1>1 DEF Inv, Typed
<1>3. \A u \in Recorders : Alone(u)' => u = t /\ Alone(t)
  BY <1>1, <1>2 DEF Alone, Others
<1>4. Traced' /\ Apart' BY <1>1 DEF Tidy, Traced, Apart, WriterHas
<1>5. Calls' BY <1>1, <1>2 DEF Tidy, Calls, Recording
<1>6. ASSUME Alone(t) PROVE InOrder(Logged(t)', t, Finished(t)')
  <2>1. InHand(t)' = InHand(t) BY <1>1, <1>2 DEF InHand
  <2>2. Logged(t)' = Logged(t) BY <1>1, <2>1, LogStill
  <2>3. Finished(t)' = Finished(t) BY <1>1, <1>2 DEF Finished, Recording
  <2> QED BY <1>6, <2>2, <2>3, LogKept DEF Tidy, LoggedInOrder
<1>7. ASSUME Alone(t) PROVE Room(t)' /\ Clean(t)'
  <2>1. Room(t) /\ Clean(t) BY <1>1, <1>7 DEF Tidy, Ready
  <2>2. ~ Reserved(t) /\ ~ Reserved(t)' BY <1>1, <1>2 DEF Reserved
  <2>3. Room(t)' BY <1>1, <1>2, <2>1, <2>2 DEF Room
  <2> QED BY <1>1, <1>2, <2>1, <2>3 DEF Clean
<1> QED BY <1>3, <1>4, <1>5, <1>6, <1>7, TidyMine

LEMMA ChooseTidy ==
    ASSUME Inv, Tidy, NEW t \in Recorders, Choose(t)
    PROVE  Tidy'
<1>1. /\ pc[t] = "choose" /\ pc' = [pc EXCEPT ![t] = "exchange"]
      /\ UNCHANGED <<trace, current, writing, call, seen, target, events, flushes,
                     wpc, writer, running, file>>
      /\ \/ /\ available # <<>> /\ available' = Tail(available)
            /\ got' = [got EXCEPT ![t] = <<Head(available)>>]
         \/ got[t] = <<>> /\ UNCHANGED <<got, available>>
  BY DEF Choose, Goto, Inv, Taken
<1>2. pc'[t] = "exchange" /\ \A u \in Recorders \ {t} : pc'[u] = pc[u] BY <1>1 DEF Inv, Typed
<1>3. \A u \in Recorders : Alone(u)' => u = t /\ Alone(t) BY <1>1, AloneKept
<1>4. Traced' /\ Apart' BY <1>1 DEF Tidy, Traced, Apart, WriterHas
<1>5. Calls' BY <1>1, <1>2 DEF Tidy, Calls, Recording
<1>6. ASSUME Alone(t) PROVE InOrder(Logged(t)', t, Finished(t)')
  <2>1. InHand(t)' = InHand(t) BY <1>1, <1>2 DEF InHand
  <2>2. Logged(t)' = Logged(t) BY <1>1, <2>1, LogStill
  <2>3. Finished(t)' = Finished(t) BY <1>1, <1>2 DEF Finished, Recording
  <2> QED BY <1>6, <2>2, <2>3, LogKept DEF Tidy, LoggedInOrder
<1>7. ASSUME Alone(t), running' = "yes" PROVE Room(t)' /\ Clean(t)'
  <2>1. Room(t) /\ Clean(t) BY <1>1, <1>7 DEF Tidy, Ready
  <2>2. ~ Reserved(t) /\ ~ Reserved(t)' BY <1>1, <1>2 DEF Reserved
  <2>3. Room(t)' BY <1>1, <1>2, <2>1, <2>2 DEF Room
  <2>4. CASE /\ available # <<>> /\ available' = Tail(available)
             /\ got' = [got EXCEPT ![t] = <<Head(available)>>]
    <3>1. PICK n \in Nat : n = Len(available) /\ n > 0 BY <2>4, EmptySeq DEF Inv, Typed
    <3>2. /\ Head(available) = available[1] /\ Len(Tail(available)) = n - 1
          /\ \A i \in 1 .. n - 1 : Tail(available)[i] = available[i + 1]
      BY <2>4, <3>1, HeadTailProperties DEF Inv, Typed
    <3>3. \A i \in 1 .. n : trace[available[i]] = Blank BY <2>1, <3>1 DEF Clean
    <3>4. \A i \in 1 .. Len(available') : trace[available'[i]] = Blank BY <2>4, <3>1, <3>2, <3>3
    <3>5. got'[t] = <<available[1]>> BY <2>4, <3>2 DEF Inv, Typed
    <3>6. \A i \in 1 .. Len(got'[t]) : trace[got'[t][i]] = Blank
      <4>1. PICK a : a = available[1] /\ trace[a] = Blank BY <3>1, <3>3
      <4>2. Len(<<a>>) = 1 /\ <<a>>[1] = a OBVIOUS
      <4> QED BY <3>5, <4>1, <4>2
    <3> QED BY <1>1, <2>1, <2>3, <3>4, <3>6 DEF Clean
  <2>5. CASE got[t] = <<>> /\ UNCHANGED <<got, available>>
    <3>1. Len(got'[t]) = 0 BY <2>5
    <3> QED BY <1>1, <2>1, <2>3, <2>5, <3>1 DEF Clean
  <2> QED BY <1>1, <2>4, <2>5
<1> QED BY <1>3, <1>4, <1>5, <1>6, <1>7, TidyMine

LEMMA ReserveTidy ==
    ASSUME Inv, Tidy, NEW t \in Recorders, Reserve(t)
    PROVE  Tidy'
<1>1. /\ pc[t] = "exchange" /\ current = seen[t] /\ current' = NextWord(t)
      /\ target' = [target EXCEPT ![t] = IF Switches(t) THEN <<got[t][1], 0>> ELSE seen[t]]
      /\ pc' = [pc EXCEPT ![t] = IF Switches(t) THEN "handover" ELSE "write"]
      /\ UNCHANGED <<trace, available, writing, call, seen, got, events, flushes,
                     wpc, writer, running, file>>
  BY DEF Reserve, Goto
<1>2. /\ pc'[t] = IF Switches(t) THEN "handover" ELSE "write"
      /\ \A u \in Recorders \ {t} : pc'[u] = pc[u]
  BY <1>1 DEF Inv, Typed
<1>3. \A u \in Recorders : Alone(u)' => u = t /\ Alone(t) BY <1>1, AloneKept
<1>4. call[t] \in {"record", "flush"} /\ running = "yes" BY <1>1 DEF Tidy, Calls, Inv, Typed
<1>5. PICK c \in Chunks, n \in Nat : current = <<c, n>> /\ current[1] = c /\ current[2] = n
  BY DEF Inv, Typed
<1>6. /\ seen[t] \in Chunks \X Nat /\ PerChunk \in Nat /\ PerChunk > 0 /\ Slots = 0 .. PerChunk - 1
      /\ 0 \in Nat /\ target \in [Recorders -> Chunks \X Nat]
  BY TracerAssumption DEF Inv, Typed, Tidy, Traced, Slots
<1>7. ASSUME Switches(t)
      PROVE  \E g \in Chunks : /\ got[t] = <<g>> /\ got[t][1] = g /\ Len(got[t]) = 1
                               /\ current' = <<g, IF call[t] = "flush" THEN 0 ELSE 1>>
  <2>1. Len(got[t]) = 1 /\ got[t] \in Seq(Chunks) BY <1>1, <1>7 DEF Inv, Taken, Typed
  <2>2. PICK g \in Chunks : g = got[t][1] BY <2>1
  <2>3. got[t] = <<g>> BY <2>1, <2>2
  <2>4. g % ChunkIds = g
    <3>1. g \in Nat /\ ChunkIds \in Nat /\ g < ChunkIds BY TracerAssumption DEF Chunks
    <3> QED BY <3>1
  <2> QED BY <1>1, <1>7, <2>1, <2>2, <2>3, <2>4 DEF NextWord
<1>8. ASSUME ~ Switches(t)
      PROVE  /\ call[t] = "record" /\ n + 1 <= PerChunk
             /\ current' = <<c, n + 1>> /\ target'[t] = <<c, n>>
  BY <1>1, <1>4, <1>5, <1>6, <1>8 DEF Switches, NextWord
<1>9. Traced'
  <2>1. target' \in [Recorders -> Chunks \X Nat]
    <3>1. CASE Switches(t)
      <4>1. PICK g \in Chunks : got[t][1] = g BY <1>7, <3>1
      <4>2. <<g, 0>> \in Chunks \X Nat BY <1>6
      <4> QED BY <1>1, <1>6, <3>1, <4>1, <4>2
    <3>2. CASE ~ Switches(t) BY <1>1, <1>6, <3>2
    <3> QED BY <3>1, <3>2
  <2> QED BY <1>1, <2>1 DEF Tidy, Traced
<1>10. Apart' BY <1>1 DEF Tidy, Apart, WriterHas
<1>11. Calls'
  <2>1. CASE Switches(t) BY <1>1, <1>2, <1>4, <2>1 DEF Tidy, Calls, Recording
  <2>2. CASE ~ Switches(t) BY <1>1, <1>2, <1>4, <1>8, <2>2 DEF Tidy, Calls, Recording
  <2> QED BY <2>1, <2>2
<1>12. Finished(t)' = Finished(t) BY <1>1, <1>2 DEF Finished, Recording
<1>13. ASSUME Alone(t) PROVE Room(t) /\ Clean(t) BY <1>4, <1>13 DEF Tidy, Ready
<1>14. CASE Switches(t)
  <2>1. PICK g \in Chunks : /\ got[t] = <<g>> /\ got[t][1] = g /\ Len(got[t]) = 1
                            /\ current' = <<g, IF call[t] = "flush" THEN 0 ELSE 1>>
    BY <1>7, <1>14
  <2>2. /\ current'[1] = g /\ current'[2] = (IF call[t] = "flush" THEN 0 ELSE 1)
        /\ target'[t] = <<g, 0>> /\ pc'[t] = "handover"
    BY <1>1, <1>2, <1>6, <1>14, <2>1
  <2>3. ASSUME Alone(t) PROVE trace[g] = Blank BY <1>1, <1>13, <2>1, <2>3 DEF Clean
  <2>4. ASSUME Alone(t) PROVE Room(t)' /\ Clean(t)'
    <3>1. \A k \in Slots : trace'[current'[1]][k] = Empty BY <1>1, <2>2, <2>3, <2>4 DEF Blank
    <3>2. Reserved(t)' => target'[t] = <<current'[1], current'[2] - 1>>
      <4>1. CASE call[t] = "flush" BY <1>1, <4>1 DEF Reserved
      <4>2. CASE call[t] = "record"
        <5>1. current'[2] = 1 /\ 1 - 1 = 0 BY <2>2, <4>2
        <5> QED BY <2>2, <5>1
      <4> QED BY <1>4, <4>1, <4>2
    <3>3. current'[2] <= PerChunk BY <1>6, <2>2
    <3>4. Room(t)' BY <1>1, <2>2, <3>1, <3>2, <3>3 DEF Room
    <3>5. Clean(t)' BY <1>1, <1>13, <2>2, <2>4 DEF Clean
    <3> QED BY <3>4, <3>5
  <2>5. ASSUME Alone(t) PROVE InOrder(Logged(t)', t, Finished(t)')
    <3>1. /\ InHand(t) = <<>> /\ InHand(t)' = <<c>> /\ InUse = <<c>> /\ InUse' = <<g>>
          /\ InWriter' = InWriter
      BY <1>1, <1>4, <1>5, <2>2 DEF InHand, InUse, InWriter
    <3>2. PICK L : L = Log(file, trace, InWriter, writing, <<>>, <<c>>) OBVIOUS
    <3>3. Logged(t) = L BY <3>1, <3>2, LoggedIs
    <3>4. Logged(t)' = Log(file, trace, InWriter, writing, <<c>>, <<g>>)
      <4>1. Logged(t)' = Log(file', trace', InWriter', writing', InHand(t)', InUse')
        BY DEF Logged, Log, Traces, Read, Line, InWriter, InHand, InUse
      <4> QED BY <1>1, <3>1, <4>1
    <3>5. /\ InWriter \in Seq(Chunks) /\ writing \in Seq(Chunks)
          /\ file \in Seq(Pages) /\ trace \in [Chunks -> Pages]
      BY LogParts DEF Tidy, Traced
    <3>6. L \in Seq(Pages) /\ Logged(t)' = Append(L, trace[g])
      BY <3>2, <3>4, <3>5, LogSwitch
    <3>7. Finished(t) \in Nat /\ InOrder(L, t, Finished(t))
      <4>1. InOrder(L, t, Finished(t)) BY <2>5, <3>3 DEF Tidy, LoggedInOrder
      <4>2. events[t] \in Nat /\ (Recording(t) => events[t] > 0) BY DEF Inv, Typed, Tidy, Calls
      <4> QED BY <4>1, <4>2 DEF Finished
    <3>8. InOrder(Append(L, Blank), t, Finished(t)) BY <3>6, <3>7, InOrderBlank
    <3> QED BY <1>12, <2>3, <2>5, <3>6, <3>8
  <2> QED BY <1>3, <1>9, <1>10, <1>11, <2>4, <2>5, TidyMine
<1>15. CASE ~ Switches(t)
  <2>1. /\ call[t] = "record" /\ n + 1 <= PerChunk /\ current' = <<c, n + 1>>
        /\ target'[t] = <<c, n>> /\ pc'[t] = "write"
        /\ current'[1] = c /\ current'[2] = n + 1
    BY <1>2, <1>8, <1>15
  <2>2. ASSUME Alone(t) PROVE Room(t)' /\ Clean(t)'
    <3>1. ~ Reserved(t) BY <1>1 DEF Reserved
    <3>2. \A k \in Slots : k >= n => trace[c][k] = Empty BY <1>5, <1>13, <2>2, <3>1 DEF Room
    <3>3. (n + 1) - 1 = n OBVIOUS
    <3>4. Room(t)' BY <1>1, <2>1, <3>2, <3>3 DEF Room, Reserved
    <3>5. Clean(t)' BY <1>1, <1>13, <2>1, <2>2 DEF Clean
    <3> QED BY <3>4, <3>5
  <2>3. ASSUME Alone(t) PROVE InOrder(Logged(t)', t, Finished(t)')
    <3>1. InHand(t)' = InHand(t) BY <1>1, <2>1 DEF InHand
    <3>2. current'[1] = current[1] BY <1>5, <2>1
    <3>3. Logged(t)' = Logged(t) BY <1>1, <3>1, <3>2, LogStill
    <3> QED BY <1>12, <2>3, <3>3, LogKept DEF Tidy, LoggedInOrder
  <2> QED BY <1>3, <1>9, <1>10, <1>11, <2>2, <2>3, TidyMine
<1> QED BY <1>14, <1>15

\* An exchange fails only where another thread traces.
LEMMA MissTidy ==
    ASSUME Inv, Tidy, NEW t \in Recorders, Miss(t)
    PROVE  Tidy'
<1>1. /\ pc[t] = "exchange" /\ current # seen[t] /\ pc' = [pc EXCEPT ![t] = "choose"]
      /\ UNCHANGED <<trace, writing, call, target, events, flushes, wpc, writer, running, file>>
  BY DEF Miss, Goto
<1>2. pc'[t] = "choose" /\ \A u \in Recorders \ {t} : pc'[u] = pc[u] BY <1>1 DEF Inv, Typed
<1>3. \A u \in Recorders : Alone(u)' => u = t /\ Alone(t) BY <1>1, AloneKept
<1>4. Traced' /\ Apart' BY <1>1 DEF Tidy, Traced, Apart, WriterHas
<1>5. Calls' BY <1>1, <1>2 DEF Tidy, Calls, Recording
<1>6. ~ Alone(t) BY <1>1 DEF Inv, Solo
<1> QED BY <1>3, <1>4, <1>5, <1>6, TidyMine

LEMMA HandOverTidy ==
    ASSUME Inv, Tidy, NEW t \in Recorders, HandOver(t)
    PROVE  Tidy'
<1>1. /\ pc[t] = "handover" /\ writing' = Append(writing, seen[t][1])
      /\ pc' = [pc EXCEPT ![t] = IF call[t] = "flush" THEN "idle" ELSE "write"]
      /\ UNCHANGED <<trace, current, available, call, seen, target, events, flushes,
                     wpc, writer, running, file>>
  BY DEF HandOver, Goto
<1>2. /\ pc'[t] = IF call[t] = "flush" THEN "idle" ELSE "write"
      /\ \A u \in Recorders \ {t} : pc'[u] = pc[u]
  BY <1>1 DEF Inv, Typed
<1>3. \A u \in Recorders : Alone(u)' => u = t /\ Alone(t) BY <1>1, AloneKept
<1>4. call[t] \in {"record", "flush"} /\ running = "yes" BY <1>1 DEF Tidy, Calls, Inv, Typed
<1>5. PICK x \in Chunks : x = seen[t][1] BY DEF Inv, Typed
<1>6. Traced' BY <1>1 DEF Tidy, Traced
<1>7. Calls' BY <1>1, <1>2, <1>4 DEF Tidy, Calls, Recording
<1>8. Apart'
  <2>1. PICK n \in Nat : n = Len(writing) BY DEF Inv, Typed
  <2>2. /\ Len(writing') = n + 1 /\ writing'[n + 1] = x
        /\ \A i \in 1 .. n : writing'[i] = writing[i]
    BY <1>1, <1>5, <2>1 DEF Inv, Typed
  <2>3. /\ \A i \in 1 .. n : writing[i] # x
        /\ WriterHas => x # writer
    BY <1>1, <1>4, <1>5, <2>1, OnePlace
  <2>4. /\ \A i, j \in 1 .. n : writing[i] = writing[j] => i = j
        /\ \A i \in 1 .. n : WriterHas => writing[i] # writer
    BY <2>1 DEF Tidy, Apart
  <2>5. \A i \in 1 .. n + 1 : i \in 1 .. n \/ i = n + 1 OBVIOUS
  <2>6. \A i, j \in 1 .. n + 1 : writing'[i] = writing'[j] => i = j BY <2>2, <2>3, <2>4, <2>5
  <2>7. \A i \in 1 .. n + 1 : WriterHas' => writing'[i] # writer'
    <3>1. writer' = writer /\ (WriterHas' <=> WriterHas) BY <1>1 DEF WriterHas
    <3> QED BY <2>2, <2>3, <2>4, <2>5, <3>1
  <2> QED BY <2>2, <2>6, <2>7 DEF Apart
<1>9. ASSUME Alone(t) PROVE InOrder(Logged(t)', t, Finished(t)')
  <2>1. InHand(t) = <<x>> /\ InHand(t)' = <<>> /\ InWriter' = InWriter /\ InUse' = InUse
    BY <1>1, <1>2, <1>5 DEF InHand, InWriter, InUse
  <2>2. Logged(t) = Log(file, trace, InWriter, writing, <<x>>, InUse) BY <2>1, LoggedIs
  <2>3. Logged(t)' = Log(file, trace, InWriter, Append(writing, x), <<>>, InUse)
    <3>1. Logged(t)' = Log(file', trace', InWriter', writing', InHand(t)', InUse')
      BY DEF Logged, Log, Traces, Read, Line, InWriter, InHand, InUse
    <3> QED BY <1>1, <1>5, <2>1, <3>1
  <2>4. Logged(t)' = Logged(t) BY <2>2, <2>3, LogHandOver, LogParts
  <2>5. Finished(t)' = Finished(t) BY <1>1, <1>2, <1>4 DEF Finished, Recording
  <2> QED BY <1>9, <2>4, <2>5, LogKept DEF Tidy, LoggedInOrder
<1>10. ASSUME Alone(t) PROVE Room(t)' /\ Clean(t)'
  <2>1. Room(t) /\ Clean(t) BY <1>4, <1>10 DEF Tidy, Ready
  <2>2. Reserved(t)' <=> Reserved(t) BY <1>1, <1>2, <1>4 DEF Reserved
  <2>3. pc'[t] # "handover" BY <1>2
  <2>4. pc'[t] = "write" => current[2] > 0 BY <1>1, <1>2, <2>1 DEF Room
  <2>5. Room(t)' BY <1>1, <2>1, <2>2, <2>3, <2>4 DEF Room
  <2>6. pc'[t] # "exchange" BY <1>2
  <2>7. Clean(t)' BY <1>1, <2>1, <2>6 DEF Clean
  <2> QED BY <2>5, <2>7
<1> QED BY <1>3, <1>6, <1>7, <1>8, <1>9, <1>10, TidyMine

\* A concatenation of sequences that do not hold c does not hold it either.
LEMMA ConcatAvoids ==
    ASSUME NEW p \in Seq(Chunks), NEW q \in Seq(Chunks), NEW c,
           \A i \in 1 .. Len(p) : p[i] # c, \A i \in 1 .. Len(q) : q[i] # c
    PROVE  p \o q \in Seq(Chunks) /\ \A i \in 1 .. Len(p \o q) : (p \o q)[i] # c
OBVIOUS

LEMMA WriteTidy ==
    ASSUME Inv, Tidy, NEW t \in Recorders, Write(t)
    PROVE  Tidy'
<1>1. /\ pc[t] = "write" /\ pc' = [pc EXCEPT ![t] = "idle"]
      /\ trace' = [trace EXCEPT ![target[t][1]][target[t][2]] = Event(t)]
      /\ UNCHANGED <<current, available, writing, call, seen, got, target, events, flushes,
                     wpc, writer, running, file>>
  BY DEF Write, Goto
<1>2. pc'[t] = "idle" /\ \A u \in Recorders \ {t} : pc'[u] = pc[u] BY <1>1 DEF Inv, Typed
<1>3. \A u \in Recorders : Alone(u)' => u = t /\ Alone(t) BY <1>1, AloneKept
<1>4. /\ call[t] = "record" /\ running = "yes" /\ events[t] \in Nat /\ events[t] > 0
  BY <1>1 DEF Tidy, Calls, Recording, Inv, Typed
<1>5. PICK e : e = Event(t) /\ e = <<t, events[t]>> /\ e \in Entries
  BY <1>4, EntryFacts DEF Event
<1>6. trace \in [Chunks -> Pages] /\ file \in Seq(Pages) BY DEF Tidy, Traced
<1>7. trace' \in [Chunks -> Pages] BY <1>1, <1>5, <1>6 DEF Pages
<1>8. Traced' BY <1>1, <1>7 DEF Tidy, Traced
<1>9. Calls' BY <1>1, <1>2 DEF Tidy, Calls, Recording
<1>10. Apart' BY <1>1 DEF Tidy, Apart, WriterHas
<1>11. CASE ~ Alone(t) BY <1>3, <1>8, <1>9, <1>10, <1>11, TidyMine
<1>12. CASE Alone(t)
  <2>1. Room(t) /\ Clean(t) BY <1>4, <1>12 DEF Tidy, Ready
  <2>2. PICK c \in Chunks, n \in Nat : /\ current[1] = c /\ current[2] = n + 1
                                       /\ target[t] = <<c, n>> /\ n + 1 <= PerChunk
    <3>1. current[1] \in Chunks /\ current[2] \in Nat BY DEF Inv, Typed
    <3>2. current[2] > 0 /\ current[2] <= PerChunk /\ target[t] = <<current[1], current[2] - 1>>
      BY <1>1, <1>4, <2>1 DEF Room, Reserved
    <3>3. current[2] - 1 \in Nat /\ (current[2] - 1) + 1 = current[2] BY <3>1, <3>2
    <3> QED BY <3>1, <3>2, <3>3
  <2>3. n \in Slots BY <2>2, TracerAssumption DEF Slots
  <2>4. \A k \in Slots : k >= n => trace[c][k] = Empty
    <3>1. (n + 1) - 1 = n /\ Reserved(t) BY <1>1, <1>4 DEF Reserved
    <3> QED BY <2>1, <2>2, <3>1 DEF Room
  <2>5. PICK x \in Pages : x = trace[c] BY <1>6, <2>2
  <2>6. PICK y \in Pages : y = [x EXCEPT ![n] = e] BY <1>5, <2>3 DEF Pages
  <2>7. trace'[c] = y /\ \A d \in Chunks \ {c} : trace'[d] = trace[d]
    <3>1. target[t][1] = c /\ target[t][2] = n BY <2>2
    <3>2. trace' = [trace EXCEPT ![c] = [trace[c] EXCEPT ![n] = e]] BY <1>1, <1>5, <3>1
    <3> QED BY <1>6, <2>5, <2>6, <3>2
  <2>8. /\ \A i \in 1 .. Len(writing) : writing[i] # c
        /\ \A i \in 1 .. Len(available) : available[i] # c
        /\ WriterHas => writer # c
    BY <1>4, <2>2, OnePlace
  <2>9. ~ Reserved(t)' BY <1>2 DEF Reserved
  <2>10. Room(t)'
    <3>1. \A k \in Slots : k >= n + 1 => y[k] = Empty
      <4> SUFFICES ASSUME NEW k \in Slots, k >= n + 1 PROVE y[k] = Empty OBVIOUS
      <4>1. k \in Nat /\ k >= n /\ k # n BY DEF Slots
      <4>2. x[k] = Empty BY <2>4, <2>5, <4>1
      <4> QED BY <2>6, <4>1, <4>2 DEF Pages
    <3> QED BY <1>1, <1>2, <2>2, <2>7, <2>9, <3>1 DEF Room
  <2>11. Clean(t)'
    <3>1. \A i \in 1 .. Len(available) : trace'[available[i]] = Blank
      <4>1. \A i \in 1 .. Len(available) : available[i] \in Chunks \ {c}
        BY <2>8 DEF Inv, Typed
      <4> QED BY <2>1, <2>7, <4>1 DEF Clean
    <3>2. wpc = "return" => trace'[writer] = Blank
      <4>1. wpc = "return" => writer \in Chunks \ {c} BY <2>8 DEF Inv, Typed, WriterHas
      <4> QED BY <2>1, <2>7, <4>1 DEF Clean
    <3> QED BY <1>1, <1>2, <3>1, <3>2 DEF Clean
  <2>12. InOrder(Logged(t)', t, Finished(t)')
    <3>1. /\ InHand(t) = <<>> /\ InHand(t)' = <<>> /\ InUse = <<c>> /\ InUse' = <<c>>
          /\ InWriter' = InWriter
      BY <1>1, <1>2, <1>4, <2>2 DEF InHand, InUse, InWriter
    <3>2. InWriter \in Seq(Chunks) /\ writing \in Seq(Chunks) /\ <<>> \in Seq(Chunks)
      BY LogParts, EmptySeq
    <3>3. PICK s : /\ s = InWriter \o writing \o <<>> /\ s \in Seq(Chunks)
                   /\ \A i \in 1 .. Len(s) : s[i] # c
      <4>1. \A i \in 1 .. Len(InWriter) : InWriter[i] # c BY <2>8 DEF InWriter, WriterHas
      <4>2. /\ InWriter \o writing \in Seq(Chunks)
            /\ \A i \in 1 .. Len(InWriter \o writing) : (InWriter \o writing)[i] # c
        BY <2>8, <3>2, <4>1, ConcatAvoids
      <4>3. InWriter \o writing \o <<>> = InWriter \o writing BY <4>2, ConcatEmptySeq
      <4> QED BY <4>2, <4>3
    <3>4. Read(trace', s) = Read(trace, s)
      <4>1. \A i \in 1 .. Len(s) : s[i] \in Chunks \ {c} BY <3>3, ElementOfSeq
      <4>2. \A i \in 1 .. Len(s) : trace'[s[i]] = trace[s[i]] BY <2>7, <4>1
      <4> QED BY <1>6, <1>7, <3>3, <4>2, ReadSame
    <3>5. PICK P : P = file \o Read(trace, s) OBVIOUS
    <3>6. P \in Seq(Pages) /\ Logged(t) = Append(P, x)
      <4>1. Logged(t) = Log(file, trace, InWriter, writing, <<>>, <<c>>) BY <3>1, LoggedIs
      <4>2. Log(file, trace, InWriter, writing, <<>>, <<c>>) = file \o Read(trace, s \o <<c>>)
        BY <3>3 DEF Log
      <4>3. file \o Read(trace, s \o <<c>>) = Append(P, x) BY <1>6, <2>5, <3>3, <3>5, ReadLast
      <4>4. Read(trace, s) \in Seq(Pages) BY <1>6, <3>3, ReadType
      <4>5. P \in Seq(Pages) BY <1>6, <3>5, <4>4, ConcatProperties
      <4> QED BY <4>1, <4>2, <4>3, <4>5
    <3>7. Logged(t)' = Append(P, y)
      <4>1. Logged(t)' = Log(file', trace', InWriter', writing', InHand(t)', InUse')
        BY DEF Logged, Log, Traces, Read, Line, InWriter, InHand, InUse
      <4>2. Logged(t)' = Log(file, trace', InWriter, writing, <<>>, <<c>>) BY <1>1, <3>1, <4>1
      <4>3. Log(file, trace', InWriter, writing, <<>>, <<c>>) = file \o Read(trace', s \o <<c>>)
        BY <3>3 DEF Log
      <4>4. file \o Read(trace', s \o <<c>>) = Append(file \o Read(trace', s), trace'[c])
        BY <1>6, <1>7, <3>3, ReadLast
      <4> QED BY <2>7, <3>4, <3>5, <4>2, <4>3, <4>4
    <3>8. PICK m \in Nat : m = Finished(t) /\ events[t] = m + 1 /\ Finished(t)' = m + 1
      <4>1. Finished(t) = events[t] - 1 BY <1>1, <1>4 DEF Finished, Recording
      <4>2. Finished(t)' = events[t] BY <1>1, <1>2 DEF Finished, Recording
      <4>3. events[t] - 1 \in Nat /\ (events[t] - 1) + 1 = events[t] BY <1>4
      <4> QED BY <4>1, <4>2, <4>3
    <3>9. InOrder(Append(P, x), t, m) BY <1>12, <3>6, <3>8 DEF Tidy, LoggedInOrder
    <3>10. \A k \in Slots : k >= n => x[k] = Empty BY <2>4, <2>5
    <3>11. InOrder(Append(P, [x EXCEPT ![n] = <<t, m + 1>>]), t, m + 1)
      BY <2>3, <3>6, <3>9, <3>10, InOrderWrite
    <3>12. y = [x EXCEPT ![n] = <<t, m + 1>>] BY <1>5, <2>6, <3>8
    <3> QED BY <3>7, <3>8, <3>11, <3>12
  <2> QED BY <1>3, <1>8, <1>9, <1>10, <2>10, <2>11, <2>12, TidyMine
<1> QED BY <1>11, <1>12

-----------------------------------------------------------------------------
(* The writer and the destructor *)

\* What a step in which no thread takes part has to show
LEMMA TidyAll ==
    ASSUME Tidy, UNCHANGED <<call, seen, target, pc, events, flushes>>,
           Traced', Calls', Apart',
           \A t \in Recorders : Alone(t) => Logged(t)' = Logged(t),
           \A t \in Recorders : Alone(t) /\ running' = "yes" => Room(t)' /\ Clean(t)'
    PROVE  Tidy'
<1>1. \A t \in Recorders : (Alone(t)' <=> Alone(t)) /\ Finished(t)' = Finished(t)
  BY DEF Alone, Finished, Recording
<1>2. ASSUME NEW t \in Recorders, Alone(t)' PROVE InOrder(Logged(t)', t, Finished(t)')
  BY <1>1, <1>2, LogKept DEF Tidy, LoggedInOrder
<1>3. LoggedInOrder' BY <1>2, OrderPrimed
<1>4. Ready' BY <1>1 DEF Ready
<1> QED BY <1>3, <1>4 DEF Tidy

\* The steps of the writer that change no chunk
LEMMA RoomKept ==
    ASSUME NEW t \in Recorders, UNCHANGED <<trace, current, call, pc, target>>, Room(t)
    PROVE  Room(t)'
BY DEF Room, Reserved

LEMMA WriterCheckTidy ==
    ASSUME Inv, Tidy, WriterCheck
    PROVE  Tidy'
<1>1. /\ wpc = "check" /\ wpc' = "pop"
      /\ UNCHANGED <<trace, current, available, writing, pc, call, seen, got, target,
                     events, flushes, writer, running, file>>
  BY DEF WriterCheck, shared, locals
<1>2. Traced' /\ Calls' /\ Apart' BY <1>1 DEF Tidy, Traced, Calls, Recording, Apart, WriterHas
<1>3. \A t \in Recorders : Logged(t)' = Logged(t) BY <1>1 DEF Logged, Traces, Line
<1>4. ASSUME NEW t \in Recorders, Alone(t), running' = "yes" PROVE Room(t)' /\ Clean(t)'
  <2>1. Room(t) /\ Clean(t) BY <1>1, <1>4 DEF Tidy, Ready
  <2> QED BY <1>1, <2>1, RoomKept DEF Clean
<1> QED BY <1>1, <1>2, <1>3, <1>4, TidyAll

LEMMA WriterPopTidy ==
    ASSUME Inv, Tidy, WriterPop
    PROVE  Tidy'
<1>1. /\ wpc = "pop"
      /\ UNCHANGED <<trace, current, available, pc, call, seen, got, target,
                     events, flushes, running, file>>
      /\ \/ wpc' = "check" /\ UNCHANGED <<writer, writing>>
         \/ /\ writing # <<>> /\ wpc' = "write"
            /\ writer' = Head(writing) /\ writing' = Tail(writing)
  BY DEF WriterPop, locals
<1>2. Traced' /\ Calls' BY <1>1 DEF Tidy, Traced, Calls, Recording
<1>3. ASSUME NEW t \in Recorders, Alone(t), running' = "yes" PROVE Room(t)' /\ Clean(t)'
  <2>1. Room(t) /\ Clean(t) BY <1>1, <1>3 DEF Tidy, Ready
  <2>2. wpc' # "return" BY <1>1
  <2> QED BY <1>1, <2>1, <2>2, RoomKept DEF Clean
<1>4. CASE wpc' = "check" /\ UNCHANGED <<writer, writing>>
  <2>1. Apart' BY <1>1, <1>4 DEF Tidy, Apart, WriterHas
  <2>2. \A t \in Recorders : Logged(t)' = Logged(t) BY <1>1, <1>4 DEF Logged, Traces, Line
  <2> QED BY <1>1, <1>2, <1>3, <2>1, <2>2, TidyAll
<1>5. CASE /\ writing # <<>> /\ wpc' = "write"
           /\ writer' = Head(writing) /\ writing' = Tail(writing)
  <2>1. PICK q \in Seq(Chunks) : q = writing /\ q # <<>> BY <1>5 DEF Inv, Typed
  <2>2. PICK n \in Nat : n = Len(q) /\ n > 0 BY <2>1, EmptySeq
  <2>3. /\ Len(writing') = n - 1 /\ \A i \in 1 .. n - 1 : writing'[i] = q[i + 1]
        /\ writer' = q[1]
    BY <1>5, <2>1, <2>2, HeadTailProperties
  <2>4. \A i, j \in 1 .. n : q[i] = q[j] => i = j BY <2>1, <2>2 DEF Tidy, Apart
  <2>5. Apart'
    <3>1. \A i \in 1 .. n - 1 : i + 1 \in 1 .. n /\ i + 1 # 1 OBVIOUS
    <3>2. 1 \in 1 .. n BY <2>2
    <3>3. \A i \in 1 .. n - 1 : writing'[i] # writer' BY <2>3, <2>4, <3>1, <3>2
    <3>4. ASSUME NEW i \in 1 .. n - 1, NEW j \in 1 .. n - 1, writing'[i] = writing'[j]
          PROVE  i = j
      <4>1. q[i + 1] = q[j + 1] BY <2>3, <3>4
      <4>2. i + 1 = j + 1 BY <2>4, <3>1, <4>1
      <4> QED BY <4>2
    <3> QED BY <2>3, <3>3, <3>4 DEF Apart
  <2>6. ASSUME NEW t \in Recorders PROVE Logged(t)' = Logged(t)
    <3>1. /\ InWriter = <<>> /\ InWriter' = <<Head(q)>> /\ InHand(t)' = InHand(t)
          /\ InUse' = InUse
      BY <1>1, <1>5, <2>1 DEF InWriter, InHand, InUse
    <3>2. Logged(t)' = Log(file', trace', InWriter', writing', InHand(t)', InUse')
      BY DEF Logged, Log, Traces, Read, Line, InWriter, InHand, InUse
    <3>3. Logged(t)' = Log(file, trace, <<Head(q)>>, Tail(q), InHand(t), InUse)
      BY <1>1, <1>5, <2>1, <3>1, <3>2
    <3>4. Logged(t) = Log(file, trace, <<>>, q, InHand(t), InUse) BY <2>1, <3>1, LoggedIs
    <3> QED BY <2>1, <3>3, <3>4, LogPop
  <2> QED BY <1>1, <1>2, <1>3, <2>5, <2>6, TidyAll
<1> QED BY <1>1, <1>4, <1>5

LEMMA WriterWriteTidy ==
    ASSUME Inv, Tidy, WriterWrite
    PROVE  Tidy'
<1>1. /\ wpc = "write" /\ wpc' = "clear" /\ file' = Append(file, trace[writer])
      /\ UNCHANGED <<trace, current, available, writing, pc, call, seen, got, target,
                     events, flushes, writer, running>>
  BY DEF WriterWrite, shared, locals
<1>2. /\ trace \in [Chunks -> Pages] /\ file \in Seq(Pages) /\ writer \in Chunks
      /\ trace[writer] \in Pages
  BY DEF Tidy, Traced, Inv, Typed
<1>3. file' \in Seq(Pages) BY <1>1, <1>2, AppendProperties
<1>4. Traced' /\ Calls' /\ Apart'
  BY <1>1, <1>3 DEF Tidy, Traced, Calls, Recording, Apart, WriterHas
<1>5. ASSUME NEW t \in Recorders PROVE Logged(t)' = Logged(t)
  <2>1. /\ InWriter = <<writer>> /\ InWriter' = <<>> /\ InHand(t)' = InHand(t)
        /\ InUse' = InUse
    BY <1>1 DEF InWriter, InHand, InUse
  <2>2. Logged(t)' = Log(file', trace', InWriter', writing', InHand(t)', InUse')
    BY DEF Logged, Log, Traces, Read, Line, InWriter, InHand, InUse
  <2>3. Logged(t)' = Log(Append(file, trace[writer]), trace, <<>>, writing, InHand(t), InUse)
    BY <1>1, <2>1, <2>2
  <2>4. Logged(t) = Log(file, trace, <<writer>>, writing, InHand(t), InUse) BY <2>1, LoggedIs
  <2> QED BY <1>2, <2>3, <2>4, LogWrite, LogParts
<1>6. ASSUME NEW t \in Recorders, Alone(t), running' = "yes" PROVE Room(t)' /\ Clean(t)'
  <2>1. Room(t) /\ Clean(t) BY <1>1, <1>6 DEF Tidy, Ready
  <2> QED BY <1>1, <2>1, RoomKept DEF Clean
<1> QED BY <1>1, <1>4, <1>5, <1>6, TidyAll

LEMMA WriterClearTidy ==
    ASSUME Inv, Tidy, WriterClear
    PROVE  Tidy'
<1>1. /\ wpc = "clear" /\ wpc' = "return" /\ trace' = [trace EXCEPT ![writer] = Blank]
      /\ UNCHANGED <<current, available, writing, pc, call, seen, got, target,
                     events, flushes, writer, running, file>>
  BY DEF WriterClear, locals, Blank
<1>2. trace \in [Chunks -> Pages] /\ file \in Seq(Pages) /\ writer \in Chunks /\ Blank \in Pages
  BY EntryFacts DEF Tidy, Traced, Inv, Typed
<1>3. /\ trace' \in [Chunks -> Pages] /\ trace'[writer] = Blank
      /\ \A d \in Chunks \ {writer} : trace'[d] = trace[d]
  BY <1>1, <1>2
<1>4. Traced' /\ Calls' /\ Apart'
  BY <1>1, <1>3 DEF Tidy, Traced, Calls, Recording, Apart, WriterHas
<1>5. WriterHas BY <1>1 DEF WriterHas
<1>6. ASSUME NEW t \in Recorders PROVE Logged(t)' = Logged(t)
  <2>1. /\ InWriter = <<>> /\ InWriter' = <<>> /\ InHand(t)' = InHand(t) /\ InUse' = InUse
    BY <1>1 DEF InWriter, InHand, InUse
  <2>2. Logged(t)' = Log(file, trace', <<>>, writing, InHand(t), InUse)
    <3>1. Logged(t)' = Log(file', trace', InWriter', writing', InHand(t)', InUse')
      BY DEF Logged, Log, Traces, Read, Line, InWriter, InHand, InUse
    <3> QED BY <1>1, <2>1, <3>1
  <2>3. Logged(t) = Log(file, trace, <<>>, writing, InHand(t), InUse) BY <2>1, LoggedIs
  <2>4. /\ \A i \in 1 .. Len(writing) : writing[i] # writer
        /\ \A i \in 1 .. Len(InHand(t)) : InHand(t)[i] # writer
        /\ \A i \in 1 .. Len(InUse) : InUse[i] # writer
    <3>1. \A i \in 1 .. Len(writing) : writing[i] # writer BY <1>5 DEF Tidy, Apart
    <3>2. pc[t] = "handover" => running = "yes" BY DEF Tidy, Calls
    <3>3. pc[t] = "handover" => seen[t][1] # writer BY <1>5, <3>2, OnePlace
    <3>4. running = "yes" => current[1] # writer BY <1>5, OnePlace
    <3>5. \A i \in 1 .. Len(InHand(t)) : InHand(t)[i] # writer BY <3>3 DEF InHand
    <3>6. \A i \in 1 .. Len(InUse) : InUse[i] # writer BY <3>4 DEF InUse
    <3> QED BY <3>1, <3>5, <3>6
  <2>5. PICK s : /\ s = <<>> \o writing \o InHand(t) \o InUse /\ s \in Seq(Chunks)
                 /\ \A i \in 1 .. Len(s) : s[i] # writer
    <3>1. /\ writing \in Seq(Chunks) /\ InHand(t) \in Seq(Chunks) /\ InUse \in Seq(Chunks)
      BY LogParts
    <3>2. <<>> \o writing = writing BY <3>1, ConcatEmptySeq
    <3>3. /\ writing \o InHand(t) \in Seq(Chunks)
          /\ \A i \in 1 .. Len(writing \o InHand(t)) : (writing \o InHand(t))[i] # writer
      BY <2>4, <3>1, ConcatAvoids
    <3>4. PICK r : r = writing \o InHand(t) OBVIOUS
    <3>5. r \in Seq(Chunks) /\ \A i \in 1 .. Len(r) : r[i] # writer BY <3>3, <3>4
    <3>6. r \o InUse \in Seq(Chunks) /\ \A i \in 1 .. Len(r \o InUse) : (r \o InUse)[i] # writer
      BY <2>4, <3>1, <3>5, ConcatAvoids
    <3> QED BY <3>2, <3>4, <3>6
  <2>6. Read(trace', s) = Read(trace, s)
    <3>1. \A i \in 1 .. Len(s) : s[i] \in Chunks \ {writer} BY <2>5, ElementOfSeq
    <3>2. \A i \in 1 .. Len(s) : trace'[s[i]] = trace[s[i]] BY <1>3, <3>1
    <3> QED BY <1>2, <1>3, <2>5, <3>2, ReadSame
  <2> QED BY <2>2, <2>3, <2>5, <2>6 DEF Log
<1>7. ASSUME NEW t \in Recorders, Alone(t), running' = "yes" PROVE Room(t)' /\ Clean(t)'
  <2>1. Room(t) /\ Clean(t) BY <1>1, <1>7 DEF Tidy, Ready
  <2>2. \A c \in Chunks, k \in Slots : trace[c][k] = Empty => trace'[c][k] = Empty
    BY <1>3 DEF Blank
  <2>3. \A c \in Chunks : trace[c] = Blank => trace'[c] = Blank BY <1>3
  <2>4. current[1] \in Chunks /\ available \in Seq(Chunks) /\ got[t] \in Seq(Chunks)
    BY DEF Inv, Typed
  <2>5. Room(t)' BY <1>1, <2>1, <2>2, <2>4 DEF Room, Reserved
  <2>6. /\ \A i \in 1 .. Len(available) : available[i] \in Chunks
        /\ \A i \in 1 .. Len(got[t]) : got[t][i] \in Chunks
    BY <2>4, ElementOfSeq
  <2>7. Clean(t)' BY <1>1, <1>3, <2>1, <2>3, <2>6 DEF Clean
  <2> QED BY <2>5, <2>7
<1> QED BY <1>1, <1>4, <1>6, <1>7, TidyAll

LEMMA WriterReturnTidy ==
    ASSUME Inv, Tidy, WriterReturn
    PROVE  Tidy'
<1>1. /\ wpc = "return" /\ wpc' = "check" /\ available' = Append(available, writer)
      /\ UNCHANGED <<trace, current, writing, pc, call, seen, got, target,
                     events, flushes, running, file>>
  BY DEF WriterReturn, locals
<1>2. Traced' /\ Calls' /\ Apart' BY <1>1 DEF Tidy, Traced, Calls, Recording, Apart, WriterHas
<1>3. \A t \in Recorders : Logged(t)' = Logged(t) BY <1>1 DEF Logged, Traces, Line
<1>4. ASSUME NEW t \in Recorders, Alone(t), running' = "yes" PROVE Room(t)' /\ Clean(t)'
  <2>1. Room(t) /\ Clean(t) BY <1>1, <1>4 DEF Tidy, Ready
  <2>2. PICK n \in Nat : n = Len(available) BY DEF Inv, Typed
  <2>3. /\ Len(available') = n + 1 /\ available'[n + 1] = writer
        /\ \A i \in 1 .. n : available'[i] = available[i]
    BY <1>1, <2>2 DEF Inv, Typed
  <2>4. \A i \in 1 .. n + 1 : i \in 1 .. n \/ i = n + 1 OBVIOUS
  <2>5. \A i \in 1 .. n + 1 : trace[available'[i]] = Blank
    BY <1>1, <2>1, <2>2, <2>3, <2>4 DEF Clean
  <2> QED BY <1>1, <2>1, <2>3, <2>5, RoomKept DEF Clean
<1> QED BY <1>1, <1>2, <1>3, <1>4, TidyAll

\* With the destructor the chunk in use is the last one on its way.
LEMMA DestroyTidy ==
    ASSUME Inv, Tidy, Destroy
    PROVE  Tidy'
<1>1. /\ running = "yes" /\ running' = "ending" /\ \A t \in Recorders : pc[t] = "idle"
      /\ writing' = Append(writing, current[1])
      /\ UNCHANGED <<trace, current, available, pc, call, seen, got, target,
                     events, flushes, wpc, writer, file>>
  BY DEF Destroy, locals
<1>2. PICK x \in Chunks : x = current[1] BY DEF Inv, Typed
<1>3. Traced' /\ Calls' BY <1>1 DEF Tidy, Traced, Calls, Recording
<1>4. Apart'
  <2>1. PICK n \in Nat : n = Len(writing) BY DEF Inv, Typed
  <2>2. /\ Len(writing') = n + 1 /\ writing'[n + 1] = x
        /\ \A i \in 1 .. n : writing'[i] = writing[i]
    BY <1>1, <1>2, <2>1 DEF Inv, Typed
  <2>3. /\ \A i \in 1 .. n : writing[i] # x
        /\ WriterHas => x # writer
    BY <1>1, <1>2, <2>1, OnePlace
  <2>4. /\ \A i, j \in 1 .. n : writing[i] = writing[j] => i = j
        /\ \A i \in 1 .. n : WriterHas => writing[i] # writer
    BY <2>1 DEF Tidy, Apart
  <2>5. \A i \in 1 .. n + 1 : i \in 1 .. n \/ i = n + 1 OBVIOUS
  <2>6. \A i, j \in 1 .. n + 1 : writing'[i] = writing'[j] => i = j BY <2>2, <2>3, <2>4, <2>5
  <2>7. \A i \in 1 .. n + 1 : WriterHas' => writing'[i] # writer'
    <3>1. writer' = writer /\ (WriterHas' <=> WriterHas) BY <1>1 DEF WriterHas
    <3> QED BY <2>2, <2>3, <2>4, <2>5, <3>1
  <2> QED BY <2>2, <2>6, <2>7 DEF Apart
<1>5. ASSUME NEW t \in Recorders PROVE Logged(t)' = Logged(t)
  <2>1. /\ InHand(t) = <<>> /\ InHand(t)' = <<>> /\ InWriter' = InWriter
        /\ InUse = <<x>> /\ InUse' = <<>>
    BY <1>1, <1>2 DEF InHand, InWriter, InUse
  <2>2. Logged(t)' = Log(file, trace, InWriter, Append(writing, x), <<>>, <<>>)
    <3>1. Logged(t)' = Log(file', trace', InWriter', writing', InHand(t)', InUse')
      BY DEF Logged, Log, Traces, Read, Line, InWriter, InHand, InUse
    <3> QED BY <1>1, <1>2, <2>1, <3>1
  <2>3. Logged(t) = Log(file, trace, InWriter, writing, <<>>, <<x>>) BY <2>1, LoggedIs
  <2> QED BY <2>2, <2>3, LogDestroy, LogParts
<1> QED BY <1>1, <1>3, <1>4, <1>5, TidyAll

LEMMA StopWriterTidy ==
    ASSUME Inv, Tidy, StopWriter
    PROVE  Tidy'
<1>1. /\ running = "ending" /\ running' = "no"
      /\ UNCHANGED <<trace, current, available, writing, pc, call, seen, got, target,
                     events, flushes, wpc, writer, file>>
  BY DEF StopWriter, shared, locals
<1>2. Traced' /\ Calls' /\ Apart' BY <1>1 DEF Tidy, Traced, Calls, Recording, Apart, WriterHas
<1>3. \A t \in Recorders : Logged(t)' = Logged(t) BY <1>1 DEF Logged, Traces, Line
<1> QED BY <1>1, <1>2, <1>3, TidyAll

-----------------------------------------------------------------------------

LEMMA InitTidy == Init => Tidy
<1> SUFFICES ASSUME Init PROVE Tidy OBVIOUS
<1>1. 0 \in Chunks /\ PerChunk \in Nat BY TracerAssumption DEF Chunks
<1>2. Blank \in Pages BY EntryFacts
<1>3. trace = [c \in Chunks |-> Blank] BY DEF Init, Blank
<1>4. Traced BY <1>1, <1>2, <1>3 DEF Init, Traced, NoTarget
<1>5. Calls BY DEF Init, Calls, Recording
<1>6. Apart
  <2>1. Len(writing) = 0 BY DEF Init
  <2> QED BY <2>1 DEF Apart
<1>7. available \in Seq(Chunks)
  <2>1. NumChunks - 1 \in Nat BY TracerAssumption
  <2>2. available = [i \in 1 .. NumChunks - 1 |-> i] /\ \A i \in 1 .. NumChunks - 1 : i \in Chunks
    BY TracerAssumption DEF Init, Chunks
  <2> QED BY <2>1, <2>2
<1>8. ASSUME NEW t \in Recorders PROVE Room(t) /\ Clean(t)
  <2>1. current = <<0, 0>> /\ pc[t] = "idle" /\ wpc = "check" BY DEF Init
  <2>2. \A k \in Slots : trace[0][k] = Empty BY <1>1, <1>3 DEF Blank
  <2>3. Room(t) BY <1>1, <2>1, <2>2 DEF Room, Reserved
  <2>4. \A i \in 1 .. Len(available) : available[i] \in Chunks BY <1>7, ElementOfSeq
  <2>5. Clean(t) BY <1>3, <2>1, <2>4 DEF Clean
  <2> QED BY <2>3, <2>5
<1>9. Ready BY <1>8 DEF Ready
<1>10. ASSUME NEW t \in Recorders PROVE InOrder(Logged(t), t, Finished(t))
  <2>1. InWriter = <<>> /\ writing = <<>> /\ InHand(t) = <<>> /\ InUse = <<0>> /\ file = <<>>
    BY DEF Init, InWriter, InHand, InUse
  <2>2. Logged(t) = Log(<<>>, trace, <<>>, <<>>, <<>>, <<0>>) BY <2>1, LoggedIs
  <2>3. /\ <<>> \o <<>> = <<>> /\ <<>> \o <<0>> = <<0>>
        /\ <<>> \o <<Blank>> = <<Blank>>
    OBVIOUS
  <2>4. trace \in [Chunks -> Pages] /\ trace[0] = Blank BY <1>1, <1>2, <1>3
  <2>5. Read(trace, <<0>>) = <<Blank>> BY <1>1, <2>4, ReadOne
  <2>6. Logged(t) = <<Blank>> BY <2>2, <2>3, <2>5 DEF Log
  <2>7. <<>> \in Seq(Pages) /\ Append(<<>>, Blank) = <<Blank>> BY <1>2, EmptySeq
  <2>8. Finished(t) = 0 BY DEF Init, Finished, Recording
  <2>9. InOrder(<<>>, t, 0)
    <3>1. Marks(<<>>) = {} BY DEF Marks
    <3> QED BY <3>1 DEF InOrder
  <2>10. InOrder(Append(<<>>, Blank), t, 0) BY <2>7, <2>9, InOrderBlank
  <2> QED BY <2>6, <2>7, <2>8, <2>10
<1>11. LoggedInOrder BY <1>10 DEF LoggedInOrder
<1> QED BY <1>4, <1>5, <1>6, <1>9, <1>11 DEF Tidy

LEMMA StepTidy == Inv /\ Tidy /\ [Next]_vars => Tidy'
<1> SUFFICES ASSUME Inv, Tidy, [Next]_vars PROVE Tidy' OBVIOUS
<1>1. ASSUME NEW t \in Recorders, Thread(t) PROVE Tidy'
  BY <1>1, RecordBeginTidy, FlushBeginTidy, ChooseTidy, ReserveTidy, MissTidy, HandOverTidy,
     WriteTidy DEF Thread
<1>2. CASE Writer
  BY <1>2, WriterCheckTidy, WriterPopTidy, WriterWriteTidy, WriterClearTidy, WriterReturnTidy
     DEF Writer
<1>3. CASE Destroy BY <1>3, DestroyTidy
<1>4. CASE StopWriter BY <1>4, StopWriterTidy
<1>5. CASE UNCHANGED vars
  <2>1. UNCHANGED <<trace, current, available, writing, pc, call, seen, got, target,
                    events, flushes, wpc, writer, running, file>>
    BY <1>5 DEF vars, shared, locals
  <2>2. Traced' /\ Calls' /\ Apart' BY <2>1 DEF Tidy, Traced, Calls, Recording, Apart, WriterHas
  <2>3. \A t \in Recorders : Logged(t)' = Logged(t) BY <2>1 DEF Logged, Traces, Line
  <2>4. ASSUME NEW t \in Recorders, Alone(t), running' = "yes" PROVE Room(t)' /\ Clean(t)'
    <3>1. Room(t) /\ Clean(t) BY <2>1, <2>4 DEF Tidy, Ready
    <3> QED BY <2>1, <3>1, RoomKept DEF Clean
  <2> QED BY <2>1, <2>2, <2>3, <2>4, TidyAll
<1> QED BY <1>1, <1>2, <1>3, <1>4, <1>5 DEF Next

\* As long as only one thread has traced, all of this holds, whether or not other
\* threads may flush while it records.
Counts == events \in [Recorders -> Nat] /\ flushes \in [Recorders -> Nat]
SoFar == Counts /\ ((\E t \in Recorders : Alone(t)) => Inv /\ Tidy)

LEMMA StepCounts ==
    ASSUME Counts, [Next]_vars
    PROVE  /\ Counts'
           /\ \A t \in Recorders : Alone(t)' =>
                 /\ Alone(t)
                 /\ \A u \in Recorders : RecordBegin(u) \/ FlushBegin(u) => u = t
<1>1. CASE UNCHANGED <<events, flushes>>
  <2>1. \A u \in Recorders : ~ RecordBegin(u) /\ ~ FlushBegin(u)
    BY <1>1 DEF Counts, RecordBegin, FlushBegin
  <2> QED BY <1>1, <2>1 DEF Counts, Alone
<1>2. ASSUME NEW v \in Recorders, RecordBegin(v)
      PROVE  /\ Counts'
             /\ \A t \in Recorders : Alone(t)' =>
                   /\ Alone(t)
                   /\ \A u \in Recorders : RecordBegin(u) \/ FlushBegin(u) => u = t
  <2>1. /\ events' = [events EXCEPT ![v] = events[v] + 1] /\ flushes' = flushes
        /\ events[v] \in Nat
    BY <1>2 DEF RecordBegin, Counts
  <2>2. events'[v] # 0 /\ \A u \in Recorders \ {v} : events'[u] = events[u]
    BY <2>1 DEF Counts
  <2>3. \A u \in Recorders : RecordBegin(u) \/ FlushBegin(u) => u = v
    BY <2>1, <2>2 DEF RecordBegin, FlushBegin, Counts
  <2>4. \A t \in Recorders : Alone(t)' => t = v /\ Alone(t) BY <2>1, <2>2 DEF Alone, Others
  <2>5. Counts' BY <2>1 DEF Counts
  <2> QED BY <2>3, <2>4, <2>5
<1>3. ASSUME NEW v \in Recorders, FlushBegin(v)
      PROVE  /\ Counts'
             /\ \A t \in Recorders : Alone(t)' =>
                   /\ Alone(t)
                   /\ \A u \in Recorders : RecordBegin(u) \/ FlushBegin(u) => u = t
  <2>1. /\ flushes' = [flushes EXCEPT ![v] = flushes[v] + 1] /\ events' = events
        /\ flushes[v] \in Nat
    BY <1>3 DEF FlushBegin, Counts
  <2>2. flushes'[v] # 0 /\ \A u \in Recorders \ {v} : flushes'[u] = flushes[u]
    BY <2>1 DEF Counts
  <2>3. \A u \in Recorders : RecordBegin(u) \/ FlushBegin(u) => u = v
    BY <2>1, <2>2 DEF RecordBegin, FlushBegin, Counts
  <2>4. \A t \in Recorders : Alone(t)' => t = v /\ Alone(t) BY <2>1, <2>2 DEF Alone, Others
  <2>5. Counts' BY <2>1 DEF Counts
  <2> QED BY <2>3, <2>4, <2>5
<1>4. ASSUME NEW v \in Recorders, Thread(v), ~ RecordBegin(v), ~ FlushBegin(v)
      PROVE  UNCHANGED <<events, flushes>>
  BY <1>4 DEF Thread, Choose, Reserve, Miss, HandOver, Write
<1>5. ASSUME Writer \/ Destroy \/ StopWriter \/ UNCHANGED vars
      PROVE  UNCHANGED <<events, flushes>>
  BY <1>5 DEF Writer, WriterCheck, WriterPop, WriterWrite, WriterClear, WriterReturn,
              Destroy, StopWriter, vars, locals
<1> QED BY <1>1, <1>2, <1>3, <1>4, <1>5 DEF Next

LEMMA StepSoFar == SoFar /\ [Next]_vars => SoFar'
<1> SUFFICES ASSUME SoFar, [Next]_vars PROVE SoFar' OBVIOUS
<1>1. Counts' BY StepCounts DEF SoFar
<1>2. ASSUME NEW t \in Recorders, Alone(t)' PROVE (Inv /\ Tidy)'
  <2>1. /\ Alone(t)
        /\ \A u \in Recorders : RecordBegin(u) \/ FlushBegin(u) => u = t
    BY <1>2, StepCounts DEF SoFar
  <2>2. Inv /\ Tidy BY <2>1 DEF SoFar
  <2>3. \A u \in Recorders : RecordBegin(u) => \A v \in Others(u) : flushes[v] = 0
    BY <2>1 DEF Alone
  <2>4. \A u \in Recorders : FlushBegin(u) => Alone(u) BY <2>1
  <2>5. Inv' BY <2>2, <2>3, <2>4, StepInvIf
  <2>6. Tidy' BY <2>2, StepTidy
  <2> QED BY <2>5, <2>6
<1> QED BY <1>1, <1>2 DEF SoFar

\* What a thread that traces alone has recorded is in the file and the chunks on
\* their way to it, each event once and in the order in which it was recorded,
\* however often chunks come round, are flushed half full or are written late.
THEOREM EventsInOrder == Spec => []LoggedInOrder
<1>1. Init => SoFar BY InitInv, InitTidy DEF SoFar, Counts, Inv, Typed
<1>2. SoFar /\ [Next]_vars => SoFar' BY StepSoFar
<1>3. SoFar => LoggedInOrder BY DEF SoFar, Tidy, LoggedInOrder
<1> QED BY <1>1, <1>2, <1>3, PTL DEF Spec

=============================================================================
