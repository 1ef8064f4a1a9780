-------------------------- MODULE StatisticsProofs --------------------------
(***************************************************************************)
(* Restart files are written once, restarts are accepted and complete, and *)
(* statistics whole and all passed on, for any number of servers, keys,    *)
(* checkpoints, crashes and restarts.                                      *)
(***************************************************************************)
EXTENDS Statistics, TLAPS

Shape ==
    /\ phase = [s \in Servers |-> phase[s]]
    /\ left = [s \in Servers |-> left[s]]
    /\ clock = [s \in Servers |-> clock[s]]
    /\ lastDate = [s \in Servers |-> lastDate[s]]
    /\ disk = [d \in Steps |-> [k \in Keys |-> disk[d][k]]]

\* A server dumps its own keys only.
OwnKeys == \A s \in Servers : left[s] \subseteq HomeKeys(s)

\* The directory of the key that a server is dumping is the one it has made.
InHand ==
    \A s \in Servers, k \in Keys : phase[s] = k =>
        k \in left[s] /\ (DirName(s) \in Steps => disk[DirName(s)][k] = Partial)

Inv == Shape /\ OwnKeys /\ InHand

DiskGrows ==
    \A d \in Steps, k \in Keys :
        disk[d][k] \notin {None, Partial} => disk'[d][k] = disk[d][k]

\* The phases are not keys.
LEMMA PhaseFacts == \A k \in Keys : k \notin Phases
BY MarkAssumption

LEMMA InitInv == Init => Inv
<1> SUFFICES ASSUME Init PROVE Inv OBVIOUS
<1>1. Shape BY DEF Init, Shape
<1>2. OwnKeys BY DEF Init, OwnKeys
<1>3. InHand BY PhaseFacts DEF Init, InHand, Phases
<1> QED BY <1>1, <1>2, <1>3 DEF Inv

\* A run that begins, or ends, has no dump in hand.
LEMMA Restarted ==
    ASSUME Inv, NEW b, StartServers(b), UNCHANGED <<opt, disk>>
    PROVE  Inv'
<1>1. /\ phase' = [s \in Servers |-> "fields"] /\ left' = [s \in Servers |-> {}]
      /\ clock' = [s \in Servers |-> b] /\ lastDate' = [s \in Servers |-> None]
  BY DEF StartServers
<1>2. Shape' BY <1>1 DEF Inv, Shape
<1>3. OwnKeys' BY <1>1 DEF OwnKeys
<1>4. InHand' BY <1>1, PhaseFacts DEF InHand, Phases
<1> QED BY <1>2, <1>3, <1>4 DEF Inv

LEMMA DownInv ==
    ASSUME Inv, NEW why, GoDown(why), UNCHANGED <<opt, disk>>
    PROVE  Inv' /\ DiskGrows
<1>1. PICK b : b = job.begin OBVIOUS
<1>2. StartServers(b) BY <1>1 DEF GoDown, StartServers
<1> QED BY <1>2, Restarted DEF DiskGrows

\* A server that is not dumping a key leaves the disk alone; the others stay as
\* they are.
LEMMA ServerInv ==
    ASSUME Inv, NEW s \in Servers, UNCHANGED <<opt, disk>>, Shape',
           phase'[s] \in Phases, left'[s] \subseteq HomeKeys(s),
           \A z \in Servers \ {s} : /\ phase'[z] = phase[z] /\ left'[z] = left[z]
                                    /\ clock'[z] = clock[z] /\ lastDate'[z] = lastDate[z]
    PROVE  Inv' /\ DiskGrows
<1>1. OwnKeys' BY DEF Inv, OwnKeys, HomeKeys
<1>2. \A z \in Servers \ {s} : DirName(z)' = DirName(z) BY DEF DirName
<1>3. InHand' BY <1>2, PhaseFacts DEF Inv, InHand
<1> QED BY <1>1, <1>3 DEF Inv, DiskGrows

LEMMA MakeKeyInv ==
    ASSUME Inv, NEW s \in Servers, NEW k \in Keys, MakeKey(s, k)
    PROVE  Inv' /\ DiskGrows
<1>1. /\ k \in left[s] /\ disk[DirName(s)][k] = None /\ phase[s] = "keys"
      /\ disk' = [disk EXCEPT ![DirName(s)][k] = Partial]
      /\ phase' = [phase EXCEPT ![s] = k]
      /\ UNCHANGED <<opt, clock, left, lastDate>>
  BY DEF MakeKey, Handling
<1>2. PICK n : n = DirName(s) OBVIOUS
<1>3. \A z \in Servers : DirName(z)' = DirName(z) BY <1>1 DEF DirName
<1>4. \A d \in Steps, j \in Keys :
         disk'[d][j] = IF d = n /\ j = k THEN Partial ELSE disk[d][j]
  BY <1>1, <1>2 DEF Inv, Shape
<1>5. Shape'
  <2>1. disk' = [d \in Steps |-> disk'[d]] BY <1>1, <1>2 DEF Inv, Shape
  <2>2. \A d \in Steps : disk[d] = [j \in Keys |-> disk[d][j]] BY DEF Inv, Shape
  <2>3. \A d \in Steps : disk'[d] = [j \in Keys |-> disk'[d][j]]
    BY <1>1, <1>2, <2>2 DEF Inv, Shape
  <2>4. disk' = [d \in Steps |-> [j \in Keys |-> disk'[d][j]]] BY <2>1, <2>3
  <2> QED BY <1>1, <2>4 DEF Inv, Shape
<1>6. OwnKeys' BY <1>1 DEF Inv, OwnKeys, HomeKeys
<1>7. \A z \in Servers : phase'[z] = IF z = s THEN k ELSE phase[z] BY <1>1 DEF Inv, Shape
<1>8. InHand'
  <2> SUFFICES ASSUME NEW z \in Servers, NEW j \in Keys, phase'[z] = j
      PROVE  j \in left'[z] /\ (DirName(z)' \in Steps => disk'[DirName(z)'][j] = Partial)
    BY DEF InHand
  <2>1. CASE z = s BY <1>1, <1>2, <1>3, <1>4, <1>7, <2>1
  <2>2. CASE z # s BY <1>1, <1>3, <1>4, <1>7, <2>2 DEF Inv, InHand
  <2> QED BY <2>1, <2>2
<1>9. DiskGrows BY <1>1, <1>2, <1>4 DEF DiskGrows
<1> QED BY <1>5, <1>6, <1>8, <1>9 DEF Inv

LEMMA DumpKeyInv ==
    ASSUME Inv, NEW s \in Servers, NEW k \in Keys, DumpKey(s, k)
    PROVE  Inv' /\ DiskGrows
<1>1. /\ phase[s] = k
      /\ disk' = [disk EXCEPT ![DirName(s)][k] = windows[k]]
      /\ left' = [left EXCEPT ![s] = @ \ {k}]
      /\ phase' = [phase EXCEPT ![s] = "keys"]
      /\ UNCHANGED <<opt, clock, lastDate>>
  BY DEF DumpKey, Handling
<1>2. PICK n : n = DirName(s) OBVIOUS
<1>3. \A z \in Servers : DirName(z)' = DirName(z) BY <1>1 DEF DirName
<1>4. \A d \in Steps, j \in Keys :
         disk'[d][j] = IF d = n /\ j = k THEN windows[k] ELSE disk[d][j]
  BY <1>1, <1>2 DEF Inv, Shape
<1>5. Shape'
  <2>1. disk' = [d \in Steps |-> disk'[d]] BY <1>1, <1>2 DEF Inv, Shape
  <2>2. \A d \in Steps : disk[d] = [j \in Keys |-> disk[d][j]] BY DEF Inv, Shape
  <2>3. \A d \in Steps : disk'[d] = [j \in Keys |-> disk'[d][j]]
    BY <1>1, <1>2, <2>2 DEF Inv, Shape
  <2>4. disk' = [d \in Steps |-> [j \in Keys |-> disk'[d][j]]] BY <2>1, <2>3
  <2> QED BY <1>1, <2>4 DEF Inv, Shape
<1>6. \A z \in Servers : /\ phase'[z] = IF z = s THEN "keys" ELSE phase[z]
                         /\ left'[z] = IF z = s THEN left[z] \ {k} ELSE left[z]
  BY <1>1 DEF Inv, Shape
<1>7. OwnKeys' BY <1>1, <1>6 DEF Inv, OwnKeys, HomeKeys
<1>8. k \in left[s] /\ (n \in Steps => disk[n][k] = Partial)
  BY <1>1, <1>2 DEF Inv, InHand
<1>9. InHand'
  <2> SUFFICES ASSUME NEW z \in Servers, NEW j \in Keys, phase'[z] = j
      PROVE  j \in left'[z] /\ (DirName(z)' \in Steps => disk'[DirName(z)'][j] = Partial)
    BY DEF InHand
  <2>1. z # s /\ phase[z] = j BY <1>6, PhaseFacts DEF Phases
  <2>2. j \in left[z] /\ (DirName(z) \in Steps => disk[DirName(z)][j] = Partial)
    BY <2>1 DEF Inv, InHand
  <2>3. j # k BY <1>8, <2>1, <2>2 DEF Inv, OwnKeys, HomeKeys
  <2> QED BY <1>3, <1>4, <1>6, <2>1, <2>2, <2>3
<1>10. DiskGrows BY <1>4, <1>8 DEF DiskGrows
<1> QED BY <1>5, <1>7, <1>9, <1>10 DEF Inv

LEMMA StepInv == Inv /\ [Next]_vars => Inv' /\ DiskGrows
<1> SUFFICES ASSUME Inv, [Next]_vars PROVE Inv' /\ DiskGrows OBVIOUS
<1> USE DEF fileVars, serverVars, history
<1>1. ASSUME NEW s \in Servers, NEW k \in Keys, ReceiveField(s, k) PROVE Inv' /\ DiskGrows
  BY <1>1, ServerInv DEF ReceiveField, Handling, Inv, Shape, OwnKeys, Phases
<1>2. ASSUME NEW s \in Servers, NEW k \in Keys, RefuseField(s, k) PROVE Inv' /\ DiskGrows
  BY <1>2, DownInv DEF RefuseField
<1>3. ASSUME NEW s \in Servers, PassFlush(s) PROVE Inv' /\ DiskGrows
  BY <1>3, ServerInv DEF PassFlush, NextStep, Handling, Inv, Shape, OwnKeys, Phases
<1>4. ASSUME NEW s \in Servers, LastFlush(s) PROVE Inv' /\ DiskGrows
  BY <1>4, ServerInv DEF LastFlush, Handling, Inv, Shape, OwnKeys, Phases
<1>5. ASSUME NEW s \in Servers, BeginDump(s) PROVE Inv' /\ DiskGrows
  BY <1>5, ServerInv DEF BeginDump, Handling, Inv, Shape, OwnKeys, Phases
<1>6. ASSUME NEW s \in Servers, MainDirectory(s) PROVE Inv' /\ DiskGrows
  BY <1>6, ServerInv DEF MainDirectory, Handling, Inv, Shape, OwnKeys, Phases
<1>7. ASSUME NEW s \in Servers, MainDirectoryMissing(s) PROVE Inv' /\ DiskGrows
  BY <1>7, DownInv DEF MainDirectoryMissing
<1>8. ASSUME NEW s \in Servers, NEW k \in Keys, MakeKey(s, k) PROVE Inv' /\ DiskGrows
  BY <1>8, MakeKeyInv
<1>9. ASSUME NEW s \in Servers, NEW k \in Keys, KeyExists(s, k) PROVE Inv' /\ DiskGrows
  BY <1>9, DownInv DEF KeyExists
<1>10. ASSUME NEW s \in Servers, NEW k \in Keys, DumpKey(s, k) PROVE Inv' /\ DiskGrows
  BY <1>10, DumpKeyInv
<1>11. ASSUME NEW s \in Servers, EndDump(s) PROVE Inv' /\ DiskGrows
  BY <1>11, ServerInv DEF EndDump, NextStep, Handling, Inv, Shape, OwnKeys, Phases
<1>12. ASSUME Crash PROVE Inv' /\ DiskGrows
  BY <1>12, DownInv DEF Crash
<1>13. ASSUME NEW mode, NEW d, Restart(mode, d) PROVE Inv' /\ DiskGrows
  BY <1>13, Restarted DEF Restart, DiskGrows
<1>14. ASSUME RestartLatest \/ RestartNamed \/ RestartScratch PROVE Inv' /\ DiskGrows
  BY <1>13, <1>14 DEF RestartLatest, RestartNamed, RestartScratch
<1>15. CASE UNCHANGED vars
  BY <1>15 DEF vars, Inv, Shape, OwnKeys, HomeKeys, InHand, DirName, DiskGrows
<1> QED BY <1>1, <1>2, <1>3, <1>4, <1>5, <1>6, <1>7, <1>8, <1>9, <1>10, <1>11, <1>12,
           <1>14, <1>15 DEF Next, Server

\* A dump that is complete is never written again, by no server, in no later run
\* of the job, wherever it crashed: DumpTemporalStatistics never opens a directory
\* that is there.
THEOREM RestartFilesImmutable == Spec => DumpsImmutable
<1>1. Inv /\ [Next]_vars => Inv' BY StepInv
<1>2. Inv /\ [Next]_vars =>
        [\A d \in Steps, k \in Keys :
            disk[d][k] \notin {None, Partial} => disk'[d][k] = disk[d][k]]_vars
  BY StepInv DEF DiskGrows
<1> QED BY <1>1, <1>2, InitInv, PTL DEF Spec, DumpsImmutable

-----------------------------------------------------------------------------
(* Periods *)

LEMMA Quotient ==
    ASSUME NEW m \in Nat \ {0}, NEW a \in Int
    PROVE  /\ a % m \in Int /\ 0 <= a % m /\ a % m < m
           /\ a \div m \in Int /\ a = m * (a \div m) + (a % m)
OBVIOUS

LEMMA MultipleMod ==
    ASSUME NEW m \in Nat \ {0}, NEW q \in Int
    PROVE  (m * q) % m = 0
<1>1. PICK r \in Int : r = (m * q) % m /\ 0 <= r /\ r < m OBVIOUS
<1>2. PICK p \in Int : m * q = m * p + r
  <2>1. m * q \in Int OBVIOUS
  <2>2. (m * q) \div m \in Int /\ m * q = m * ((m * q) \div m) + ((m * q) % m)
    BY <2>1, Quotient
  <2> QED BY <1>1, <2>2
<1>3. m * (q - p) = r BY <1>2
<1>4. ASSUME q - p >= 1 PROVE FALSE
  <2>1. m * (q - p) >= m BY <1>4
  <2> QED BY <1>1, <1>3, <2>1
<1>5. ASSUME q - p <= -1 PROVE FALSE
  <2>1. m * (q - p) <= -m BY <1>5
  <2> QED BY <1>1, <1>3, <2>1
<1> QED BY <1>1, <1>3, <1>4, <1>5

LEMMA AddMultiple ==
    ASSUME NEW m \in Nat \ {0}, NEW a \in Int, NEW n \in Int, a % m = 0
    PROVE  (a + n * m) % m = 0
<1>1. PICK p \in Int : a = m * p
  <2>1. PICK p \in Int : p = a \div m BY Quotient
  <2>2. a = m * p + 0 BY <2>1, Quotient
  <2> QED BY <2>2
<1>2. a + n * m = m * (p + n) BY <1>1
<1> QED BY <1>2, MultipleMod

LEMMA AddPeriod ==
    ASSUME NEW m \in Nat \ {0}, NEW a \in Int, a % m = 0
    PROVE  (a + m) % m = 0
<1>1. PICK p \in Int : a = m * p
  <2>1. PICK p \in Int : p = a \div m BY Quotient
  <2>2. a = m * p + 0 BY <2>1, Quotient
  <2> QED BY <2>2
<1>2. PICK q \in Int : q = p + 1 OBVIOUS
<1>3. a + m = m * q BY <1>1, <1>2
<1> QED BY <1>3, MultipleMod

LEMMA PeriodStartFacts ==
    ASSUME NEW t \in Int
    PROVE  /\ PeriodStart(t) \in Int /\ PeriodStart(t) <= t /\ t < PeriodStart(t) + Unit
           /\ PeriodStart(t) % Unit = 0
           /\ t % Unit = 0 => PeriodStart(t) = t
<1>1. Unit \in Nat \ {0} BY StepAssumption
<1>2. PICK r \in Int : r = t % Unit /\ 0 <= r /\ r < Unit BY <1>1, Quotient
<1>3. t \div Unit \in Int /\ t = Unit * (t \div Unit) + (t % Unit) BY <1>1, Quotient
<1>4. PeriodStart(t) = t - r BY <1>2 DEF PeriodStart
<1>5. PeriodStart(t) = Unit * (t \div Unit) BY <1>1, <1>2, <1>3, <1>4
<1>6. PeriodStart(t) % Unit = 0 BY <1>1, <1>3, <1>5, MultipleMod
<1> QED BY <1>1, <1>2, <1>4, <1>6

LEMMA PeriodFacts ==
    /\ Span * Unit \in Nat \ {0} /\ Span * Unit >= Unit
    /\ \A t \in Int : t % Unit = 0 => WinEnd(t) = t + Span * Unit /\ (t + Span * Unit) % Unit = 0
<1>1. Unit \in Nat \ {0} /\ Span \in Nat \ {0} BY StepAssumption
<1>2. Span * Unit \in Nat \ {0} /\ Span * Unit >= Unit BY <1>1
<1>3. ASSUME NEW t \in Int, t % Unit = 0
      PROVE  WinEnd(t) = t + Span * Unit /\ (t + Span * Unit) % Unit = 0
  <2>1. (t + Span * Unit) % Unit = 0
    <3>1. Span \in Int BY <1>1
    <3> QED BY <1>1, <1>3, <3>1, AddMultiple
  <2>2. t + Span * Unit \in Int BY <1>1
  <2> QED BY <2>1, <2>2, PeriodStartFacts DEF WinEnd
<1> QED BY <1>2, <1>3

\* A new window begins where its first field does, and ends behind that point.
LEMMA NewWindowFacts ==
    ASSUME NEW t \in Steps
    PROVE  /\ NewWindow(t) \in WindowRecords
           /\ NewWindow(t).start = t - Timespan /\ NewWindow(t).curr = t - Timespan
           /\ NewWindow(t).end = PeriodStart(t - Timespan) + Span * Unit
           /\ NewWindow(t).pts = {} /\ t - Timespan \in Int
           /\ NewWindow(t).end > t - Timespan /\ NewWindow(t).end % Unit = 0
<1>1. PICK c \in Int : c = t - Timespan BY StepAssumption DEF Steps
<1>2. /\ PeriodStart(c) \in Int /\ PeriodStart(c) <= c /\ c < PeriodStart(c) + Unit
      /\ PeriodStart(c) % Unit = 0
  BY <1>1, PeriodStartFacts
<1>3. WinEnd(PeriodStart(c)) = PeriodStart(c) + Span * Unit /\ (PeriodStart(c) + Span * Unit) % Unit = 0
  BY <1>2, PeriodFacts
<1>4. NewWindow(t) = [start |-> c, curr |-> c, end |-> PeriodStart(c) + Span * Unit, pts |-> {}]
  BY <1>1, <1>3 DEF NewWindow
<1>5. PeriodStart(c) + Span * Unit \in Int /\ PeriodStart(c) + Span * Unit > c
  <2>1. PICK n \in Int : n = Span * Unit /\ n >= Unit BY PeriodFacts
  <2>2. PICK p \in Int : p = PeriodStart(c) /\ c < p + Unit BY <1>2
  <2>3. p + n \in Int /\ p + n > c BY <2>1, <2>2, StepAssumption
  <2> QED BY <2>1, <2>2, <2>3
<1> QED BY <1>1, <1>3, <1>4, <1>5 DEF WindowRecords

LEMMA NextWindowFacts ==
    ASSUME NEW w \in WindowRecords
    PROVE  /\ NextWindow(w).start = w.end /\ NextWindow(w).curr = w.end
           /\ NextWindow(w).end = WinEnd(w.end) /\ NextWindow(w).pts = {}
           /\ w.end \in Int => NextWindow(w).end \in Int
           /\ NextWindow(w) \in WindowRecords /\ NextWindow(w).end % Unit = 0
<1>1. w.end \in Int BY DEF WindowRecords
<1>2. w.end + Span * Unit \in Int BY <1>1, PeriodFacts
<1>3. WinEnd(w.end) \in Int /\ WinEnd(w.end) % Unit = 0 BY <1>2, PeriodStartFacts DEF WinEnd
<1> QED BY <1>1, <1>3 DEF NextWindow, WindowRecords

LEMMA CountedFacts ==
    ASSUME NEW w \in WindowRecords, NEW t \in Steps
    PROVE  /\ Counted(w, t) \in WindowRecords
           /\ Counted(w, t).start = w.start /\ Counted(w, t).end = w.end
           /\ Counted(w, t).curr = t /\ Counted(w, t).pts = w.pts \cup {t}
<1>1. t \in Int BY StepAssumption DEF Steps
<1> QED BY <1>1 DEF Counted, WindowRecords

-----------------------------------------------------------------------------
(* Where every part of the state is *)

Counters == [latest : Nat, name : Nat, scratch : Nat]
Jobs == [state : {"up", "down", "done"},
         why : {"none", "crash", "wait", "exists", "no_directory", "load", "order", "bounds"},
         mode : {"latest", "name", "scratch"}, begin : Nat]

Typed ==
    /\ opt \in Options /\ job \in Jobs /\ resumed \in Counters
    /\ clock \in [Servers -> Nat] /\ lastDate \in [Servers -> Steps \cup {None}]
    /\ todo \in [Servers -> SUBSET Keys] /\ left \in [Servers -> SUBSET Keys]
    /\ phase \in [Servers -> Phases \cup Keys]
    /\ windows \in [Keys -> WindowRecords \cup {None}]
    /\ disk \in [Steps -> [Keys -> WindowRecords \cup {None, Partial}]]
    /\ dirs \subseteq Steps /\ link \in Steps \cup {None}
    /\ finished \subseteq Steps \X Servers

\* A run begins where it reads a restart, and is counted.
RunTyped ==
    /\ IF job.mode = "scratch" THEN job.begin = 0 ELSE job.begin \in Checkpoints
    /\ job.mode = "name" => resumed.name > 0
    /\ job.mode = "latest" => resumed.latest > 0

Dumping(s) == phase[s] \notin {"fields", "over"}

\* How a server goes through the steps of a run
Paced(s) ==
    /\ job.begin <= clock[s]
    /\ todo[s] \subseteq DueAt(s, clock[s])
    /\ clock[s] = job.begin /\ todo[s] # {} => InitialCondition
    /\ lastDate[s] # None =>
          job.begin <= lastDate[s] /\ lastDate[s] <= clock[s] /\ HomeKeys(s) # {}
    /\ phase[s] # "fields" => todo[s] = {}
    /\ phase[s] = "over" => clock[s] = LastStep
    /\ Dumping(s) => clock[s] \in Checkpoints /\ clock[s] # job.begin /\ lastDate[s] # None

\* The field of k at step u has been there, in this run or before it.
Arrived(k, u) ==
    /\ u \in opt.due[k] /\ u <= clock[opt.home[k]]
    /\ u = clock[opt.home[k]] => k \notin todo[opt.home[k]]

\* ... in this run
Handled(k, u) ==
    Arrived(k, u) /\ job.begin <= u /\ (u = job.begin => InitialCondition)

Aligned(w) == w.end % Unit = 0
Ordered(w) == w.start <= w.curr /\ w.curr <= w.end /\ Aligned(w)

\* A key with a field in this run is in memory, with all that has arrived.
InMemory(k) ==
    LET s == opt.home[k]
    IN  /\ \A u \in Steps : Handled(k, u) => windows[k] # None
        /\ windows[k] # None =>
              /\ Ordered(windows[k]) /\ windows[k].curr \in opt.due[k]
              /\ lastDate[s] # None /\ windows[k].curr <= lastDate[s]
              /\ \A u \in Steps : Arrived(k, u) => u <= windows[k].curr
              /\ k \in todo[s] => windows[k].curr < clock[s]

Dumped(d, k) == disk[d][k] \notin {None, Partial}

\* What is on disk is as far as its directory says.
OnDisk ==
    \A d \in Steps, k \in Keys : Dumped(d, k) =>
        /\ Ordered(disk[d][k])
        /\ disk[d][k].curr <= d /\ disk[d][k].curr \in opt.due[k]
        /\ \A u \in opt.due[k] : u <= d => u <= disk[d][k].curr

Timed == /\ Typed /\ RunTyped /\ OnDisk
         /\ \A s \in Servers : Paced(s)
         /\ \A k \in Keys : InMemory(k)

LEMMA OptFacts ==
    ASSUME Typed
    PROVE  /\ \A k \in Keys : /\ opt.home[k] \in Servers /\ opt.due[k] \subseteq Steps
                              /\ 0 \in opt.due[k] => InitialCondition
           /\ \A s \in Servers : HomeKeys(s) \subseteq Keys
<1>1. opt \in Options BY DEF Typed
<1>2. opt.home \in [Keys -> Servers] /\ opt.due \in [Keys -> SUBSET Steps]
  BY <1>1, OptionsAssumption
<1>3. \A k \in Keys : 0 \in opt.due[k] => InitialCondition BY <1>1, DueAssumption
<1> QED BY <1>2, <1>3 DEF HomeKeys

LEMMA StepFacts ==
    /\ Steps \subseteq Nat /\ None \notin Steps /\ Checkpoints \subseteq Steps
    /\ \A c \in Checkpoints : c > 0 /\ c < LastStep
BY StepAssumption, MarkAssumption DEF Steps

LEMMA TypedRun ==
    ASSUME Typed, NEW b \in Nat, StartServers(b), UNCHANGED <<opt, disk>>
    PROVE  /\ clock' \in [Servers -> Nat] /\ lastDate' \in [Servers -> Steps \cup {None}]
           /\ todo' \in [Servers -> SUBSET Keys] /\ left' \in [Servers -> SUBSET Keys]
           /\ phase' \in [Servers -> Phases \cup Keys]
           /\ windows' \in [Keys -> WindowRecords \cup {None}]
<1>1. \A s \in Servers : DueAt(s, b) \subseteq Keys BY DEF DueAt, HomeKeys
<1> QED BY <1>1 DEF StartServers, FirstFields, Phases

\* A server at the beginning of a run
LEMMA RunPaced ==
    ASSUME Typed, NEW b \in Nat, StartServers(b), opt' = opt, job'.begin = b
    PROVE  /\ \A s \in Servers : Paced(s)'
           /\ \A k \in Keys : InMemory(k)'
<1>1. ASSUME NEW s \in Servers
      PROVE  /\ clock'[s] = b /\ phase'[s] = "fields" /\ lastDate'[s] = None
             /\ todo'[s] = IF InitialCondition THEN DueAt(s, b) ELSE {}
  BY <1>1 DEF StartServers, FirstFields
<1>2. \A k \in Keys : windows'[k] = None BY DEF StartServers
<1>3. \A s \in Servers : DueAt(s, b)' = DueAt(s, b)
  BY DEF DueAt, HomeKeys
<1>4. ASSUME NEW s \in Servers PROVE Paced(s)'
  <2>1. todo'[s] \subseteq DueAt(s, clock[s])'
    BY <1>1 DEF DueAt, HomeKeys
  <2>2. clock'[s] = job'.begin /\ todo'[s] # {} => InitialCondition BY <1>1
  <2> QED BY <1>1, <2>1, <2>2 DEF Paced, Dumping
<1>5. ASSUME NEW k \in Keys PROVE InMemory(k)'
  <2>1. opt.home[k] \in Servers BY OptFacts
  <2>2. ASSUME NEW u \in Steps, Handled(k, u)' PROVE FALSE
    <3>1. /\ u \in opt.due[k] /\ u <= b /\ b <= u /\ (u = b => InitialCondition)
          /\ u = b => k \notin todo'[opt.home[k]]
      BY <1>1, <2>1, <2>2 DEF Handled, Arrived
    <3>2. u = b /\ InitialCondition BY <3>1, StepFacts
    <3>3. k \in DueAt(opt.home[k], b) BY <3>1, <3>2 DEF DueAt, HomeKeys
    <3> QED BY <1>1, <2>1, <3>1, <3>2, <3>3
  <2> QED BY <1>2, <2>2 DEF InMemory
<1> QED BY <1>4, <1>5

LEMMA OthersStay ==
    ASSUME Timed, NEW s \in Servers, opt' = opt, job'.begin = job.begin,
           \A z \in Servers \ {s} :
              /\ clock'[z] = clock[z] /\ todo'[z] = todo[z]
              /\ lastDate'[z] = lastDate[z] /\ phase'[z] = phase[z],
           \A k \in Keys \ HomeKeys(s) : windows'[k] = windows[k],
           Paced(s)', \A k \in HomeKeys(s) : InMemory(k)'
    PROVE  /\ \A z \in Servers : Paced(z)'
           /\ \A k \in Keys : InMemory(k)'
<1>1. ASSUME NEW z \in Servers \ {s} PROVE Paced(z)'
  <2>1. Paced(z) BY DEF Timed
  <2> QED BY <2>1 DEF Paced, DueAt, HomeKeys, Dumping
<1>2. ASSUME NEW k \in Keys \ HomeKeys(s) PROVE InMemory(k)'
  <2>1. opt.home[k] \in Servers \ {s} BY OptFacts DEF Timed, HomeKeys
  <2>2. InMemory(k) BY DEF Timed
  <2> QED BY <2>1, <2>2 DEF InMemory, Handled, Arrived
<1> QED BY <1>1, <1>2

\* The restart that a field of k asks for, if any, can be read.
Readable(k, t) == Refusals(k, t) \cap {"no_directory", "load"} = {}

\* The three ways of a field to its window
LEMMA WindowSource ==
    ASSUME Timed, NEW k \in Keys, NEW t \in Steps,
           Readable(k, t)
    PROVE  /\ ReadRestart => RestartDir \in dirs
           /\ \/ windows[k] # None /\ Window(k, t) = windows[k]
              \/ /\ windows[k] = None /\ ReadRestart
                 /\ RestartDir \in Steps /\ Dumped(RestartDir, k)
                 /\ Window(k, t) = disk[RestartDir][k]
              \/ /\ windows[k] = None /\ ~ (ReadRestart /\ HasRestartKey(k))
                 /\ Window(k, t) = NewWindow(t)
<1>1. ReadRestart => HasMainRestartDir BY DEF Readable, Refusals
<1>2. windows[k] = None /\ ReadRestart /\ HasRestartKey(k) => Loads(k)
  BY <1>1 DEF Readable, Refusals
<1>3. dirs \subseteq Steps BY DEF Timed, Typed
<1> QED BY <1>1, <1>2, <1>3 DEF HasMainRestartDir, HasRestartKey, Loads, Window, Dumped

LEMMA WindowTyped ==
    ASSUME Timed, NEW k \in Keys, NEW t \in Steps,
           Readable(k, t)
    PROVE  Window(k, t) \in WindowRecords /\ Ordered(Window(k, t))
<1>1. CASE windows[k] # None
  <2>1. windows[k] \in WindowRecords BY <1>1 DEF Timed, Typed
  <2>2. InMemory(k) BY DEF Timed
  <2>3. Ordered(windows[k]) BY <1>1, <2>2 DEF InMemory
  <2> QED BY <1>1, <2>1, <2>3, WindowSource
<1>2. CASE windows[k] = None /\ RestartDir \in Steps /\ Dumped(RestartDir, k)
           /\ Window(k, t) = disk[RestartDir][k]
  <2>1. disk[RestartDir][k] \in WindowRecords BY <1>2 DEF Timed, Typed, Dumped
  <2>2. Ordered(disk[RestartDir][k]) BY <1>2 DEF Timed, OnDisk
  <2> QED BY <1>2, <2>1, <2>2
<1>3. CASE Window(k, t) = NewWindow(t)
  <2>1. NewWindow(t).start = NewWindow(t).curr /\ NewWindow(t).end > NewWindow(t).curr
    BY NewWindowFacts
  <2>2. NewWindow(t).curr \in Int /\ NewWindow(t).end \in Int
    BY NewWindowFacts DEF WindowRecords
  <2>3. \A c, e \in Int : e > c => c <= c /\ c <= e OBVIOUS
  <2>4. Aligned(NewWindow(t)) BY NewWindowFacts DEF Aligned
  <2>5. Ordered(NewWindow(t)) BY <2>1, <2>2, <2>3, <2>4 DEF Ordered
  <2> QED BY <1>3, <2>5, NewWindowFacts
<1> QED BY <1>1, <1>2, <1>3, WindowSource

\* The window that has taken the field of step t in
LEMMA TakenIn ==
    ASSUME Timed, NEW k \in Keys, NEW t \in Steps, Refusals(k, t) = {}, ~ Repeated(k, t)
    PROVE  LET w == Window(k, t)
               v == Counted(Taker(w, t), t)
           IN  v \in WindowRecords /\ Ordered(v) /\ v.curr = t /\ t > w.curr
<1> DEFINE w == Window(k, t)
<1>1. w \in WindowRecords BY WindowTyped DEF Readable
<1>2. Taker(w, t) \in WindowRecords /\ Aligned(Taker(w, t))
  <2>1. Aligned(w) BY WindowTyped DEF Ordered, Readable
  <2>2. Aligned(NextWindow(w)) /\ NextWindow(w) \in WindowRecords
    BY <1>1, NextWindowFacts DEF Aligned
  <2> QED BY <1>1, <2>1, <2>2 DEF Taker
<1>3. InBounds(Taker(w, t), t) /\ ~ (t <= w.curr) BY DEF Refusals
<1>4. w.curr \in Int /\ t \in Int BY <1>1, StepFacts DEF WindowRecords
<1> HIDE DEF w
<1>5. PICK x \in WindowRecords : x = Taker(w, t) /\ Aligned(x) BY <1>2
<1>6. x.start \in Int /\ x.end \in Int BY DEF WindowRecords
<1>7. /\ Counted(x, t) \in WindowRecords /\ Counted(x, t).start = x.start
      /\ Counted(x, t).end = x.end /\ Counted(x, t).curr = t
  BY CountedFacts
<1>8. Ordered(Counted(x, t))
  <2>1. Aligned(Counted(x, t)) BY <1>5, <1>7 DEF Aligned
  <2> QED BY <1>3, <1>4, <1>5, <1>6, <1>7, <2>1 DEF Ordered, InBounds
<1>9. t > w.curr BY <1>3, <1>4
<1> QED BY <1>5, <1>7, <1>8, <1>9 DEF w

-----------------------------------------------------------------------------
(* Every step keeps the time *)

LEMMA TypedDown ==
    ASSUME Timed, NEW why, why \in {"crash", "wait", "exists", "no_directory", "load", "order", "bounds"},
           GoDown(why), UNCHANGED <<opt, disk, dirs, link, finished, resumed>>
    PROVE  Timed'
<1>1. job \in Jobs /\ job.begin \in Nat BY DEF Timed, Typed, Jobs
<1>2. /\ job' \in Jobs /\ job'.begin = job.begin /\ job'.mode = job.mode
      /\ StartServers(job.begin)
  BY <1>1 DEF GoDown, Jobs
<1>3. PICK b \in Nat : b = job.begin /\ StartServers(b) BY <1>1, <1>2 DEF StartServers
<1>4. Typed BY DEF Timed
<1>5. Typed'
  BY <1>2, <1>3, <1>4, TypedRun DEF Typed
<1>6. RunTyped' BY <1>2 DEF Timed, RunTyped
<1>7. OnDisk' BY DEF Timed, OnDisk, Dumped
<1>8. /\ \A s \in Servers : Paced(s)'
      /\ \A k \in Keys : InMemory(k)'
  BY <1>2, <1>3, <1>4, RunPaced
<1> QED BY <1>5, <1>6, <1>7, <1>8 DEF Timed

LEMMA TypedRestart ==
    ASSUME Timed, NEW mode \in {"latest", "name", "scratch"}, NEW d, Restart(mode, d),
           IF mode = "scratch" THEN d = 0 ELSE d \in Checkpoints
    PROVE  Timed'
<1>1. d \in Nat
  <2>1. CASE mode = "scratch" BY <2>1
  <2>2. CASE mode # "scratch" BY <2>2, StepFacts
  <2> QED BY <2>1, <2>2
<1>2. /\ job' = [state |-> "up", why |-> "none", mode |-> mode, begin |-> d]
      /\ StartServers(d) /\ resumed' = [resumed EXCEPT ![mode] = @ + 1]
      /\ UNCHANGED <<opt, disk, dirs, link, finished>>
  BY DEF Restart, fileVars
<1>3. Typed /\ RunTyped BY DEF Timed
<1>4. resumed' \in Counters /\ resumed'[mode] > 0
  BY <1>2, <1>3 DEF Typed, Counters
<1>5. job' \in Jobs /\ job'.begin = d /\ job'.mode = mode BY <1>1, <1>2 DEF Jobs
<1>6. Typed' BY <1>1, <1>2, <1>3, <1>4, <1>5, TypedRun DEF Typed
<1>7. RunTyped'
  <2>1. mode = "name" => resumed'.name > 0 BY <1>4
  <2>2. mode = "latest" => resumed'.latest > 0 BY <1>4
  <2> QED BY <1>5, <2>1, <2>2 DEF RunTyped
<1>8. OnDisk' BY <1>2 DEF Timed, OnDisk, Dumped
<1>9. /\ \A s \in Servers : Paced(s)'
      /\ \A k \in Keys : InMemory(k)'
  BY <1>1, <1>2, <1>3, <1>5, RunPaced
<1> QED BY <1>6, <1>7, <1>8, <1>9 DEF Timed

\* A server whose clock and windows stay
LEMMA TimedPhase ==
    ASSUME Timed, NEW s \in Servers, NEW ph \in Phases \cup Keys,
           phase' = [phase EXCEPT ![s] = ph],
           UNCHANGED <<opt, clock, todo, lastDate, windows>>, job'.begin = job.begin,
           ph # "fields" => todo[s] = {},
           ph = "over" => clock[s] = LastStep,
           ph \notin {"fields", "over"} =>
              clock[s] \in Checkpoints /\ clock[s] # job.begin /\ lastDate[s] # None
    PROVE  /\ \A z \in Servers : Paced(z)'
           /\ \A k \in Keys : InMemory(k)'
           /\ phase' \in [Servers -> Phases \cup Keys]
<1>1. \A z \in Servers : phase'[z] = IF z = s THEN ph ELSE phase[z]
  BY DEF Timed, Typed
<1>2. Paced(s)
  BY DEF Timed
<1>3. Paced(s)' BY <1>1, <1>2 DEF Paced, Dumping, DueAt, HomeKeys
<1>4. ASSUME NEW k \in HomeKeys(s) PROVE InMemory(k)'
  <2>1. InMemory(k) BY DEF Timed, HomeKeys
  <2> QED BY <2>1 DEF InMemory, Handled, Arrived
<1>5. phase' \in [Servers -> Phases \cup Keys] BY DEF Timed, Typed
<1> QED BY <1>1, <1>3, <1>4, <1>5, OthersStay

\* A server that goes on to the next step
LEMMA TimedNext ==
    ASSUME Timed, NEW s \in Servers, NextStep(s), todo[s] = {},
           phase' = [phase EXCEPT ![s] = "fields"],
           UNCHANGED <<opt, job, lastDate, windows>>
    PROVE  /\ \A z \in Servers : Paced(z)'
           /\ \A k \in Keys : InMemory(k)'
           /\ clock' \in [Servers -> Nat] /\ todo' \in [Servers -> SUBSET Keys]
           /\ phase' \in [Servers -> Phases \cup Keys]
<1>1. \A z \in Servers :
         /\ phase'[z] = IF z = s THEN "fields" ELSE phase[z]
         /\ clock'[z] = IF z = s THEN clock[s] + 1 ELSE clock[z]
         /\ todo'[z] = IF z = s THEN DueAt(s, clock[s] + 1) ELSE todo[z]
  BY DEF Timed, Typed, NextStep
<1>2. Paced(s) /\ clock[s] \in Nat /\ job.begin \in Nat /\ lastDate[s] \in Steps \cup {None}
  BY DEF Timed, Typed, Jobs
<1>3. \A t : DueAt(s, t) \subseteq Keys BY DEF DueAt, HomeKeys
<1>4. Paced(s)'
  <2>1. todo'[s] \subseteq DueAt(s, clock[s])' BY <1>1 DEF DueAt, HomeKeys
  <2>2. job'.begin <= clock'[s] /\ clock'[s] # job'.begin BY <1>1, <1>2 DEF Paced
  <2>3. lastDate'[s] # None =>
           job'.begin <= lastDate'[s] /\ lastDate'[s] <= clock'[s] /\ HomeKeys(s)' # {}
    <3>1. HomeKeys(s)' = HomeKeys(s) BY DEF HomeKeys
    <3>2. \A a \in Nat, b \in Nat : a <= b => a <= b + 1 OBVIOUS
    <3> QED BY <1>1, <1>2, <3>1, <3>2, StepFacts DEF Paced
  <2>4. phase'[s] = "fields" BY <1>1
  <2> QED BY <2>1, <2>2, <2>3, <2>4 DEF Paced, Dumping
<1>5. ASSUME NEW k \in HomeKeys(s) PROVE InMemory(k)'
  <2>1. InMemory(k) /\ opt.home[k] = s /\ k \in Keys BY DEF Timed, HomeKeys
  <2>2. ASSUME NEW u \in Steps, Arrived(k, u)' PROVE Arrived(k, u) /\ u <= clock[s]
    <3>1. /\ u \in opt.due[k] /\ u <= clock[s] + 1
          /\ u = clock[s] + 1 => k \notin DueAt(s, clock[s] + 1)
      BY <1>1, <2>1, <2>2 DEF Arrived
    <3>2. u # clock[s] + 1 BY <2>1, <3>1 DEF DueAt, HomeKeys
    <3>3. u <= clock[s] BY <1>2, <3>1, <3>2, StepFacts
    <3> QED BY <2>1, <3>1, <3>3 DEF Arrived
  <2>3. ASSUME NEW u \in Steps, Handled(k, u)' PROVE Handled(k, u)
    BY <2>2, <2>3 DEF Handled
  <2>4. windows[k] # None => windows[k].curr < clock'[s]
    <3>1. ASSUME windows[k] # None PROVE windows[k].curr < clock'[s]
      <4>1. windows[k].curr \in Int BY <2>1, <3>1 DEF Timed, Typed, WindowRecords
      <4>2. lastDate[s] # None /\ windows[k].curr <= lastDate[s] BY <2>1, <3>1 DEF InMemory
      <4>3. lastDate[s] \in Nat /\ lastDate[s] <= clock[s] BY <1>2, <4>2, StepFacts DEF Paced
      <4> QED BY <1>1, <1>2, <4>1, <4>2, <4>3
    <3> QED BY <3>1
  <2> QED BY <2>1, <2>2, <2>3, <2>4 DEF InMemory
<1>6. /\ clock' \in [Servers -> Nat] /\ todo' \in [Servers -> SUBSET Keys]
      /\ phase' \in [Servers -> Phases \cup Keys]
  <2>1. DueAt(s, clock[s] + 1) \in SUBSET Keys BY <1>3
  <2>2. todo' \in [Servers -> SUBSET Keys] BY <2>1 DEF Timed, Typed, NextStep
  <2>3. clock' \in [Servers -> Nat] BY <1>2 DEF Timed, Typed, NextStep
  <2> QED BY <2>2, <2>3 DEF Timed, Typed, Phases
<1> QED BY <1>1, <1>4, <1>5, <1>6, OthersStay

\* A field leaves its window at its own step.
LEMMA TimedField ==
    ASSUME Timed, NEW s \in Servers, NEW k \in Keys, ReceiveField(s, k)
    PROVE  /\ Timed' /\ windows'[k] \in WindowRecords /\ windows'[k].curr = clock[s]
           /\ k \in HomeKeys(s) /\ clock[s] \in opt.due[k]
           /\ \A j \in Keys \ {k} : windows'[j] = windows[j]
<1> DEFINE t == clock[s]
           w == Window(k, t)
           v == IF Repeated(k, t) THEN w ELSE Counted(Taker(w, t), t)
<1>1. /\ phase[s] = "fields" /\ k \in todo[s] /\ Refusals(k, t) = {}
      /\ todo' = [todo EXCEPT ![s] = @ \ {k}]
      /\ lastDate' = [lastDate EXCEPT ![s] = t]
      /\ windows' = [windows EXCEPT ![k] = v]
      /\ UNCHANGED <<opt, job, clock, phase, left, disk, dirs, link, finished, resumed>>
  BY DEF ReceiveField, Handling, fileVars
<1>2. Paced(s) /\ Typed BY DEF Timed
<1>3. k \in HomeKeys(s) /\ opt.home[k] = s /\ t \in opt.due[k] /\ t \in Steps
  <2>1. k \in DueAt(s, t) BY <1>1, <1>2 DEF Paced
  <2>2. k \in HomeKeys(s) /\ t \in opt.due[k] BY <2>1 DEF DueAt
  <2> QED BY <1>2, <2>2, OptFacts DEF HomeKeys
<1>4. Readable(k, t) BY <1>1 DEF Readable
<1>5. v \in WindowRecords /\ Ordered(v) /\ v.curr = t
  <2>1. CASE Repeated(k, t)
    <3>1. w \in WindowRecords /\ Ordered(w) BY <1>3, <1>4, WindowTyped
    <3>2. w.curr = t BY <2>1 DEF Repeated
    <3> QED BY <2>1, <3>1, <3>2
  <2>2. CASE ~ Repeated(k, t)
    BY <1>1, <1>3, <2>2, TakenIn
  <2> QED BY <2>1, <2>2
<1> HIDE DEF v, w
<1>6. /\ windows'[k] = v /\ \A j \in Keys \ {k} : windows'[j] = windows[j]
      /\ windows' \in [Keys -> WindowRecords \cup {None}]
      /\ windows'[k] # None
  <2>1. windows \in [Keys -> WindowRecords \cup {None}] BY <1>2 DEF Typed
  <2> QED BY <1>1, <1>5, <2>1, MarkAssumption
<1>7. \A z \in Servers : /\ todo'[z] = IF z = s THEN todo[s] \ {k} ELSE todo[z]
                         /\ lastDate'[z] = IF z = s THEN t ELSE lastDate[z]
  BY <1>1, <1>2 DEF Typed
<1>8. todo' \in [Servers -> SUBSET Keys] /\ lastDate' \in [Servers -> Steps \cup {None}]
  <2>1. todo[s] \ {k} \in SUBSET Keys BY <1>2 DEF Typed
  <2> QED BY <1>1, <1>2, <1>3, <2>1 DEF Typed
<1>9. Typed' BY <1>1, <1>2, <1>6, <1>8 DEF Typed
<1>10. RunTyped' BY <1>1 DEF Timed, RunTyped
<1>11. OnDisk' BY <1>1 DEF Timed, OnDisk, Dumped
<1>12. t \in Nat /\ t = clock[s] /\ clock'[s] = t /\ t # None BY <1>1, <1>3, StepFacts
<1> HIDE DEF t
<1>13. Paced(s)'
  <2>1. todo'[s] \subseteq todo[s] BY <1>7
  <2>2. todo'[s] \subseteq DueAt(s, clock[s])'
    BY <1>1, <1>2, <2>1 DEF Paced, DueAt, HomeKeys
  <2>3. lastDate'[s] = t /\ job'.begin <= t /\ t <= t
    BY <1>1, <1>2, <1>7, <1>12 DEF Paced
  <2>4. HomeKeys(s)' # {} BY <1>1, <1>3 DEF HomeKeys
  <2>5. clock'[s] = job'.begin /\ todo'[s] # {} => InitialCondition
    BY <1>1, <1>2, <2>1 DEF Paced
  <2>6. phase'[s] = "fields" /\ job'.begin <= clock'[s] BY <1>1, <1>2 DEF Paced
  <2> QED BY <1>12, <2>2, <2>3, <2>4, <2>5, <2>6 DEF Paced, Dumping
<1>14. ASSUME NEW j \in HomeKeys(s) PROVE InMemory(j)'
  <2>1. j \in Keys /\ opt.home[j] = s /\ InMemory(j) /\ opt'.home[j] = s
    BY <1>1 DEF HomeKeys, Timed
  <2>2. CASE j = k
    <3>1. windows'[j] # None /\ Ordered(windows'[j]) /\ windows'[j].curr = t
      BY <1>5, <1>6, <2>2
    <3>2. k \notin todo'[s] /\ lastDate'[s] = t BY <1>7
    <3>3. \A u \in Steps : Arrived(j, u)' => u <= t BY <1>12, <2>1 DEF Arrived
    <3>4. t <= t BY <1>12
    <3>5. windows'[j].curr \in opt'.due[j] BY <1>1, <1>3, <2>2, <3>1
    <3> QED BY <1>12, <2>1, <2>2, <3>1, <3>2, <3>3, <3>4, <3>5 DEF InMemory
  <2>3. CASE j # k
    <3>1. windows'[j] = windows[j] /\ (j \in todo'[s] <=> j \in todo[s]) BY <1>6, <1>7, <2>1, <2>3
    <3>2. \A u \in Steps : Arrived(j, u)' <=> Arrived(j, u) BY <1>1, <2>1, <3>1 DEF Arrived
    <3>3. \A u \in Steps : Handled(j, u)' <=> Handled(j, u) BY <1>1, <3>2 DEF Handled
    <3>4. ASSUME windows[j] # None PROVE lastDate'[s] # None /\ windows[j].curr <= lastDate'[s]
      <4>1. windows[j].curr \in Int BY <1>2, <2>1, <3>4 DEF Typed, WindowRecords
      <4>2. lastDate[s] # None /\ windows[j].curr <= lastDate[s] BY <2>1, <3>4 DEF InMemory
      <4>3. lastDate[s] \in Nat /\ lastDate[s] <= t
        BY <1>2, <1>12, <4>2, StepFacts DEF Paced, Typed
      <4> QED BY <1>7, <1>12, <4>1, <4>2, <4>3
    <3> QED BY <1>1, <2>1, <3>1, <3>2, <3>3, <3>4 DEF InMemory
  <2> QED BY <2>2, <2>3
<1>15. /\ \A z \in Servers : Paced(z)'
       /\ \A j \in Keys : InMemory(j)'
  <2>1. \A z \in Servers \ {s} : /\ clock'[z] = clock[z] /\ todo'[z] = todo[z]
                                 /\ lastDate'[z] = lastDate[z] /\ phase'[z] = phase[z]
    BY <1>1, <1>7
  <2>2. \A j \in Keys \ HomeKeys(s) : windows'[j] = windows[j] BY <1>3, <1>6
  <2> QED BY <1>1, <1>13, <1>14, <2>1, <2>2, OthersStay
<1>16. Timed' BY <1>9, <1>10, <1>11, <1>15 DEF Timed
<1> QED BY <1>3, <1>5, <1>6, <1>12, <1>16

LEMMA TimedDump ==
    ASSUME Inv, Timed, NEW s \in Servers, NEW k \in Keys, MakeKey(s, k) \/ DumpKey(s, k)
    PROVE  /\ OnDisk' /\ disk' \in [Steps -> [Keys -> WindowRecords \cup {None, Partial}]]
           /\ k \in HomeKeys(s) /\ Dumping(s) /\ todo[s] = {} /\ DirName(s) \in Steps
           /\ UNCHANGED <<opt, job, clock, todo, windows, lastDate, dirs, link, finished, resumed, emitted>>
<1>1. /\ UNCHANGED <<opt, job, clock, todo, windows, lastDate, dirs, link, finished, resumed, emitted>>
      /\ phase[s] \in {"keys", k} /\ (phase[s] = "keys" => k \in left[s])
  <2>1. CASE MakeKey(s, k) BY <2>1 DEF MakeKey, Handling, history
  <2>2. CASE DumpKey(s, k)
    <3>1. phase[s] = k BY <2>2 DEF DumpKey, Handling
    <3>2. k # "keys" BY PhaseFacts DEF Phases
    <3> QED BY <2>2, <3>1, <3>2 DEF DumpKey, history
  <2> QED BY <2>1, <2>2
<1>2. k \in HomeKeys(s)
  BY <1>1 DEF Inv, InHand, OwnKeys
<1>3. Dumping(s) BY <1>1, PhaseFacts DEF Dumping, Phases
<1>4. Paced(s) /\ Typed BY DEF Timed
<1>5. /\ todo[s] = {} /\ clock[s] \in Checkpoints /\ lastDate[s] # None
      /\ lastDate[s] \in Steps /\ clock[s] \in Steps
  BY <1>3, <1>4, StepFacts DEF Paced, Dumping, Typed
<1>6. DirName(s) \in Steps BY <1>5 DEF DirName
<1>7. PICK n \in Steps : n = DirName(s) BY <1>6
<1>8. n \in Nat /\ n <= clock[s] /\ clock[s] \in Nat /\ lastDate[s] \in Nat /\ lastDate[s] <= n
  <2>1. lastDate[s] <= clock[s] /\ lastDate[s] \in Nat /\ clock[s] \in Nat
    BY <1>4, <1>5, StepFacts DEF Paced
  <2>2. n = clock[s] \/ n = lastDate[s] BY <1>7 DEF DirName
  <2> QED BY <2>1, <2>2
<1>9. PICK x \in WindowRecords \cup {None, Partial} :
         /\ disk' = [disk EXCEPT ![n][k] = x]
         /\ x \notin {None, Partial} => x = windows[k] /\ windows[k] # None
  <2>1. CASE MakeKey(s, k) BY <1>7, <2>1 DEF MakeKey
  <2>2. CASE DumpKey(s, k)
    <3>1. disk' = [disk EXCEPT ![n][k] = windows[k]] BY <1>7, <2>2 DEF DumpKey
    <3>2. windows[k] \in WindowRecords \cup {None, Partial} BY <1>4 DEF Typed
    <3> QED BY <3>1, <3>2
  <2> QED BY <2>1, <2>2
<1>10. disk \in [Steps -> [Keys -> WindowRecords \cup {None, Partial}]] BY <1>4 DEF Typed
<1>11. disk' \in [Steps -> [Keys -> WindowRecords \cup {None, Partial}]] BY <1>9, <1>10
<1>12. \A d \in Steps, j \in Keys : disk'[d][j] = IF d = n /\ j = k THEN x ELSE disk[d][j]
  BY <1>9, <1>10
<1>13. OnDisk'
  <2> SUFFICES ASSUME NEW d \in Steps, NEW j \in Keys, Dumped(d, j)'
      PROVE  /\ Ordered(disk'[d][j]) /\ disk'[d][j].curr <= d /\ disk'[d][j].curr \in opt.due[j]
             /\ \A u \in opt.due[j] : u <= d => u <= disk'[d][j].curr
    BY <1>1 DEF OnDisk, Ordered, Aligned
  <2>1. CASE d = n /\ j = k
    <3>1. disk'[d][j] = windows[k] /\ windows[k] # None BY <1>9, <1>12, <2>1 DEF Dumped
    <3>2. InMemory(k) /\ opt.home[k] = s BY <1>2 DEF Timed, HomeKeys
    <3>3. Ordered(windows[k]) /\ windows[k].curr <= lastDate[s] /\ windows[k].curr \in opt.due[k]
      BY <3>1, <3>2 DEF InMemory
    <3>4. windows[k].curr \in Int BY <1>4, <3>1 DEF Typed, WindowRecords
    <3>5. windows[k].curr <= d BY <1>8, <2>1, <3>3, <3>4
    <3>6. ASSUME NEW u \in opt.due[k], u <= d PROVE u <= windows[k].curr
      <4>1. u \in Steps /\ u \in Nat BY <1>4, OptFacts, StepFacts
      <4>2. u <= clock[s] BY <1>8, <2>1, <3>6, <4>1
      <4>3. Arrived(k, u) BY <1>5, <3>2, <4>2 DEF Arrived
      <4> QED BY <3>1, <3>2, <4>1, <4>3 DEF InMemory
    <3> QED BY <2>1, <3>1, <3>3, <3>5, <3>6
  <2>2. CASE ~ (d = n /\ j = k)
    <3>1. disk'[d][j] = disk[d][j] BY <1>12, <2>2
    <3>2. Dumped(d, j) BY <3>1 DEF Dumped
    <3> QED BY <3>1, <3>2 DEF Timed, OnDisk
  <2> QED BY <2>1, <2>2
<1> QED BY <1>1, <1>2, <1>3, <1>5, <1>6, <1>11, <1>13

LEMMA TimedInit == Init => Timed
<1> SUFFICES ASSUME Init PROVE Timed OBVIOUS
<1>1. /\ opt \in Options /\ job = [state |-> "up", why |-> "none", mode |-> "scratch", begin |-> 0]
      /\ \A s \in Servers : /\ clock[s] = 0 /\ phase[s] = "fields" /\ lastDate[s] = None
                            /\ todo[s] = IF InitialCondition THEN DueAt(s, 0) ELSE {}
      /\ \A k \in Keys : windows[k] = None
      /\ \A d \in Steps, k \in Keys : disk[d][k] = None
  BY DEF Init, FirstFields
<1>2. Typed
  <2>1. \A s \in Servers : DueAt(s, 0) \subseteq Keys BY DEF DueAt, HomeKeys
  <2>2. todo \in [Servers -> SUBSET Keys] BY <2>1 DEF Init, FirstFields
  <2>3. job \in Jobs BY <1>1 DEF Jobs
  <2>4. resumed \in Counters BY DEF Init, Counters
  <2>5. disk \in [Steps -> [Keys -> WindowRecords \cup {None, Partial}]] BY DEF Init
  <2>6. /\ clock \in [Servers -> Nat] /\ lastDate \in [Servers -> Steps \cup {None}]
        /\ left \in [Servers -> SUBSET Keys] /\ phase \in [Servers -> Phases \cup Keys]
        /\ windows \in [Keys -> WindowRecords \cup {None}]
    BY DEF Init, Phases
  <2>7. opt \in Options /\ dirs \subseteq Steps /\ link \in Steps \cup {None} /\ finished \subseteq Steps \X Servers
    BY DEF Init
  <2> QED BY <2>2, <2>3, <2>4, <2>5, <2>6, <2>7 DEF Typed
<1>3. RunTyped BY <1>1 DEF RunTyped
<1>4. OnDisk BY <1>1 DEF OnDisk, Dumped
<1>5. ASSUME NEW s \in Servers PROVE Paced(s)
  <2>1. job.begin = 0 /\ 0 <= 0 BY <1>1
  <2> QED BY <1>1, <2>1 DEF Paced, Dumping
<1>6. ASSUME NEW k \in Keys PROVE InMemory(k)
  <2>1. opt.home[k] \in Servers /\ opt.due[k] \subseteq Steps BY <1>2, OptFacts
  <2>2. ASSUME NEW u \in Steps, Handled(k, u) PROVE FALSE
    <3>1. /\ u \in opt.due[k] /\ u <= 0 /\ 0 <= u /\ (u = 0 => InitialCondition)
          /\ u = 0 => k \notin todo[opt.home[k]]
      BY <1>1, <2>1, <2>2 DEF Handled, Arrived
    <3>2. u = 0 BY <3>1, StepFacts
    <3>3. k \in DueAt(opt.home[k], 0) BY <3>1, <3>2 DEF DueAt, HomeKeys
    <3> QED BY <1>1, <2>1, <3>1, <3>2, <3>3
  <2> QED BY <1>1, <2>2 DEF InMemory
<1> QED BY <1>2, <1>3, <1>4, <1>5, <1>6 DEF Timed

LEMMA TimedStep == Inv /\ Timed /\ [Next]_vars => Timed'
<1> SUFFICES ASSUME Inv, Timed, [Next]_vars PROVE Timed' OBVIOUS
<1> USE DEF fileVars, serverVars, history
<1>0. Typed /\ RunTyped /\ OnDisk /\ \A s \in Servers : Paced(s) BY DEF Timed
<1>1. ASSUME NEW s \in Servers, NEW k \in Keys, ReceiveField(s, k) PROVE Timed'
  BY <1>1, TimedField
<1>2. ASSUME NEW s \in Servers, NEW k \in Keys, RefuseField(s, k) PROVE Timed'
  <2>1. PICK why \in Refusals(k, clock[s]) : GoDown(why) BY <1>2 DEF RefuseField
  <2>2. why \in {"no_directory", "load", "order", "bounds"} BY <2>1 DEF Refusals
  <2>3. UNCHANGED <<opt, disk, dirs, link, finished, resumed>> BY <1>2 DEF RefuseField
  <2> QED BY <2>1, <2>2, <2>3, TypedDown
<1>3. ASSUME NEW s \in Servers, PassFlush(s) PROVE Timed'
  <2>1. /\ phase[s] = "fields" /\ todo[s] = {} /\ NextStep(s)
        /\ UNCHANGED <<opt, job, phase, left, windows, lastDate, disk, dirs, link, finished, resumed>>
    BY <1>3 DEF PassFlush, Handling
  <2>2. phase' = [phase EXCEPT ![s] = "fields"] BY <1>0, <2>1 DEF Typed
  <2>3. /\ \A z \in Servers : Paced(z)'
        /\ \A k \in Keys : InMemory(k)'
        /\ clock' \in [Servers -> Nat] /\ todo' \in [Servers -> SUBSET Keys]
    BY <2>1, <2>2, TimedNext
  <2>4. Typed' BY <1>0, <2>1, <2>3 DEF Typed
  <2> QED BY <1>0, <2>1, <2>3, <2>4 DEF Timed, RunTyped, OnDisk, Dumped
<1>4. ASSUME NEW s \in Servers, LastFlush(s) PROVE Timed'
  <2>1. /\ phase[s] = "fields" /\ todo[s] = {} /\ FlushKind(clock[s]) = "last-step"
        /\ phase' = [phase EXCEPT ![s] = "over"]
        /\ UNCHANGED <<opt, clock, todo, left, windows, lastDate, disk, dirs, link, finished, resumed>>
        /\ \E x \in {"done", job.state} : job' = [job EXCEPT !.state = x]
    BY <1>4 DEF LastFlush, Handling
  <2>2. clock[s] = LastStep BY <2>1 DEF FlushKind
  <2>3. job' \in Jobs /\ job'.begin = job.begin /\ job'.mode = job.mode
    BY <1>0, <2>1 DEF Typed, Jobs
  <2>4. /\ \A z \in Servers : Paced(z)'
        /\ \A k \in Keys : InMemory(k)'
        /\ phase' \in [Servers -> Phases \cup Keys]
    <3>1. "over" \in Phases BY DEF Phases
    <3> QED BY <2>1, <2>2, <2>3, <3>1, TimedPhase
  <2>5. Typed' BY <1>0, <2>1, <2>3, <2>4 DEF Typed
  <2> QED BY <1>0, <2>1, <2>3, <2>4, <2>5 DEF Timed, RunTyped, OnDisk, Dumped
<1>5. ASSUME NEW s \in Servers, BeginDump(s) PROVE Timed'
  <2>1. /\ phase[s] = "fields" /\ todo[s] = {} /\ FlushKind(clock[s]) = "step-and-restart"
        /\ lastDate[s] # None
        /\ \E ph \in {"main_directory", "keys"} : phase' = [phase EXCEPT ![s] = ph]
        /\ left' = [left EXCEPT ![s] = {k \in HomeKeys(s) : windows[k] # None}]
        /\ link' \in {None, link}
        /\ UNCHANGED <<opt, job, clock, todo, windows, lastDate, disk, dirs, finished, resumed>>
    BY <1>5 DEF BeginDump, Handling
  <2>2. clock[s] \in Checkpoints /\ clock[s] # job.begin BY <2>1 DEF FlushKind
  <2>3. /\ \A z \in Servers : Paced(z)'
        /\ \A k \in Keys : InMemory(k)'
        /\ phase' \in [Servers -> Phases \cup Keys]
    <3>1. PICK ph \in {"main_directory", "keys"} : phase' = [phase EXCEPT ![s] = ph] BY <2>1
    <3>2. ph \in Phases /\ ph \notin {"fields", "over"} BY DEF Phases
    <3> QED BY <2>1, <2>2, <3>1, <3>2, TimedPhase
  <2>4. left' \in [Servers -> SUBSET Keys]
    <3>1. {k \in HomeKeys(s) : windows[k] # None} \in SUBSET Keys BY DEF HomeKeys
    <3> QED BY <1>0, <2>1, <3>1 DEF Typed
  <2>5. Typed' BY <1>0, <2>1, <2>3, <2>4 DEF Typed
  <2> QED BY <1>0, <2>1, <2>3, <2>5 DEF Timed, RunTyped, OnDisk, Dumped
<1>6. ASSUME NEW s \in Servers, MainDirectory(s) PROVE Timed'
  <2>1. /\ phase[s] = "main_directory" /\ phase' = [phase EXCEPT ![s] = "keys"]
        /\ dirs' = dirs \cup {DirName(s)}
        /\ UNCHANGED <<opt, job, clock, todo, left, windows, lastDate, disk, link, finished, resumed>>
    BY <1>6 DEF MainDirectory, Handling
  <2>2. /\ clock[s] \in Checkpoints /\ clock[s] # job.begin /\ lastDate[s] # None /\ todo[s] = {}
    BY <1>0, <2>1 DEF Paced, Dumping
  <2>3. /\ \A z \in Servers : Paced(z)'
        /\ \A k \in Keys : InMemory(k)'
        /\ phase' \in [Servers -> Phases \cup Keys]
    <3>1. "keys" \in Phases BY DEF Phases
    <3> QED BY <2>1, <2>2, <3>1, TimedPhase
  <2>4. DirName(s) \in Steps
    <3>1. lastDate[s] \in Steps /\ clock[s] \in Steps BY <1>0, <2>2, StepFacts DEF Typed
    <3> QED BY <3>1 DEF DirName
  <2>5. Typed' BY <1>0, <2>1, <2>3, <2>4 DEF Typed
  <2> QED BY <1>0, <2>1, <2>3, <2>5 DEF Timed, RunTyped, OnDisk, Dumped
<1>7. ASSUME NEW s \in Servers, MainDirectoryMissing(s) PROVE Timed'
  BY <1>7, TypedDown DEF MainDirectoryMissing
<1>8. ASSUME NEW s \in Servers, NEW k \in Keys, MakeKey(s, k) \/ DumpKey(s, k) PROVE Timed'
  <2>1. PICK ph \in {"keys", k} : phase' = [phase EXCEPT ![s] = ph]
    BY <1>8 DEF MakeKey, DumpKey
  <2>2. left' = left \/ left' = [left EXCEPT ![s] = @ \ {k}] BY <1>8 DEF MakeKey, DumpKey
  <2>3. left' \in [Servers -> SUBSET Keys]
    <3>1. left[s] \ {k} \in SUBSET Keys BY <1>0 DEF Typed
    <3> QED BY <1>0, <2>2, <3>1 DEF Typed
  <2>4. /\ OnDisk' /\ disk' \in [Steps -> [Keys -> WindowRecords \cup {None, Partial}]]
        /\ Dumping(s) /\ todo[s] = {}
        /\ UNCHANGED <<opt, job, clock, todo, windows, lastDate, dirs, link, finished, resumed>>
    BY <1>8, TimedDump
  <2>5. clock[s] \in Checkpoints /\ clock[s] # job.begin /\ lastDate[s] # None
    BY <1>0, <2>4 DEF Paced
  <2>6. ph \in Phases \cup Keys /\ ph \notin {"fields", "over"}
    BY <2>1, PhaseFacts DEF Phases
  <2>7. /\ \A z \in Servers : Paced(z)'
        /\ \A j \in Keys : InMemory(j)'
        /\ phase' \in [Servers -> Phases \cup Keys]
    BY <2>1, <2>4, <2>5, <2>6, TimedPhase
  <2>8. Typed' BY <1>0, <2>3, <2>4, <2>7 DEF Typed
  <2> QED BY <1>0, <2>4, <2>7, <2>8 DEF Timed, RunTyped
<1>9. ASSUME NEW s \in Servers, NEW k \in Keys, KeyExists(s, k) PROVE Timed'
  BY <1>9, TypedDown DEF KeyExists
<1>10. ASSUME NEW s \in Servers, EndDump(s) PROVE Timed'
  <2>1. /\ phase[s] = "keys" /\ NextStep(s) /\ phase' = [phase EXCEPT ![s] = "fields"]
        /\ link' \in {link, DirName(s)} /\ finished' = finished \cup {<<DirName(s), s>>}
        /\ UNCHANGED <<opt, job, left, windows, lastDate, disk, dirs, resumed>>
    BY <1>10 DEF EndDump, Handling
  <2>2. todo[s] = {} /\ clock[s] \in Checkpoints /\ lastDate[s] # None
    BY <1>0, <2>1 DEF Paced, Dumping
  <2>3. DirName(s) \in Steps
    <3>1. lastDate[s] \in Steps /\ clock[s] \in Steps BY <1>0, <2>2, StepFacts DEF Typed
    <3> QED BY <3>1 DEF DirName
  <2>4. /\ \A z \in Servers : Paced(z)'
        /\ \A k \in Keys : InMemory(k)'
        /\ clock' \in [Servers -> Nat] /\ todo' \in [Servers -> SUBSET Keys]
        /\ phase' \in [Servers -> Phases \cup Keys]
    BY <2>1, <2>2, TimedNext
  <2>5. finished' \subseteq Steps \X Servers /\ link' \in Steps \cup {None}
    BY <1>0, <2>1, <2>3 DEF Typed
  <2>6. Typed' BY <1>0, <2>1, <2>4, <2>5 DEF Typed
  <2> QED BY <1>0, <2>1, <2>4, <2>6 DEF Timed, RunTyped, OnDisk, Dumped
<1>11. ASSUME Crash PROVE Timed'
  BY <1>11, TypedDown DEF Crash
<1>12. ASSUME RestartLatest PROVE Timed'
  BY <1>12, TypedRestart DEF RestartLatest
<1>13. ASSUME RestartNamed PROVE Timed'
  BY <1>13, TypedRestart DEF RestartNamed
<1>14. ASSUME RestartScratch PROVE Timed'
  BY <1>14, TypedRestart DEF RestartScratch
<1>15. CASE UNCHANGED vars
  BY <1>0, <1>15 DEF vars, Timed, Typed, RunTyped, OnDisk, Dumped, Paced, DueAt, HomeKeys, Dumping,
     InMemory, Handled, Arrived
<1> QED BY <1>1, <1>2, <1>3, <1>4, <1>5, <1>6, <1>7, <1>8, <1>9, <1>10, <1>11, <1>12,
           <1>13, <1>14, <1>15 DEF Next, Server

-----------------------------------------------------------------------------
(* Restarts *)

\* How far a dump is
DumpUnderWay(s) ==
    /\ Dumping(s) => left[s] \subseteq {k \in HomeKeys(s) : windows[k] # None}
    /\ phase[s] = "main_directory" => {k \in HomeKeys(s) : windows[k] # None} \subseteq left[s]
    /\ Dumping(s) /\ phase[s] # "main_directory" =>
          /\ DirName(s) \in dirs
          /\ \A k \in HomeKeys(s) : windows[k] # None /\ k \notin left[s] => Dumped(DirName(s), k)

NoneDue(k, d) == \A u \in opt.due[k] : u > d

\* A dump that is finished has every key that has had a field between checkpoints.
FinishedDumps ==
    \A p \in finished :
        /\ p[1] \in dirs /\ HomeKeys(p[2]) # {}
        /\ \A k \in HomeKeys(p[2]) :
              /\ Continuous(k) => Dumped(p[1], k)
              /\ resumed.name + resumed.latest = 0 => Dumped(p[1], k) \/ NoneDue(k, p[1])

Linked == link # None => \E s \in Servers : <<link, s>> \in finished

\* A run that was started by name reads a dump that is finished.
NamedSource ==
    job.mode = "name" =>
        /\ \A s \in Servers : HomeKeys(s) # {} => <<job.begin, s>> \in finished
        /\ resumed.name + resumed.latest = 1 =>
              \A k \in Keys : Dumped(job.begin, k) \/ NoneDue(k, job.begin)

\* With one server "latest" stays until that server has loaded the keys it dumps.
LatestSource ==
    \A s \in Servers :
        job.mode = "latest" /\ job.state # "down" /\ HomeKeys(s) = Keys =>
            /\ phase[s] = "fields" \/ ~ IsMaster(s) => link # None
            /\ link # None => job.begin <= link /\ (link = job.begin \/ link < clock[s])
            /\ \A k \in Keys : Continuous(k) /\ windows[k] = None => link = job.begin

Restartable == /\ \A s \in Servers : DumpUnderWay(s)
               /\ FinishedDumps /\ Linked /\ NamedSource /\ LatestSource

LEMMA OptStays ==
    ASSUME opt' = opt
    PROVE  /\ \A s : HomeKeys(s)' = HomeKeys(s)
           /\ \A k : Continuous(k)' = Continuous(k)
           /\ OneServer' = OneServer
BY DEF HomeKeys, Continuous, Before, OneServer

LEMMA DumpedStays ==
    ASSUME DiskGrows, NEW d \in Steps, NEW k \in Keys, Dumped(d, k)
    PROVE  Dumped(d, k)' /\ disk'[d][k] = disk[d][k]
BY DEF DiskGrows, Dumped

\* The directory of a dump that is under way
LEMMA DirNameFacts ==
    ASSUME Timed, NEW s \in Servers, Dumping(s)
    PROVE  /\ DirName(s) \in Steps /\ DirName(s) <= clock[s] /\ job.begin <= DirName(s)
           /\ clock[s] \in Checkpoints /\ clock[s] # job.begin /\ job.begin < clock[s]
           /\ lastDate[s] # None /\ todo[s] = {} /\ HomeKeys(s) # {}
<1>1. Paced(s) /\ Typed BY DEF Timed
<1>2. /\ lastDate[s] # None /\ lastDate[s] \in Steps /\ clock[s] \in Checkpoints /\ clock[s] # job.begin
      /\ job.begin <= lastDate[s] /\ lastDate[s] <= clock[s] /\ HomeKeys(s) # {} /\ todo[s] = {}
      /\ job.begin <= clock[s]
  BY <1>1 DEF Paced, Dumping, Typed
<1>3. clock[s] \in Steps /\ clock[s] \in Nat /\ job.begin \in Nat BY <1>1, <1>2, StepFacts DEF Typed, Jobs
<1>4. DirName(s) \in {clock[s], lastDate[s]} BY DEF DirName
<1>5. clock[s] <= clock[s] BY <1>3
<1>6. job.begin < clock[s] BY <1>2, <1>3
<1> QED BY <1>2, <1>3, <1>4, <1>5, <1>6

\* At a checkpoint every key that has a field between any two is in memory.
LEMMA ContinuousSeen ==
    ASSUME Timed, NEW s \in Servers, NEW k \in HomeKeys(s), Continuous(k),
           clock[s] \in Checkpoints, clock[s] # job.begin, todo[s] = {}
    PROVE  windows[k] # None
<1>1. Typed /\ RunTyped /\ Paced(s) /\ InMemory(k) /\ k \in Keys /\ opt.home[k] = s
  BY DEF Timed, HomeKeys
<1>2. PICK u \in Before(k, clock[s]) : \A b \in Checkpoints : b < clock[s] => b < u
  BY DEF Continuous
<1>3. u \in opt.due[k] /\ u <= clock[s] /\ u \in Steps /\ u \in Nat
  BY <1>1, <1>2, OptFacts, StepFacts DEF Before
<1>4. job.begin \in Nat /\ clock[s] \in Nat /\ job.begin <= clock[s]
  BY <1>1 DEF Typed, Jobs, Paced
<1>5. job.begin <= u /\ (u = job.begin => InitialCondition)
  <2>1. CASE job.mode = "scratch"
    <3>1. job.begin = 0 BY <1>1, <2>1 DEF RunTyped
    <3>2. 0 \in opt.due[k] => InitialCondition BY <1>1, OptFacts
    <3> QED BY <1>3, <3>1, <3>2
  <2>2. CASE job.mode # "scratch"
    <3>1. job.begin \in Checkpoints BY <1>1, <2>2 DEF RunTyped
    <3>2. job.begin < clock[s] BY <1>4
    <3>3. job.begin < u BY <1>2, <3>1, <3>2
    <3> QED BY <1>3, <1>4, <3>3
  <2> QED BY <2>1, <2>2
<1>6. Handled(k, u) BY <1>1, <1>3, <1>5 DEF Handled, Arrived
<1> QED BY <1>1, <1>3, <1>6 DEF InMemory

LEMMA DumpStays ==
    ASSUME Timed, NEW z \in Servers, DumpUnderWay(z), opt' = opt, DiskGrows,
           phase'[z] = phase[z], left'[z] = left[z], clock'[z] = clock[z], lastDate'[z] = lastDate[z],
           \A k \in HomeKeys(z) : windows'[k] = windows[k], dirs \subseteq dirs'
    PROVE  DumpUnderWay(z)'
<1>1. DirName(z)' = DirName(z) /\ (Dumping(z)' <=> Dumping(z)) BY DEF DirName, Dumping
<1>2. HomeKeys(z)' = HomeKeys(z) /\ HomeKeys(z) \subseteq Keys BY DEF HomeKeys
<1>3. {k \in HomeKeys(z)' : windows'[k] # None} = {k \in HomeKeys(z) : windows[k] # None}
  BY <1>2
<1>4. ASSUME NEW k \in HomeKeys(z), Dumping(z), Dumped(DirName(z), k)
      PROVE  Dumped(DirName(z), k)'
  <2>1. DirName(z) \in Steps BY <1>4, DirNameFacts
  <2>2. PICK d \in Steps : d = DirName(z) BY <2>1
  <2>3. disk'[d][k] = disk[d][k] BY <1>2, <1>4, <2>2, DumpedStays
  <2>4. disk'[DirName(z)'][k] = disk[DirName(z)][k] BY <1>1, <2>2, <2>3
  <2> QED BY <1>4, <2>4 DEF Dumped
<1>5. /\ Dumping(z) => left[z] \subseteq {k \in HomeKeys(z) : windows[k] # None}
      /\ phase[z] = "main_directory" => {k \in HomeKeys(z) : windows[k] # None} \subseteq left[z]
  BY DEF DumpUnderWay
<1>6. ASSUME Dumping(z), phase[z] # "main_directory"
      PROVE  /\ DirName(z)' \in dirs'
             /\ \A k \in HomeKeys(z)' : windows'[k] # None /\ k \notin left'[z] => Dumped(DirName(z), k)'
  <2>1. DirName(z) \in dirs BY <1>6 DEF DumpUnderWay
  <2>2. ASSUME NEW k \in HomeKeys(z), windows[k] # None, k \notin left[z] PROVE Dumped(DirName(z), k)'
    <3>1. Dumped(DirName(z), k) BY <1>6, <2>2 DEF DumpUnderWay
    <3> QED BY <1>4, <1>6, <3>1
  <2> QED BY <1>1, <1>2, <2>1, <2>2
<1> QED BY <1>1, <1>3, <1>5, <1>6 DEF DumpUnderWay

\* What no step takes away
LEMMA FinishedStay ==
    ASSUME Timed, FinishedDumps, opt' = opt, DiskGrows, dirs \subseteq dirs', finished' = finished,
           resumed' \in Counters, resumed'.name + resumed'.latest >= resumed.name + resumed.latest
    PROVE  FinishedDumps'
<1> SUFFICES ASSUME NEW p \in finished
    PROVE  /\ p[1] \in dirs' /\ HomeKeys(p[2])' # {}
           /\ \A k \in HomeKeys(p[2])' :
                 /\ Continuous(k)' => Dumped(p[1], k)'
                 /\ resumed'.name + resumed'.latest = 0 => Dumped(p[1], k)' \/ NoneDue(k, p[1])'
  BY DEF FinishedDumps
<1>1. /\ p[1] \in dirs /\ HomeKeys(p[2]) # {} /\ p[1] \in Steps
      /\ \A k \in HomeKeys(p[2]) :
            /\ Continuous(k) => Dumped(p[1], k)
            /\ resumed.name + resumed.latest = 0 => Dumped(p[1], k) \/ NoneDue(k, p[1])
  BY DEF FinishedDumps, Timed, Typed
<1>2. HomeKeys(p[2])' = HomeKeys(p[2]) /\ HomeKeys(p[2]) \subseteq Keys BY DEF HomeKeys
<1>3. ASSUME NEW k \in HomeKeys(p[2])
      PROVE  Continuous(k)' = Continuous(k) /\ NoneDue(k, p[1])' = NoneDue(k, p[1])
  BY <1>3, OptStays DEF NoneDue
<1>4. ASSUME NEW k \in HomeKeys(p[2]), Dumped(p[1], k) PROVE Dumped(p[1], k)'
  <2>1. PICK d \in Steps : d = p[1] BY <1>1
  <2>2. k \in Keys BY <1>2
  <2>3. disk'[d][k] = disk[d][k] BY <1>4, <2>1, <2>2, DumpedStays
  <2> QED BY <1>4, <2>1, <2>3 DEF Dumped
<1>5. resumed'.name + resumed'.latest = 0 => resumed.name + resumed.latest = 0
  <2>1. /\ resumed.name \in Nat /\ resumed.latest \in Nat
        /\ resumed'.name \in Nat /\ resumed'.latest \in Nat
    BY DEF Timed, Typed, Counters
  <2> QED BY <2>1
<1> QED BY <1>1, <1>2, <1>3, <1>4, <1>5

LEMMA NamedStays ==
    ASSUME Timed, NamedSource, opt' = opt, DiskGrows, finished \subseteq finished',
           job'.mode = job.mode, job'.begin = job.begin, resumed' = resumed
    PROVE  NamedSource'
<1> SUFFICES ASSUME job.mode = "name"
    PROVE  /\ \A s \in Servers : HomeKeys(s)' # {} => <<job'.begin, s>> \in finished'
           /\ resumed'.name + resumed'.latest = 1 =>
                 \A k \in Keys : Dumped(job.begin, k)' \/ NoneDue(k, job.begin)'
  BY DEF NamedSource
<1>1. job.begin \in Steps BY StepFacts DEF Timed, RunTyped
<1>2. \A s \in Servers : HomeKeys(s)' = HomeKeys(s) BY DEF HomeKeys
<1>3. ASSUME NEW k \in Keys, Dumped(job.begin, k) \/ NoneDue(k, job.begin)
      PROVE  Dumped(job.begin, k)' \/ NoneDue(k, job.begin)'
  <2>1. PICK d \in Steps : d = job.begin /\ d = job'.begin BY <1>1
  <2>2. CASE Dumped(job.begin, k)
    <3>1. disk'[d][k] = disk[d][k] BY <2>1, <2>2, DumpedStays
    <3> QED BY <2>1, <2>2, <3>1 DEF Dumped
  <2>3. CASE NoneDue(k, job.begin) BY <2>1, <2>3 DEF NoneDue
  <2> QED BY <1>3, <2>2, <2>3
<1> QED BY <1>2, <1>3 DEF NamedSource

\* A server without keys never dumps: with one server no other moves the link.
LEMMA LatestStays ==
    ASSUME Timed, LatestSource, opt' = opt, job'.mode = job.mode, job'.begin = job.begin,
           job.state # "down", link' = link,
           \A s \in Servers : /\ phase'[s] = "fields" => phase[s] = "fields" \/ link # None
                              /\ clock'[s] \in Nat /\ clock'[s] >= clock[s],
           \A k \in Keys : windows'[k] = None => windows[k] = None
    PROVE  LatestSource'
<1> SUFFICES ASSUME NEW s \in Servers, job.mode = "latest", HomeKeys(s) = Keys
    PROVE  /\ phase'[s] = "fields" \/ ~ IsMaster(s)' => link # None
           /\ link # None => job.begin <= link /\ (link = job.begin \/ link < clock'[s])
           /\ \A k \in Keys : Continuous(k)' /\ windows'[k] = None => link = job.begin
  BY OptStays DEF LatestSource
<1>1. /\ phase[s] = "fields" \/ ~ IsMaster(s) => link # None
      /\ link # None => job.begin <= link /\ (link = job.begin \/ link < clock[s])
      /\ \A k \in Keys : Continuous(k) /\ windows[k] = None => link = job.begin
  BY DEF LatestSource
<1>2. IsMaster(s)' = IsMaster(s) BY DEF IsMaster
<1>3. link # None /\ link < clock[s] => link < clock'[s]
  <2>1. clock[s] \in Nat /\ link \in Steps \cup {None} BY DEF Timed, Typed
  <2>2. link # None => link \in Nat BY <2>1, StepFacts
  <2> QED BY <2>1, <2>2
<1>4. \A k \in Keys : Continuous(k)' = Continuous(k) BY OptStays
<1> QED BY <1>1, <1>2, <1>3, <1>4

LEMMA NoDump ==
    ASSUME NEW s \in Servers, phase'[s] \in {"fields", "over"}
    PROVE  DumpUnderWay(s)'
BY DEF DumpUnderWay, Dumping

LEMMA OneHome ==
    ASSUME Timed, NEW s \in Servers, HomeKeys(s) = Keys, NEW z \in Servers, HomeKeys(z) # {}
    PROVE  z = s
BY DEF HomeKeys

\* A step of one server that leaves the link and the finished dumps alone
LEMMA RestartableStays ==
    ASSUME Timed, Restartable, NEW s \in Servers, opt' = opt, DiskGrows, job.state # "down",
           UNCHANGED <<link, finished, resumed>>, dirs \subseteq dirs',
           job'.mode = job.mode, job'.begin = job.begin,
           \A z \in Servers \ {s} :
              /\ phase'[z] = phase[z] /\ left'[z] = left[z]
              /\ clock'[z] = clock[z] /\ lastDate'[z] = lastDate[z],
           \A k \in Keys \ HomeKeys(s) : windows'[k] = windows[k],
           \A k \in HomeKeys(s) : windows'[k] = None => windows[k] = None,
           phase'[s] = "fields" => phase[s] = "fields",
           clock'[s] \in Nat, clock'[s] >= clock[s],
           DumpUnderWay(s)'
    PROVE  Restartable'
<1>1. ASSUME NEW z \in Servers PROVE DumpUnderWay(z)'
  <2>1. CASE z = s BY <2>1
  <2>2. CASE z # s
    <3>1. \A k \in HomeKeys(z) : windows'[k] = windows[k] BY <2>2 DEF HomeKeys
    <3>2. DumpUnderWay(z) BY DEF Restartable
    <3> QED BY <2>2, <3>1, <3>2, DumpStays
  <2> QED BY <2>1, <2>2
<1>2. FinishedDumps'
  <2>1. resumed \in Counters BY DEF Timed, Typed
  <2>2. resumed'.name + resumed'.latest >= resumed.name + resumed.latest
    BY <2>1 DEF Counters
  <2> QED BY <2>1, <2>2, FinishedStay DEF Restartable
<1>3. Linked' BY DEF Restartable, Linked
<1>4. NamedSource' BY NamedStays DEF Restartable
<1>5. LatestSource'
  <2>1. ASSUME NEW z \in Servers
        PROVE  /\ phase'[z] = "fields" => phase[z] = "fields" \/ link # None
               /\ clock'[z] \in Nat /\ clock'[z] >= clock[z]
    <3>1. clock[z] \in Nat BY DEF Timed, Typed
    <3>2. CASE z = s BY <3>2
    <3>3. CASE z # s BY <3>1, <3>3
    <3> QED BY <3>2, <3>3
  <2>2. \A k \in Keys : windows'[k] = None => windows[k] = None OBVIOUS
  <2> QED BY <2>1, <2>2, LatestStays DEF Restartable
<1> QED BY <1>1, <1>2, <1>3, <1>4, <1>5 DEF Restartable

\* A job that goes down, and one that is started again
LEMMA RestartableDown ==
    ASSUME Timed, Restartable, NEW why, GoDown(why),
           UNCHANGED <<opt, disk, dirs, link, finished, resumed>>
    PROVE  Restartable'
<1>1. job \in Jobs /\ resumed \in Counters BY DEF Timed, Typed
<1>2. job'.state = "down" /\ job'.mode = job.mode /\ job'.begin = job.begin
  BY <1>1 DEF GoDown, Jobs
<1>3. \A s \in Servers : phase'[s] = "fields" BY DEF GoDown, StartServers
<1>4. DiskGrows BY DEF DiskGrows
<1>5. resumed'.name + resumed'.latest >= resumed.name + resumed.latest BY <1>1 DEF Counters
<1>6. FinishedDumps' BY <1>1, <1>4, <1>5, FinishedStay DEF Restartable
<1>7. NamedSource' BY <1>2, <1>4, NamedStays DEF Restartable
<1>8. Linked' BY DEF Restartable, Linked
<1>9. LatestSource' BY <1>2 DEF LatestSource
<1> QED BY <1>3, <1>6, <1>7, <1>8, <1>9, NoDump DEF Restartable

LEMMA RestartableRestart ==
    ASSUME Timed, Restartable, NEW mode \in {"latest", "name", "scratch"}, NEW d, Restart(mode, d),
           mode = "latest" => link = d /\ d \in Checkpoints,
           mode = "name" => /\ d \in Checkpoints
                            /\ \A s \in Servers : HomeKeys(s) # {} => <<d, s>> \in finished
    PROVE  Restartable'
<1>1. job \in Jobs /\ resumed \in Counters BY DEF Timed, Typed
<1>2. /\ job' = [state |-> "up", why |-> "none", mode |-> mode, begin |-> d]
      /\ resumed' = [resumed EXCEPT ![mode] = @ + 1]
      /\ UNCHANGED <<opt, disk, dirs, link, finished>>
      /\ \A s \in Servers : phase'[s] = "fields" /\ clock'[s] = d
  BY DEF Restart, StartServers, fileVars
<1>3. job'.mode = mode /\ job'.begin = d BY <1>2
<1>4. DiskGrows BY <1>2 DEF DiskGrows
<1>5. /\ resumed' \in Counters
      /\ resumed'.name + resumed'.latest >= resumed.name + resumed.latest
      /\ mode = "name" => resumed'.name + resumed'.latest = resumed.name + resumed.latest + 1
  <2>1. CASE mode = "name" BY <1>1, <1>2, <2>1 DEF Counters
  <2>2. CASE mode = "latest" BY <1>1, <1>2, <2>2 DEF Counters
  <2>3. CASE mode = "scratch" BY <1>1, <1>2, <2>3 DEF Counters
  <2> QED BY <2>1, <2>2, <2>3
<1>6. FinishedDumps' BY <1>2, <1>4, <1>5, FinishedStay DEF Restartable
<1>7. Linked' BY <1>2 DEF Restartable, Linked
<1>8. NamedSource'
  <2> SUFFICES ASSUME mode = "name"
      PROVE  /\ \A s \in Servers : HomeKeys(s)' # {} => <<d, s>> \in finished
             /\ resumed'.name + resumed'.latest = 1 =>
                   \A k \in Keys : Dumped(d, k)' \/ NoneDue(k, d)'
    BY <1>2, <1>3 DEF NamedSource, Dumped, NoneDue
  <2>1. \A s \in Servers : HomeKeys(s)' = HomeKeys(s) BY <1>2 DEF HomeKeys
  <2>2. ASSUME resumed'.name + resumed'.latest = 1, NEW k \in Keys
        PROVE  Dumped(d, k)' \/ NoneDue(k, d)'
    <3>1. resumed.name + resumed.latest = 0 BY <1>1, <1>5, <2>2 DEF Counters
    <3>2. PICK s \in Servers : s = opt.home[k] BY OptFacts DEF Timed
    <3>3. k \in HomeKeys(s) BY <3>2 DEF HomeKeys
    <3>4. <<d, s>> \in finished BY <3>3
    <3>5. Dumped(d, k) \/ NoneDue(k, d)
      BY <3>1, <3>3, <3>4 DEF Restartable, FinishedDumps
    <3> QED BY <1>2, <3>5 DEF Dumped, NoneDue
  <2> QED BY <2>1, <2>2
<1>9. LatestSource'
  <2> SUFFICES ASSUME NEW s \in Servers, mode = "latest"
      PROVE  /\ link # None /\ d <= link /\ link = d
    BY <1>2, <1>3 DEF LatestSource
  <2>1. link \in Nat /\ link # None BY StepFacts
  <2> QED BY <2>1
<1> QED BY <1>2, <1>6, <1>7, <1>8, <1>9, NoDump DEF Restartable

\* A dump begins: nothing is on disk yet, and "latest" is gone.
LEMMA RestartableBegin ==
    ASSUME Timed, Restartable, NEW s \in Servers, BeginDump(s)
    PROVE  Restartable'
<1>1. /\ job.state = "up" /\ phase[s] = "fields" /\ todo[s] = {} /\ lastDate[s] # None
      /\ FlushKind(clock[s]) = "step-and-restart"
      /\ link' = (IF IsMaster(s) THEN None ELSE link)
      /\ left' = [left EXCEPT ![s] = {k \in HomeKeys(s) : windows[k] # None}]
      /\ UNCHANGED <<opt, job, clock, windows, lastDate, disk, dirs, finished, resumed>>
  BY DEF BeginDump, Handling, history
<1>0. PICK ph \in {"main_directory", "keys"} :
         /\ phase' = [phase EXCEPT ![s] = ph]
         /\ ph = "keys" => DirName(s) \in dirs
  BY DEF BeginDump
<1>2. clock[s] \in Checkpoints /\ clock[s] # job.begin BY <1>1 DEF FlushKind
<1>3. Typed /\ resumed \in Counters /\ Paced(s) BY DEF Timed, Typed
<1>4. DiskGrows BY <1>1 DEF DiskGrows
<1>5. \A z \in Servers :
         /\ phase'[z] = IF z = s THEN ph ELSE phase[z]
         /\ left'[z] = IF z = s THEN {k \in HomeKeys(s) : windows[k] # None} ELSE left[z]
  BY <1>0, <1>1, <1>3 DEF Typed
<1>6. ASSUME NEW z \in Servers PROVE DumpUnderWay(z)'
  <2>1. CASE z = s
    <3>1. HomeKeys(s)' = HomeKeys(s) BY <1>1 DEF HomeKeys
    <3>2. phase'[s] = ph /\ windows' = windows
          /\ left'[s] = {k \in HomeKeys(s) : windows[k] # None}
      BY <1>1, <1>5
    <3>3. left'[s] = {k \in HomeKeys(s)' : windows'[k] # None} BY <3>1, <3>2
    <3>4. ph = "keys" => DirName(s)' \in dirs' BY <1>0, <1>1 DEF DirName
    <3> QED BY <1>0, <2>1, <3>2, <3>3, <3>4 DEF DumpUnderWay
  <2>2. CASE z # s
    <3>1. DumpUnderWay(z) BY DEF Restartable
    <3> QED BY <1>1, <1>4, <1>5, <2>2, <3>1, DumpStays
  <2> QED BY <2>1, <2>2
<1>7. FinishedDumps'
  <2>1. resumed'.name + resumed'.latest >= resumed.name + resumed.latest
    BY <1>1, <1>3 DEF Counters
  <2> QED BY <1>1, <1>3, <1>4, <2>1, FinishedStay DEF Restartable
<1>8. Linked' BY <1>1 DEF Restartable, Linked
<1>9. NamedSource' BY <1>1, <1>4, NamedStays DEF Restartable
<1>10. LatestSource'
  <2> SUFFICES ASSUME NEW z \in Servers, job.mode = "latest", HomeKeys(z) = Keys
      PROVE  /\ phase'[z] = "fields" \/ ~ IsMaster(z)' => link' # None
             /\ link' # None => job.begin <= link' /\ (link' = job.begin \/ link' < clock[z])
             /\ \A k \in Keys : Continuous(k)' /\ windows[k] = None => link' = job.begin
    BY <1>1, OptStays DEF LatestSource
  <2>1. HomeKeys(s) # {} BY <1>1, <1>3 DEF Paced
  <2>2. z = s BY <2>1, OneHome
  <2>3. /\ phase[s] = "fields" \/ ~ IsMaster(s) => link # None
        /\ link # None => job.begin <= link /\ (link = job.begin \/ link < clock[s])
    BY <1>1, <2>2 DEF Restartable, LatestSource
  <2>4. IsMaster(s)' = IsMaster(s) BY <1>1 DEF IsMaster
  <2>5. \A k \in Keys : Continuous(k) => windows[k] # None
    BY <1>1, <1>2, <2>2, ContinuousSeen
  <2>6. \A k \in Keys : Continuous(k)' = Continuous(k) BY <1>1, OptStays
  <2>7. ~ IsMaster(s) => link' # None BY <1>1, <2>3
  <2>8. link' # None => link' = link BY <1>1
  <2> QED BY <1>5, <2>2, <2>3, <2>4, <2>5, <2>6, <2>7, <2>8
<1> QED BY <1>6, <1>7, <1>8, <1>9, <1>10 DEF Restartable

LEMMA RestartableDirectory ==
    ASSUME Timed, Restartable, NEW s \in Servers, MainDirectory(s)
    PROVE  Restartable'
<1>1. /\ job.state = "up" /\ phase[s] = "main_directory"
      /\ dirs' = dirs \cup {DirName(s)} /\ phase' = [phase EXCEPT ![s] = "keys"]
      /\ UNCHANGED <<opt, job, clock, todo, left, windows, lastDate, disk, link, finished, resumed>>
  BY DEF MainDirectory, Handling, history
<1>2. Typed BY DEF Timed
<1>3. DiskGrows BY <1>1 DEF DiskGrows
<1>4. \A z \in Servers : phase'[z] = IF z = s THEN "keys" ELSE phase[z] BY <1>1, <1>2 DEF Typed
<1>5. DumpUnderWay(s)'
  <2>1. HomeKeys(s)' = HomeKeys(s) /\ DirName(s)' = DirName(s) BY <1>1 DEF HomeKeys, DirName
  <2>2. /\ left[s] \subseteq {k \in HomeKeys(s) : windows[k] # None}
        /\ {k \in HomeKeys(s) : windows[k] # None} \subseteq left[s]
    BY <1>1 DEF Restartable, DumpUnderWay, Dumping
  <2> QED BY <1>1, <1>4, <2>1, <2>2 DEF DumpUnderWay, Dumping
<1>6. clock[s] \in Nat /\ clock[s] >= clock[s] BY <1>2 DEF Typed
<1> QED BY <1>1, <1>3, <1>4, <1>5, <1>6, RestartableStays

LEMMA RestartableKey ==
    ASSUME Inv, Timed, Restartable, NEW s \in Servers, NEW k \in Keys,
           MakeKey(s, k) \/ DumpKey(s, k), DiskGrows
    PROVE  Restartable'
<1>1. /\ job.state = "up" /\ (phase[s] = "keys" \/ phase[s] = k)
      /\ UNCHANGED <<opt, job, clock, todo, windows, lastDate, dirs, link, finished, resumed>>
  BY DEF MakeKey, DumpKey, Handling, history
<1>2. Typed BY DEF Timed
<1>3. Dumping(s) /\ phase[s] # "main_directory" BY <1>1, PhaseFacts DEF Dumping, Phases
<1>4. PICK ph \in {"keys", k} : phase' = [phase EXCEPT ![s] = ph] BY DEF MakeKey, DumpKey
<1>5. ph \notin {"fields", "over", "main_directory"} BY PhaseFacts DEF Phases
<1>6. \A z \in Servers : phase'[z] = IF z = s THEN ph ELSE phase[z] BY <1>2, <1>4 DEF Typed
<1>7. \A z \in Servers : left'[z] = IF z = s /\ DumpKey(s, k) THEN left[z] \ {k} ELSE left[z]
  <2>1. CASE DumpKey(s, k) BY <1>2, <2>1 DEF DumpKey, Typed
  <2>2. CASE ~ DumpKey(s, k) BY <2>2 DEF MakeKey
  <2> QED BY <2>1, <2>2
<1>8. /\ left[s] \subseteq {j \in HomeKeys(s) : windows[j] # None} /\ DirName(s) \in dirs
      /\ \A j \in HomeKeys(s) : windows[j] # None /\ j \notin left[s] => Dumped(DirName(s), j)
  BY <1>3 DEF Restartable, DumpUnderWay
<1>9. PICK n \in Steps : n = DirName(s) BY <1>3, DirNameFacts
<1>10. HomeKeys(s)' = HomeKeys(s) /\ DirName(s)' = n BY <1>1, <1>9 DEF HomeKeys, DirName
<1>11. ASSUME NEW j \in HomeKeys(s), windows[j] # None, j \notin left'[s] PROVE disk'[n][j] \notin {None, Partial}
  <2>1. j \in Keys BY DEF HomeKeys
  <2>2. CASE j \notin left[s]
    <3>1. Dumped(n, j) BY <1>8, <1>9, <1>11, <2>2
    <3> QED BY <2>1, <3>1, DumpedStays DEF Dumped
  <2>3. CASE j \in left[s]
    <3>1. j = k /\ DumpKey(s, k) BY <1>7, <1>11, <2>3
    <3>2. disk' = [disk EXCEPT ![n][k] = windows[k]] BY <1>9, <3>1 DEF DumpKey
    <3>3. disk'[n][k] = windows[k] BY <1>2, <3>2 DEF Typed
    <3>4. windows[k] \in WindowRecords BY <1>2, <1>11, <3>1 DEF Typed
    <3> QED BY <3>1, <3>3, <3>4, MarkAssumption
  <2> QED BY <2>2, <2>3
<1>12. left'[s] \subseteq left[s] BY <1>7
<1>13. DumpUnderWay(s)'
  <2>1. \A j \in HomeKeys(s) : windows[j] # None /\ j \notin left'[s] => Dumped(DirName(s), j)'
    BY <1>10, <1>11 DEF Dumped
  <2> QED BY <1>1, <1>5, <1>6, <1>8, <1>9, <1>10, <1>12, <2>1 DEF DumpUnderWay, Dumping
<1>14. clock[s] \in Nat /\ clock[s] >= clock[s] BY <1>2 DEF Typed
<1> QED BY <1>1, <1>5, <1>6, <1>7, <1>13, <1>14, RestartableStays

\* A dump that ends has every key that is in memory.
LEMMA DumpEnds ==
    ASSUME Timed, Restartable, NEW s \in Servers, phase[s] = "keys", left[s] = {},
           NEW k \in HomeKeys(s)
    PROVE  /\ windows[k] # None => Dumped(DirName(s), k)
           /\ Continuous(k) => Dumped(DirName(s), k)
           /\ resumed.name + resumed.latest = 0 =>
                 Dumped(DirName(s), k) \/ NoneDue(k, DirName(s))
<1>1. Dumping(s) /\ phase[s] # "main_directory" BY DEF Dumping
<1>2. windows[k] # None => Dumped(DirName(s), k) BY <1>1 DEF Restartable, DumpUnderWay
<1>3. /\ DirName(s) \in Steps /\ DirName(s) <= clock[s] /\ clock[s] \in Checkpoints
      /\ clock[s] # job.begin /\ todo[s] = {}
  BY <1>1, DirNameFacts
<1>4. Continuous(k) => windows[k] # None BY <1>3, ContinuousSeen
<1>5. ASSUME resumed.name + resumed.latest = 0, ~ NoneDue(k, DirName(s)) PROVE windows[k] # None
  <2>1. Typed /\ RunTyped /\ InMemory(k) /\ k \in Keys /\ opt.home[k] = s
    BY DEF Timed, HomeKeys
  <2>2. PICK u \in opt.due[k] : ~ (u > DirName(s)) BY <1>5 DEF NoneDue
  <2>3. u \in Nat /\ u \in Steps /\ (u = 0 => InitialCondition) BY <2>1, OptFacts, StepFacts
  <2>4. DirName(s) \in Nat /\ clock[s] \in Nat BY <1>3, <2>1, StepFacts DEF Typed
  <2>5. u <= clock[s] BY <1>3, <2>2, <2>3, <2>4
  <2>6. job.mode = "scratch"
    <3>1. /\ resumed.name \in Nat /\ resumed.latest \in Nat
          /\ job.mode \in {"latest", "name", "scratch"}
      BY <2>1 DEF Typed, Counters, Jobs
    <3>2. resumed.name = 0 /\ resumed.latest = 0 BY <1>5, <3>1
    <3> QED BY <2>1, <3>1, <3>2 DEF RunTyped
  <2>7. job.begin = 0 BY <2>1, <2>6 DEF RunTyped
  <2>8. Handled(k, u) BY <1>3, <2>1, <2>3, <2>5, <2>7 DEF Handled, Arrived
  <2> QED BY <2>1, <2>3, <2>8 DEF InMemory
<1> QED BY <1>2, <1>4, <1>5

LEMMA RestartableEnd ==
    ASSUME Timed, Restartable, NEW s \in Servers, EndDump(s)
    PROVE  Restartable'
<1>1. /\ job.state = "up" /\ phase[s] = "keys" /\ left[s] = {} /\ NextStep(s)
      /\ link' = (IF IsMaster(s) /\ link = None THEN DirName(s) ELSE link)
      /\ finished' = finished \cup {<<DirName(s), s>>}
      /\ phase' = [phase EXCEPT ![s] = "fields"]
      /\ UNCHANGED <<opt, job, left, windows, lastDate, disk, dirs, resumed>>
  BY DEF EndDump, Handling
<1>2. Typed BY DEF Timed
<1>3. DiskGrows BY <1>1 DEF DiskGrows
<1>4. \A z \in Servers : /\ phase'[z] = IF z = s THEN "fields" ELSE phase[z]
                         /\ clock'[z] = IF z = s THEN clock[s] + 1 ELSE clock[z]
  BY <1>1, <1>2 DEF Typed, NextStep
<1>5. Dumping(s) /\ phase[s] # "main_directory" BY <1>1 DEF Dumping
<1>6. PICK n \in Steps : n = DirName(s) BY <1>5, DirNameFacts
<1>7. /\ n <= clock[s] /\ job.begin <= n /\ clock[s] \in Checkpoints
      /\ clock[s] # job.begin /\ todo[s] = {} /\ HomeKeys(s) # {}
  BY <1>5, <1>6, DirNameFacts
<1>8. ASSUME NEW z \in Servers PROVE DumpUnderWay(z)'
  <2>1. CASE z = s BY <1>4, <2>1, NoDump
  <2>2. CASE z # s
    <3>1. DumpUnderWay(z) BY DEF Restartable
    <3> QED BY <1>1, <1>3, <1>4, <2>2, <3>1, DumpStays
  <2> QED BY <2>1, <2>2
<1>9. FinishedDumps'
  <2> SUFFICES ASSUME NEW p \in finished'
      PROVE  /\ p[1] \in dirs' /\ HomeKeys(p[2])' # {}
             /\ \A k \in HomeKeys(p[2])' :
                   /\ Continuous(k)' => Dumped(p[1], k)'
                   /\ resumed'.name + resumed'.latest = 0 => Dumped(p[1], k)' \/ NoneDue(k, p[1])'
    BY DEF FinishedDumps
  <2>1. /\ p[1] \in dirs /\ HomeKeys(p[2]) # {}
        /\ \A k \in HomeKeys(p[2]) :
              /\ Continuous(k) => Dumped(p[1], k)
              /\ resumed.name + resumed.latest = 0 => Dumped(p[1], k) \/ NoneDue(k, p[1])
    <3>1. CASE p \in finished BY <3>1 DEF Restartable, FinishedDumps
    <3>2. CASE p = <<DirName(s), s>>
      <4>1. DirName(s) \in dirs BY <1>5 DEF Restartable, DumpUnderWay
      <4>2. ASSUME NEW k \in HomeKeys(s)
            PROVE  /\ Continuous(k) => Dumped(DirName(s), k)
                   /\ resumed.name + resumed.latest = 0 =>
                         Dumped(DirName(s), k) \/ NoneDue(k, DirName(s))
        BY <1>1, DumpEnds
      <4>3. p[1] = DirName(s) /\ p[2] = s BY <3>2
      <4> QED BY <1>7, <4>1, <4>2, <4>3
    <3> QED BY <1>1, <3>1, <3>2
  <2>2. HomeKeys(p[2])' = HomeKeys(p[2]) BY <1>1 DEF HomeKeys
  <2>3. ASSUME NEW k \in HomeKeys(p[2])
        PROVE  /\ Continuous(k)' = Continuous(k) /\ NoneDue(k, p[1])' = NoneDue(k, p[1])
               /\ Dumped(p[1], k)' = Dumped(p[1], k)
    BY <1>1, OptStays DEF NoneDue, Dumped
  <2> QED BY <1>1, <2>1, <2>2, <2>3
<1>10. Linked'
  <2>1. CASE link' = link BY <1>1, <2>1 DEF Restartable, Linked
  <2>2. CASE link' = DirName(s) BY <1>1, <2>2 DEF Linked
  <2> QED BY <1>1, <2>1, <2>2
<1>11. NamedSource' BY <1>1, <1>3, NamedStays DEF Restartable
<1>12. LatestSource'
  <2> SUFFICES ASSUME NEW z \in Servers, job.mode = "latest", HomeKeys(z) = Keys
      PROVE  /\ phase'[z] = "fields" \/ ~ IsMaster(z)' => link' # None
             /\ link' # None => job.begin <= link' /\ (link' = job.begin \/ link' < clock'[z])
             /\ \A k \in Keys : Continuous(k)' /\ windows[k] = None => link' = job.begin
    BY <1>1, OptStays DEF LatestSource
  <2>1. z = s BY <1>7, OneHome
  <2>2. /\ ~ IsMaster(s) => link # None
        /\ link # None => job.begin <= link /\ (link = job.begin \/ link < clock[s])
    BY <1>1, <2>1 DEF Restartable, LatestSource
  <2>3. \A k \in Keys : Continuous(k) => windows[k] # None
    BY <1>7, <2>1, ContinuousSeen
  <2>4. \A k \in Keys : Continuous(k)' = Continuous(k) BY <1>1, OptStays
  <2>5. n # None /\ n \in Nat /\ clock[s] \in Nat /\ job.begin \in Nat
    BY <1>2, StepFacts DEF Typed, Jobs
  <2>6. link' # None BY <1>1, <1>6, <2>2, <2>5
  <2>7. job.begin <= link' /\ (link' = job.begin \/ link' < clock[s] + 1)
    <3>1. CASE link' = link
      <4>1. link \in Nat BY <1>2, <2>6, <3>1, StepFacts DEF Typed
      <4> QED BY <2>2, <2>5, <2>6, <3>1, <4>1
    <3>2. CASE link' = n BY <1>7, <2>5, <3>2
    <3> QED BY <1>1, <1>6, <3>1, <3>2
  <2> QED BY <1>4, <2>1, <2>3, <2>4, <2>6, <2>7
<1> QED BY <1>8, <1>9, <1>10, <1>11, <1>12 DEF Restartable

LEMMA RestartableInit == Init => Restartable
<1> SUFFICES ASSUME Init PROVE Restartable OBVIOUS
<1>1. /\ \A s \in Servers : phase[s] = "fields"
      /\ finished = {} /\ link = None /\ job.mode = "scratch"
  BY DEF Init
<1> QED BY <1>1 DEF Restartable, DumpUnderWay, Dumping, FinishedDumps, Linked, NamedSource, LatestSource

LEMMA RestartableStep == Inv /\ Timed /\ Restartable /\ [Next]_vars => Restartable'
<1> SUFFICES ASSUME Inv, Timed, Restartable, [Next]_vars PROVE Restartable' OBVIOUS
<1> USE DEF fileVars, serverVars, history
<1>0. Typed /\ DiskGrows BY StepInv DEF Timed
<1>1. ASSUME NEW s \in Servers, NEW k \in Keys, ReceiveField(s, k) PROVE Restartable'
  <2>1. /\ job.state = "up" /\ phase[s] = "fields" /\ lastDate' = [lastDate EXCEPT ![s] = clock[s]]
        /\ UNCHANGED <<opt, job, clock, phase, left, disk, dirs, link, finished, resumed>>
    BY <1>1 DEF ReceiveField, Handling
  <2>2. /\ windows'[k] \in WindowRecords /\ k \in HomeKeys(s)
        /\ \A j \in Keys \ {k} : windows'[j] = windows[j]
    BY <1>1, TimedField
  <2>3. windows'[k] # None BY <2>2, MarkAssumption
  <2>4. \A z \in Servers \ {s} : lastDate'[z] = lastDate[z] BY <1>0, <2>1 DEF Typed
  <2>5. clock[s] \in Nat /\ clock[s] >= clock[s] BY <1>0 DEF Typed
  <2>6. DumpUnderWay(s)' BY <2>1, NoDump
  <2>7. \A j \in Keys \ HomeKeys(s) : windows'[j] = windows[j] BY <2>2
  <2>8. \A j \in HomeKeys(s) : windows'[j] = None => windows[j] = None BY <2>2, <2>3 DEF HomeKeys
  <2> QED BY <1>0, <2>1, <2>4, <2>5, <2>6, <2>7, <2>8, RestartableStays
<1>2. ASSUME NEW s \in Servers, NEW k \in Keys, RefuseField(s, k) PROVE Restartable'
  BY <1>2, RestartableDown DEF RefuseField
<1>3. ASSUME NEW s \in Servers, PassFlush(s) PROVE Restartable'
  <2>1. /\ job.state = "up" /\ phase[s] = "fields" /\ NextStep(s)
        /\ UNCHANGED <<opt, job, phase, left, windows, lastDate, disk, dirs, link, finished, resumed>>
    BY <1>3 DEF PassFlush, Handling
  <2>2. \A z \in Servers : clock'[z] = IF z = s THEN clock[s] + 1 ELSE clock[z]
    BY <1>0, <2>1 DEF Typed, NextStep
  <2>3. clock'[s] \in Nat /\ clock'[s] >= clock[s] BY <1>0, <2>2 DEF Typed
  <2>4. DumpUnderWay(s)' BY <2>1, NoDump
  <2> QED BY <1>0, <2>1, <2>2, <2>3, <2>4, RestartableStays
<1>4. ASSUME NEW s \in Servers, LastFlush(s) PROVE Restartable'
  <2>1. /\ job.state = "up" /\ phase[s] = "fields" /\ phase' = [phase EXCEPT ![s] = "over"]
        /\ UNCHANGED <<opt, clock, left, windows, lastDate, disk, dirs, link, finished, resumed>>
    BY <1>4 DEF LastFlush, Handling
  <2>2. job'.mode = job.mode /\ job'.begin = job.begin
    BY <1>0, <1>4 DEF LastFlush, Typed, Jobs
  <2>3. \A z \in Servers : phase'[z] = IF z = s THEN "over" ELSE phase[z] BY <1>0, <2>1 DEF Typed
  <2>4. DumpUnderWay(s)' BY <2>3, NoDump
  <2>5. clock[s] \in Nat /\ clock[s] >= clock[s] BY <1>0 DEF Typed
  <2> QED BY <1>0, <2>1, <2>2, <2>3, <2>4, <2>5, RestartableStays
<1>5. ASSUME NEW s \in Servers, BeginDump(s) PROVE Restartable' BY <1>5, RestartableBegin
<1>6. ASSUME NEW s \in Servers, MainDirectory(s) PROVE Restartable' BY <1>6, RestartableDirectory
<1>7. ASSUME NEW s \in Servers, MainDirectoryMissing(s) PROVE Restartable'
  BY <1>7, RestartableDown DEF MainDirectoryMissing
<1>8. ASSUME NEW s \in Servers, NEW k \in Keys, MakeKey(s, k) \/ DumpKey(s, k) PROVE Restartable'
  BY <1>0, <1>8, RestartableKey
<1>9. ASSUME NEW s \in Servers, NEW k \in Keys, KeyExists(s, k) PROVE Restartable'
  BY <1>9, RestartableDown DEF KeyExists
<1>10. ASSUME NEW s \in Servers, EndDump(s) PROVE Restartable' BY <1>10, RestartableEnd
<1>11. ASSUME Crash PROVE Restartable' BY <1>11, RestartableDown DEF Crash
<1>12. ASSUME RestartLatest PROVE Restartable' BY <1>12, RestartableRestart DEF RestartLatest
<1>13. ASSUME RestartNamed PROVE Restartable' BY <1>13, RestartableRestart DEF RestartNamed
<1>14. ASSUME RestartScratch PROVE Restartable' BY <1>14, RestartableRestart DEF RestartScratch
<1>15. CASE UNCHANGED vars
  <2>1. UNCHANGED <<opt, job, clock, phase, left, windows, lastDate, disk, dirs, link, finished, resumed>>
    BY <1>15 DEF vars
  <2>2. ASSUME NEW z \in Servers PROVE DumpUnderWay(z)'
    BY <1>0, <2>1, DumpStays DEF Restartable
  <2>3. resumed \in Counters /\ resumed.name + resumed.latest >= resumed.name + resumed.latest
    BY <1>0 DEF Typed, Counters
  <2>4. FinishedDumps' BY <1>0, <2>1, <2>3, FinishedStay DEF Restartable
  <2>5. NamedSource' BY <1>0, <2>1, NamedStays DEF Restartable
  <2>6. Linked' BY <2>1 DEF Restartable, Linked
  <2>7. LatestSource'
    BY <2>1, OptStays DEF Restartable, LatestSource, IsMaster
  <2> QED BY <2>2, <2>4, <2>5, <2>6, <2>7 DEF Restartable
<1> QED BY <1>1, <1>2, <1>3, <1>4, <1>5, <1>6, <1>7, <1>8, <1>9, <1>10, <1>11, <1>12,
           <1>13, <1>14, <1>15 DEF Next, Server

-----------------------------------------------------------------------------
(* The field that comes next *)

LEMMA FieldFacts ==
    ASSUME Timed, NEW s \in Servers, NEW k \in todo[s]
    PROVE  /\ k \in Keys /\ k \in HomeKeys(s) /\ opt.home[k] = s
           /\ clock[s] \in opt.due[k] /\ clock[s] \in Steps /\ clock[s] \in Nat
           /\ job.begin \in Nat /\ job.begin <= clock[s]
           /\ clock[s] = job.begin => InitialCondition
<1>1. Typed /\ Paced(s) BY DEF Timed
<1>2. k \in DueAt(s, clock[s]) BY <1>1 DEF Paced
<1>3. k \in HomeKeys(s) /\ clock[s] \in opt.due[k] BY <1>2 DEF DueAt
<1>4. k \in Keys /\ opt.home[k] = s BY <1>3 DEF HomeKeys
<1>5. clock[s] \in Steps BY <1>1, <1>3, <1>4, OptFacts
<1> QED BY <1>1, <1>3, <1>4, <1>5, StepFacts DEF Typed, Jobs, Paced

\* Fields that came earlier are in the window in memory, or came before the run.
LEMMA Earlier ==
    ASSUME Timed, NEW s \in Servers, NEW k \in todo[s], NEW u \in opt.due[k], u < clock[s]
    PROVE  /\ windows[k] # None => u <= windows[k].curr
           /\ windows[k] = None => u <= job.begin /\ (u = job.begin => ~ InitialCondition)
<1>1. /\ k \in Keys /\ opt.home[k] = s /\ clock[s] \in Nat /\ job.begin \in Nat
  BY FieldFacts
<1>2. u \in Steps /\ u \in Nat BY <1>1, OptFacts, StepFacts DEF Timed
<1>3. Arrived(k, u) BY <1>1, <1>2 DEF Arrived
<1>4. InMemory(k) BY <1>1 DEF Timed
<1>5. Handled(k, u) => windows[k] # None BY <1>2, <1>4 DEF InMemory
<1>6. windows[k] # None => u <= windows[k].curr BY <1>1, <1>2, <1>3, <1>4 DEF InMemory
<1>7. windows[k] = None => ~ (job.begin <= u /\ (u = job.begin => InitialCondition))
  BY <1>3, <1>5 DEF Handled
<1> QED BY <1>1, <1>2, <1>6, <1>7

\* The restart that a run reads, by name or where no other server moves the link
LEMMA RestartSource ==
    ASSUME Timed, Restartable, NEW s \in Servers, NEW k \in todo[s],
           job.state = "up", phase[s] = "fields", ReadRestart, job.mode # "latest" \/ OneServer
    PROVE  /\ RestartDir \in dirs /\ RestartDir \in Steps /\ RestartDir \in Nat
           /\ job.begin <= RestartDir /\ (RestartDir = job.begin \/ RestartDir < clock[s])
           /\ Continuous(k) => Dumped(RestartDir, k)
           /\ Continuous(k) /\ windows[k] = None => RestartDir = job.begin
<1>1. /\ k \in Keys /\ k \in HomeKeys(s) /\ clock[s] \in Nat /\ job.begin \in Nat
  BY FieldFacts
<1>2. job.mode \in {"latest", "name"} BY DEF Timed, Typed, Jobs, ReadRestart
<1>3. ASSUME NEW d, <<d, s>> \in finished
      PROVE  d \in dirs /\ d \in Steps /\ d \in Nat /\ (Continuous(k) => Dumped(d, k))
  <2>1. d \in dirs /\ (Continuous(k) => Dumped(d, k))
    BY <1>1, <1>3 DEF Restartable, FinishedDumps
  <2> QED BY <2>1, StepFacts DEF Timed, Typed
<1>4. CASE job.mode = "name"
  <2>1. RestartDir = job.begin BY <1>4 DEF RestartDir
  <2>2. <<job.begin, s>> \in finished BY <1>1, <1>4 DEF Restartable, NamedSource
  <2>3. job.begin <= job.begin BY <1>1
  <2> QED BY <1>3, <2>1, <2>2, <2>3
<1>5. CASE job.mode = "latest"
  <2>1. RestartDir = link BY <1>5 DEF RestartDir
  <2>2. PICK z \in Servers : HomeKeys(z) = Keys BY <1>5 DEF OneServer
  <2>3. s = z BY <1>1, <2>2, OneHome
  <2>4. /\ link # None /\ job.begin <= link /\ (link = job.begin \/ link < clock[s])
        /\ Continuous(k) /\ windows[k] = None => link = job.begin
    BY <1>1, <1>5, <2>2, <2>3 DEF Restartable, LatestSource
  <2>5. PICK y \in Servers : <<link, y>> \in finished BY <2>4 DEF Restartable, Linked
  <2>6. HomeKeys(y) # {} BY <2>5 DEF Restartable, FinishedDumps
  <2>7. y = s BY <2>2, <2>3, <2>6, OneHome
  <2> QED BY <1>3, <2>1, <2>4, <2>5, <2>7
<1> QED BY <1>2, <1>4, <1>5

\* No field is missing from the window, unless it is new.
LEMMA FieldWindow ==
    ASSUME Timed, Restartable, NEW s \in Servers, NEW k \in todo[s],
           job.state = "up", phase[s] = "fields", job.mode # "latest" \/ OneServer,
           Readable(k, clock[s])
    PROVE  LET w == Window(k, clock[s])
           IN  \/ /\ \A u \in opt.due[k] : u < clock[s] => u <= w.curr
                  /\ w.curr < clock[s] \/ (w.curr = clock[s] /\ InitialCondition)
                  /\ w.curr \in opt.due[k]
               \/ /\ w = NewWindow(clock[s]) /\ windows[k] = None
                  /\ ~ (ReadRestart /\ HasRestartKey(k))
<1>1. PICK t \in Nat : t = clock[s] /\ t \in Steps BY FieldFacts
<1>2. k \in Keys /\ job.begin \in Nat /\ (t = job.begin => InitialCondition) /\ k \in HomeKeys(s)
      /\ opt.home[k] = s
  BY <1>1, FieldFacts
<1>3. Readable(k, t) /\ k \in todo[s] BY <1>1
<1>4. CASE windows[k] # None
  <2>1. Window(k, t) = windows[k] BY <1>4 DEF Window
  <2>2. InMemory(k) BY <1>2 DEF Timed
  <2>3. windows[k].curr < clock[s] /\ windows[k].curr \in opt.due[k]
    BY <1>2, <1>4, <2>2 DEF InMemory
  <2> QED BY <1>1, <1>4, <2>1, <2>3, Earlier
<1>5. CASE windows[k] = None /\ ReadRestart /\ RestartDir \in Steps /\ Dumped(RestartDir, k)
           /\ Window(k, t) = disk[RestartDir][k]
  <2>1. PICK d \in Nat : d = RestartDir /\ d \in Steps /\ job.begin <= d /\ (d = job.begin \/ d < t)
    BY <1>1, <1>5, RestartSource
  <2>2. PICK w \in WindowRecords : w = disk[d][k] /\ w = Window(k, t)
    BY <1>2, <1>5, <2>1 DEF Timed, Typed, Dumped
  <2>3. w.curr \in Int /\ w.curr <= d /\ w.curr \in opt.due[k] /\ \A u \in opt.due[k] : u <= d => u <= w.curr
    BY <1>2, <1>5, <2>1, <2>2 DEF Timed, OnDisk, WindowRecords
  <2>4. ASSUME NEW u \in opt.due[k], u < t PROVE u <= w.curr
    <3>1. u <= job.begin BY <1>1, <1>5, <2>4, Earlier
    <3>2. u \in Nat BY <1>2, OptFacts, StepFacts DEF Timed
    <3>3. u <= d BY <1>2, <2>1, <3>1, <3>2
    <3> QED BY <2>3, <3>3
  <2>5. w.curr < t \/ (w.curr = t /\ InitialCondition)
    <3>1. CASE d < t BY <2>1, <2>3, <3>1
    <3>2. CASE d = job.begin
      <4>1. job.begin <= t BY <1>1, FieldFacts
      <4>2. CASE w.curr < t BY <4>2
      <4>3. CASE ~ (w.curr < t)
        <5>1. w.curr = t /\ t = job.begin BY <1>1, <1>2, <2>1, <2>3, <3>2, <4>1, <4>3
        <5> QED BY <1>2, <5>1
      <4> QED BY <4>2, <4>3
    <3> QED BY <2>1, <3>1, <3>2
  <2> QED BY <1>1, <2>2, <2>3, <2>4, <2>5
<1>6. CASE windows[k] = None /\ ~ (ReadRestart /\ HasRestartKey(k)) /\ Window(k, t) = NewWindow(t)
  BY <1>1, <1>6
<1> QED BY <1>1, <1>2, <1>3, <1>4, <1>5, <1>6, WindowSource

\* A field behind no gap finds room in its window, or in the next one.
LEMMA InNextWindow ==
    ASSUME Timed, Restartable, NEW s \in Servers, NEW k \in todo[s],
           job.state = "up", phase[s] = "fields", job.mode # "latest" \/ OneServer,
           Readable(k, clock[s]), ~ (clock[s] <= Window(k, clock[s]).curr),
           opt.window = "forward-offset", Dense(k)
    PROVE  InBounds(Taker(Window(k, clock[s]), clock[s]), clock[s])
<1>1. PICK t \in Nat : t = clock[s] /\ t \in Steps /\ t \in opt.due[k] BY FieldFacts
<1>2. k \in Keys BY FieldFacts
<1>3. PICK w \in WindowRecords : w = Window(k, t) /\ Ordered(w) BY <1>1, <1>2, WindowTyped
<1>4. w.start \in Int /\ w.curr \in Int /\ w.end \in Int /\ t > w.curr
      /\ w.start <= w.curr /\ w.curr <= w.end
  BY <1>1, <1>3 DEF WindowRecords, Ordered
<1>5. CASE IsWithin(w, t)
  BY <1>1, <1>3, <1>5 DEF Taker, IsWithin, InBounds
<1>6. CASE ~ IsWithin(w, t)
  <2>1. t > w.end BY <1>4, <1>6 DEF IsWithin
  <2>2. PICK p \in Nat : p = Span * Unit BY PeriodFacts
  <2>3. NextWindow(w).start = w.end /\ NextWindow(w).end = w.end + p
    <3>1. w.end % Unit = 0 BY <1>3 DEF Ordered, Aligned
    <3>2. WinEnd(w.end) = w.end + p BY <1>4, <2>2, <3>1, PeriodFacts
    <3> QED BY <3>2, NextWindowFacts
  <2>4. t <= w.end + p
    <3>1. CASE w = NewWindow(t)
      <4>1. w.end > t - Timespan /\ Timespan <= p /\ Timespan \in Nat
        BY <1>1, <2>2, <3>1, NewWindowFacts, StepAssumption DEF Dense
      <4> QED BY <1>1, <1>4, <2>2, <4>1
    <3>2. CASE w.curr \in opt.due[k] /\ \A u \in opt.due[k] : u < t => u <= w.curr
      <4>1. w.curr < t BY <1>1, <1>4
      <4>2. PICK u \in opt.due[k] : u < t /\ t <= u + p BY <1>1, <2>2, <3>2, <4>1 DEF Dense
      <4>3. u \in Nat BY <1>2, OptFacts, StepFacts DEF Timed
      <4>4. u <= w.curr BY <3>2, <4>2
      <4> QED BY <1>1, <1>4, <2>2, <4>2, <4>3, <4>4
    <3> QED BY <1>1, <1>3, <3>1, <3>2, FieldWindow
  <2>5. Taker(w, t) = NextWindow(w) BY <1>6 DEF Taker
  <2>6. InBounds(NextWindow(w), t) BY <2>1, <2>3, <2>4, <1>4, <2>2 DEF InBounds
  <2> QED BY <1>1, <1>3, <2>5, <2>6
<1> QED BY <1>5, <1>6

\* What a refusal of a field is excused by
Excused(why) ==
    /\ why # "no_directory"
    /\ why = "order" => ~ InitialCondition /\ Timespan = 0
    /\ why = "load" => opt.lib = "fstream_io" \/ \E k \in Keys : ~ Continuous(k)
    /\ why = "bounds" => opt.window = "backward-offset" \/ \E k \in Keys : ~ Dense(k)

LEMMA RefusedField ==
    ASSUME Timed, Restartable, NEW s \in Servers, NEW k \in todo[s],
           job.state = "up", phase[s] = "fields", job.mode # "latest" \/ OneServer,
           NEW why \in Refusals(k, clock[s])
    PROVE  Excused(why)
<1>1. PICK t \in Nat : t = clock[s] /\ t \in Steps BY FieldFacts
<1>2. k \in Keys BY FieldFacts
<1>3. CASE ReadRestart /\ ~ HasMainRestartDir
  <2>1. RestartDir \in dirs BY <1>3, RestartSource
  <2> QED BY <1>3, <2>1 DEF HasMainRestartDir
<1>4. CASE ~ (ReadRestart /\ ~ HasMainRestartDir) /\ windows[k] = None /\ ReadRestart
           /\ HasRestartKey(k) /\ ~ Loads(k)
  <2>1. why = "load" BY <1>4 DEF Refusals
  <2>2. Continuous(k) => disk[RestartDir][k] # Partial BY <1>4, RestartSource DEF Dumped
  <2>3. opt.lib # "fstream_io" => FileWords(2) = 2 BY DEF FileWords
  <2>4. opt.lib = "fstream_io" \/ ~ Continuous(k) BY <1>4, <2>2, <2>3 DEF Loads
  <2> QED BY <1>2, <2>1, <2>4 DEF Excused
<1>5. CASE ~ (ReadRestart /\ ~ HasMainRestartDir)
           /\ ~ (windows[k] = None /\ ReadRestart /\ HasRestartKey(k) /\ ~ Loads(k))
  <2>1. why \in {"order", "bounds"} /\ Readable(k, t) /\ ~ Repeated(k, t)
    BY <1>1, <1>5 DEF Refusals, Readable
  <2>2. PICK w \in WindowRecords : w = Window(k, t) BY <1>1, <1>2, <2>1, WindowTyped
  <2>3. w.curr \in Int BY DEF WindowRecords
  <2>4. ~ (InitialCondition /\ t = w.curr) BY <2>1, <2>2 DEF Repeated
  <2>5. CASE t <= w.curr
    <3>1. why = "order" BY <1>1, <1>5, <2>1, <2>2, <2>5 DEF Refusals
    <3>2. ~ (w.curr < t \/ (w.curr = t /\ InitialCondition)) BY <1>1, <2>3, <2>4, <2>5
    <3>3. w = NewWindow(t) BY <1>1, <2>1, <2>2, <3>2, FieldWindow
    <3>4. w.curr = t - Timespan BY <1>1, <3>3, NewWindowFacts
    <3>5. Timespan \in Nat /\ Timespan = 0 /\ t = w.curr BY <1>1, <2>5, <3>4, StepAssumption
    <3> QED BY <2>4, <3>1, <3>5 DEF Excused
  <2>6. CASE ~ (t <= w.curr)
    <3>1. why = "bounds" /\ ~ InBounds(Taker(w, t), t)
      BY <1>1, <1>5, <2>1, <2>2, <2>6 DEF Refusals
    <3>2. opt.window # "forward-offset" \/ ~ Dense(k)
      BY <1>1, <2>1, <2>2, <2>6, <3>1, InNextWindow
    <3>3. opt.window \in {"forward-offset", "backward-offset"}
      BY OptionsAssumption DEF Timed, Typed
    <3> QED BY <1>2, <3>1, <3>2, <3>3 DEF Excused
  <2> QED BY <2>5, <2>6
<1> QED BY <1>3, <1>4, <1>5

LEMMA AcceptedStep ==
    Inv /\ Timed /\ Restartable /\ ResumeAccepted /\ [Next]_vars => ResumeAccepted'
<1> SUFFICES ASSUME Timed, Restartable, ResumeAccepted, [Next]_vars PROVE ResumeAccepted' OBVIOUS
<1> USE DEF fileVars, serverVars, history
<1>1. ASSUME opt' = opt PROVE \A why : Excused(why)' = Excused(why)
  BY <1>1 DEF Excused, Continuous, Before, Dense
<1>2. job \in Jobs BY DEF Timed, Typed
<1>3. ASSUME job'.state # "down" PROVE ResumeAccepted' BY <1>3 DEF ResumeAccepted
<1>4. ASSUME NEW why, GoDown(why), opt' = opt, job.mode # "latest" \/ OneServer => Excused(why)
      PROVE  ResumeAccepted'
  <2>1. job'.why = why /\ job'.mode = job.mode BY <1>2, <1>4 DEF GoDown, Jobs
  <2>2. OneServer' = OneServer BY <1>4, OptStays
  <2>3. (job.mode # "latest" \/ OneServer) => Excused(why)' BY <1>1, <1>4
  <2> QED BY <2>1, <2>2, <2>3 DEF ResumeAccepted, Excused
<1>5. ASSUME NEW s \in Servers, NEW k \in Keys, RefuseField(s, k) PROVE ResumeAccepted'
  <2>1. PICK why \in Refusals(k, clock[s]) : GoDown(why) BY <1>5 DEF RefuseField
  <2>2. /\ job.state = "up" /\ phase[s] = "fields" /\ k \in todo[s] /\ opt' = opt
    BY <1>5 DEF RefuseField, Handling
  <2>3. job.mode # "latest" \/ OneServer => Excused(why) BY <2>2, RefusedField
  <2> QED BY <1>4, <2>1, <2>2, <2>3
<1>6. ASSUME NEW s \in Servers, MainDirectoryMissing(s) PROVE ResumeAccepted'
  BY <1>4, <1>6 DEF MainDirectoryMissing, Excused
<1>7. ASSUME NEW s \in Servers, NEW k \in Keys, KeyExists(s, k) PROVE ResumeAccepted'
  BY <1>4, <1>7 DEF KeyExists, Excused
<1>8. ASSUME Crash PROVE ResumeAccepted' BY <1>4, <1>8 DEF Crash, Excused
<1>9. ASSUME NEW s \in Servers, NEW k \in Keys,
             ReceiveField(s, k) \/ MakeKey(s, k) \/ DumpKey(s, k)
      PROVE  ResumeAccepted'
  BY <1>3, <1>9 DEF ReceiveField, MakeKey, DumpKey, Handling
<1>10. ASSUME NEW s \in Servers, PassFlush(s) \/ BeginDump(s) \/ MainDirectory(s) \/ EndDump(s)
       PROVE  ResumeAccepted'
  BY <1>3, <1>10 DEF PassFlush, BeginDump, MainDirectory, EndDump, Handling
<1>11. ASSUME NEW s \in Servers, LastFlush(s) PROVE ResumeAccepted'
  BY <1>2, <1>3, <1>11 DEF LastFlush, Handling, Jobs
<1>12. ASSUME RestartLatest \/ RestartNamed \/ RestartScratch PROVE ResumeAccepted'
  BY <1>3, <1>12 DEF RestartLatest, RestartNamed, RestartScratch, Restart
<1>13. CASE UNCHANGED vars
  <2>1. opt' = opt /\ job' = job BY <1>13 DEF vars
  <2>2. OneServer' = OneServer BY <2>1, OptStays
  <2> QED BY <1>1, <2>1, <2>2 DEF ResumeAccepted, Excused
<1> QED BY <1>5, <1>6, <1>7, <1>8, <1>9, <1>10, <1>11, <1>12, <1>13 DEF Next, Server

\* A run that reads a restart is turned away for none but the reasons that
\* ResumeAccepted names: what a server finds on disk under "latest" or under the
\* name of a finished dump is a directory that is there, can be loaded, is not
\* ahead of the first field and has room for it.
THEOREM RunsResume == Spec => []ResumeAccepted
<1>1. Init => Inv /\ Timed /\ Restartable /\ ResumeAccepted
  <2>1. Init => ResumeAccepted BY DEF Init, ResumeAccepted
  <2> QED BY <2>1, InitInv, TimedInit, RestartableInit
<1>2. Inv /\ Timed /\ Restartable /\ ResumeAccepted /\ [Next]_vars =>
        (Inv /\ Timed /\ Restartable /\ ResumeAccepted)'
  BY StepInv, TimedStep, RestartableStep, AcceptedStep
<1> QED BY <1>1, <1>2, PTL DEF Spec

-----------------------------------------------------------------------------
(* Windows *)

\* What the job has read so far keeps the windows of k whole, of either type.
Kept(k) ==
    /\ resumed.latest = 0 \/ (OneServer /\ Continuous(k))
    /\ resumed.name + resumed.latest <= 1 \/ Continuous(k)

Forward == opt.window = "forward-offset"

\* A window has all fields between its start and its current point,
Filled(k, w) == w.pts = {u \in opt.due[k] : w.start < u /\ u <= w.curr}

\* is one of those the job has when it never stops,
Lined(k, w) ==
    /\ Begin(k) \in Int /\ Boundary(k, w.end)
    /\ w.start = IF Begin(k) + Span * Unit > w.end THEN Begin(k) ELSE w.end - Span * Unit

\* and what came before it has been passed on.
Sent(k, u) == \E e \in emitted : e.key = k /\ u \in e.pts
Past(k, w) == \A u \in opt.due[k] : Begin(k) < u /\ u <= w.start => Sent(k, u)

WholeWindow(k, w) == Filled(k, w) /\ (Forward => Lined(k, w) /\ Past(k, w))

WholeWindows ==
    \A k \in Keys : Kept(k) =>
        /\ windows[k] # None => WholeWindow(k, windows[k])
        /\ \A d \in Steps : Dumped(d, k) => WholeWindow(k, disk[d][k])

\* A server that is over has passed all on.
OverSent ==
    /\ job.state = "done" => \A s \in Servers : phase[s] = "over"
    /\ \A k \in Keys :
         Carried(k) /\ phase[opt.home[k]] = "over" /\ windows[k] # None =>
            \A u \in opt.due[k] : u > Begin(k) => Sent(k, u)

\* The first window of a key
LEMMA FreshWhole ==
    ASSUME Timed, NEW k \in Keys, NEW t \in opt.due[k], \A u \in opt.due[k] : t <= u
    PROVE  WholeWindow(k, NewWindow(t))
<1>1. t \in Steps /\ t \in Nat /\ \A u \in opt.due[k] : u \in Nat
  BY OptFacts, StepFacts DEF Timed
<1>2. PICK b \in Int : b = t - Timespan BY <1>1, StepAssumption
<1>3. Begin(k) = b
  <2>1. PICK m : m = (CHOOSE v \in opt.due[k] : \A u \in opt.due[k] : v <= u) OBVIOUS
  <2>2. m \in opt.due[k] /\ \A u \in opt.due[k] : m <= u BY <2>1
  <2>3. m \in Nat /\ m <= t /\ t <= m BY <1>1, <2>2
  <2>4. m = t BY <1>1, <2>3
  <2> QED BY <1>2, <2>1, <2>4 DEF Begin
<1>4. PICK p \in Nat : p = Span * Unit /\ p > 0 BY PeriodFacts
<1>5. PICK a \in Int : a = PeriodStart(b) /\ a <= b BY <1>2, PeriodStartFacts
<1>6. PICK w \in WindowRecords : /\ w = NewWindow(t) /\ w.start = b /\ w.curr = b /\ w.end = a + p
                                 /\ w.pts = {} /\ w.end > b
  BY <1>1, <1>2, <1>4, <1>5, NewWindowFacts
<1>7. Filled(k, w)
  <2>1. \A u \in opt.due[k] : ~ (b < u /\ u <= b) BY <1>1, <1>2
  <2> QED BY <1>6, <2>1 DEF Filled
<1>8. Boundary(k, w.end)
  <2>1. (w.end - a) % p = 0
    <3>1. w.end - a = p * 1 BY <1>4, <1>5, <1>6
    <3>2. (p * 1) % p = 0 BY <1>4, MultipleMod
    <3> QED BY <3>1, <3>2
  <2> QED BY <1>3, <1>4, <1>5, <1>6, <2>1 DEF Boundary
<1>9. w.start = IF b + p > w.end THEN b ELSE w.end - p
  <2>1. CASE a < b
    <3>1. b + p > a + p BY <1>2, <1>4, <1>5, <2>1
    <3> QED BY <1>6, <3>1
  <2>2. CASE a = b
    <3>1. ~ (b + p > a + p) /\ (a + p) - p = b BY <1>2, <1>4, <1>5, <2>2
    <3> QED BY <1>6, <3>1
  <2> QED BY <1>2, <1>5, <2>1, <2>2
<1>10. Lined(k, w) BY <1>2, <1>3, <1>4, <1>8, <1>9 DEF Lined
<1>11. Past(k, w)
  <2>1. \A u \in opt.due[k] : ~ (b < u /\ u <= b) BY <1>1, <1>2
  <2> QED BY <1>3, <1>6, <2>1 DEF Past
<1> QED BY <1>6, <1>7, <1>10, <1>11 DEF WholeWindow

\* A key whose windows are kept whole starts afresh with its first field only.
LEMMA FirstField ==
    ASSUME Timed, Restartable, NEW s \in Servers, NEW k \in todo[s],
           job.state = "up", phase[s] = "fields", Kept(k),
           windows[k] = None, ~ (ReadRestart /\ HasRestartKey(k))
    PROVE  \A u \in opt.due[k] : clock[s] <= u
<1> SUFFICES ASSUME NEW u \in opt.due[k], ~ (clock[s] <= u) PROVE FALSE OBVIOUS
<1>1. k \in Keys /\ clock[s] \in Nat /\ job.begin \in Nat BY FieldFacts
<1>2. u \in Nat BY <1>1, OptFacts, StepFacts DEF Timed
<1>3. u < clock[s] BY <1>1, <1>2
<1>4. u <= job.begin /\ (u = job.begin => ~ InitialCondition) BY <1>3, Earlier
<1>5. resumed \in Counters /\ job.mode \in {"latest", "name", "scratch"} /\ RunTyped
  BY DEF Timed, Typed, Jobs
<1>6. CASE job.mode = "scratch"
  <2>1. job.begin = 0 BY <1>5, <1>6 DEF RunTyped
  <2>2. u = 0 BY <1>2, <1>4, <2>1
  <2> QED BY <1>1, <1>4, <2>1, <2>2, OptFacts DEF Timed
<1>7. CASE job.mode = "name"
  <2>1. RestartDir = job.begin /\ ReadRestart BY <1>7 DEF RestartDir, ReadRestart
  <2>2. ~ Dumped(job.begin, k) BY <2>1 DEF HasRestartKey, Dumped
  <2>3. ~ Continuous(k) BY <1>7, <2>1, <2>2, RestartSource
  <2>4. resumed.name + resumed.latest = 1
    BY <1>5, <1>7, <2>3 DEF Kept, RunTyped, Counters
  <2>5. NoneDue(k, job.begin) BY <1>1, <1>7, <2>2, <2>4 DEF Restartable, NamedSource
  <2>6. u > job.begin BY <2>5 DEF NoneDue
  <2> QED BY <1>1, <1>2, <1>4, <2>6
<1>8. CASE job.mode = "latest"
  <2>1. ReadRestart BY <1>8 DEF ReadRestart
  <2>2. OneServer /\ Continuous(k)
    <3>1. resumed.latest \in Nat /\ resumed.latest > 0 BY <1>5, <1>8 DEF RunTyped, Counters
    <3>2. resumed.latest # 0 BY <3>1
    <3> QED BY <3>2 DEF Kept
  <2>3. Dumped(RestartDir, k) BY <2>1, <2>2, RestartSource
  <2> QED BY <2>1, <2>3 DEF HasRestartKey, Dumped
<1> QED BY <1>5, <1>6, <1>7, <1>8

\* The window that the next field finds
LEMMA NextField ==
    ASSUME Timed, Restartable, WholeWindows, NEW s \in Servers, NEW k \in todo[s],
           job.state = "up", phase[s] = "fields", Kept(k), Readable(k, clock[s])
    PROVE  /\ WholeWindow(k, Window(k, clock[s]))
           /\ \A u \in opt.due[k] : u < clock[s] => u <= Window(k, clock[s]).curr
<1>1. PICK t \in Nat : t = clock[s] /\ t \in Steps /\ t \in opt.due[k] BY FieldFacts
<1>2. k \in Keys BY FieldFacts
<1>3. job.mode # "latest" \/ OneServer
  <2>1. CASE job.mode = "latest"
    <3>1. resumed.latest \in Nat /\ resumed.latest > 0 BY <2>1 DEF Timed, Typed, RunTyped, Counters
    <3>2. resumed.latest # 0 BY <3>1
    <3> QED BY <3>2 DEF Kept
  <2> QED BY <2>1
<1>4. CASE windows[k] = None /\ ~ (ReadRestart /\ HasRestartKey(k))
  <2>1. \A u \in opt.due[k] : t <= u BY <1>1, <1>4, FirstField
  <2>2. Window(k, t) = NewWindow(t) BY <1>4 DEF Window
  <2>3. WholeWindow(k, NewWindow(t)) BY <1>1, <1>2, <2>1, FreshWhole
  <2>4. \A u \in opt.due[k] : ~ (u < t)
    <3>1. \A u \in opt.due[k] : u \in Nat BY <1>2, OptFacts, StepFacts DEF Timed
    <3> QED BY <1>1, <2>1, <3>1
  <2> QED BY <1>1, <2>2, <2>3, <2>4
<1>5. CASE ~ (windows[k] = None /\ ~ (ReadRestart /\ HasRestartKey(k)))
  <2>1. \A u \in opt.due[k] : u < t => u <= Window(k, t).curr
    BY <1>1, <1>3, <1>5, FieldWindow
  <2>2. WholeWindow(k, Window(k, t))
    <3>1. CASE windows[k] # None BY <1>2, <3>1 DEF WholeWindows, Window
    <3>2. CASE windows[k] = None
      <4>1. RestartDir \in Steps /\ Dumped(RestartDir, k) /\ Window(k, t) = disk[RestartDir][k]
        BY <1>1, <1>2, <1>5, <3>2, WindowSource
      <4> QED BY <1>2, <4>1 DEF WholeWindows
    <3> QED BY <3>1, <3>2
  <2> QED BY <1>1, <2>1, <2>2
<1> QED BY <1>4, <1>5

\* The window that takes the field in has every field up to it.
LEMMA TakerFilled ==
    ASSUME Timed, NEW k \in Keys, NEW t \in opt.due[k], NEW w \in WindowRecords, Ordered(w),
           Filled(k, w), \A u \in opt.due[k] : u < t => u <= w.curr, t > w.curr,
           InBounds(Taker(w, t), t)
    PROVE  Filled(k, Counted(Taker(w, t), t))
<1>1. t \in Steps /\ t \in Nat /\ \A u \in opt.due[k] : u \in Nat
  BY OptFacts, StepFacts DEF Timed
<1>2. /\ w.start \in Int /\ w.curr \in Int /\ w.end \in Int
      /\ w.start <= w.curr /\ w.curr <= w.end
  BY DEF WindowRecords, Ordered
<1>3. CASE IsWithin(w, t)
  <2>1. Taker(w, t) = w BY <1>3 DEF Taker
  <2>2. w.start < t BY <2>1 DEF InBounds
  <2>3. /\ Counted(w, t).start = w.start /\ Counted(w, t).curr = t
        /\ Counted(w, t).pts = w.pts \cup {t}
    BY <1>1, CountedFacts
  <2>4. \A u \in opt.due[k] : (w.start < u /\ u <= t) <=> ((w.start < u /\ u <= w.curr) \/ u = t)
    BY <1>1, <1>2, <2>2
  <2>5. w.pts \cup {t} = {u \in opt.due[k] : w.start < u /\ u <= t} BY <2>4 DEF Filled
  <2> QED BY <2>1, <2>3, <2>5 DEF Filled
<1>4. CASE ~ IsWithin(w, t)
  <2>1. PICK x \in WindowRecords : x = Taker(w, t) /\ x.start = w.end /\ x.pts = {}
    BY <1>4, NextWindowFacts DEF Taker
  <2>2. w.end < t BY <2>1 DEF InBounds
  <2>3. /\ Counted(x, t).start = w.end /\ Counted(x, t).curr = t /\ Counted(x, t).pts = {t}
    BY <1>1, <2>1, CountedFacts
  <2>4. \A u \in opt.due[k] : (w.end < u /\ u <= t) <=> u = t BY <1>1, <1>2, <2>2
  <2>5. {t} = {u \in opt.due[k] : w.end < u /\ u <= t} BY <2>4
  <2> QED BY <2>1, <2>3, <2>5 DEF Filled
<1> QED BY <1>3, <1>4

\* The next window begins where the last one ends, a whole number of periods on.
LEMMA TakerLined ==
    ASSUME NEW k \in Keys, NEW t \in Steps, NEW w \in WindowRecords, Ordered(w), Lined(k, w)
    PROVE  Lined(k, Counted(Taker(w, t), t))
<1>1. CASE IsWithin(w, t)
  <2>1. Taker(w, t) = w BY <1>1 DEF Taker
  <2>2. Counted(w, t).start = w.start /\ Counted(w, t).end = w.end BY CountedFacts
  <2> QED BY <2>1, <2>2 DEF Lined
<1>2. CASE ~ IsWithin(w, t)
  <2>1. PICK x \in WindowRecords : x = Taker(w, t) /\ x.start = w.end /\ x.end = WinEnd(w.end)
    BY <1>2, NextWindowFacts DEF Taker
  <2>2. Counted(x, t).start = w.end /\ Counted(x, t).end = WinEnd(w.end) BY <2>1, CountedFacts
  <2>3. PICK p \in Nat \ {0} : p = Span * Unit BY PeriodFacts
  <2>4. PICK e \in Int : e = w.end /\ e % Unit = 0 BY DEF WindowRecords, Ordered, Aligned
  <2>5. WinEnd(w.end) = e + p BY <2>3, <2>4, PeriodFacts
  <2>6. PICK b \in Int : b = Begin(k) BY DEF Lined
  <2>7. PICK a \in Int : a = PeriodStart(b) BY PeriodStartFacts
  <2>8. e > b /\ (e - a) % p = 0 BY <2>3, <2>4, <2>6, <2>7 DEF Lined, Boundary
  <2>9. ((e + p) - a) % p = 0
    <3>1. PICK c \in Int : c = e - a OBVIOUS
    <3>2. (c + p) % p = 0 BY <2>8, <3>1, AddPeriod
    <3>3. (e + p) - a = c + p BY <3>1
    <3> QED BY <3>2, <3>3
  <2>10. e + p > b /\ ~ (b + p > e + p) /\ (e + p) - p = e BY <2>8
  <2>11. Boundary(k, e + p) BY <2>3, <2>6, <2>7, <2>9, <2>10 DEF Boundary
  <2> QED BY <2>1, <2>2, <2>3, <2>4, <2>5, <2>6, <2>10, <2>11 DEF Lined
<1> QED BY <1>1, <1>2

\* A window that is left with all its fields is emitted whole.
LEMMA EmissionWhole ==
    ASSUME NEW k \in Keys, NEW w, Filled(k, w), Lined(k, w),
           \A u \in opt.due[k] : w.start < u => (u <= w.end <=> u <= w.curr),
           NEW e \in Emission(k, w)
    PROVE  e.key = k /\ Whole(e)
<1>1. e.key = k /\ e.start = w.start /\ e.end = w.end /\ e.pts = w.pts BY DEF Emission
<1>2. {u \in opt.due[k] : w.start < u /\ u <= w.curr} = {u \in opt.due[k] : w.start < u /\ u <= w.end}
  OBVIOUS
<1> QED BY <1>1, <1>2 DEF Whole, Filled, Lined

\* All fields of an emitted window are sent.
LEMMA EmissionSent ==
    ASSUME NEW k \in Keys, NEW w, NEW u \in w.pts, Emission(k, w) \subseteq emitted'
    PROVE  Sent(k, u)'
<1>1. PICK e : e = [key |-> k, start |-> w.start, end |-> w.end, pts |-> w.pts] OBVIOUS
<1>2. e \in emitted' BY <1>1 DEF Emission
<1>3. e.key = k /\ u \in e.pts BY <1>1
<1> QED BY <1>2, <1>3 DEF Sent

LEMMA SentStays ==
    ASSUME emitted \subseteq emitted', NEW k, NEW u, Sent(k, u)
    PROVE  Sent(k, u)'
BY DEF Sent

\* ... also the window that takes a field in
LEMMA TakerPast ==
    ASSUME Timed, emitted \subseteq emitted', NEW k \in Keys, NEW t \in opt.due[k],
           NEW w \in WindowRecords, Ordered(w), Filled(k, w), Past(k, w), t > w.curr,
           \A u \in opt.due[k] : u < t => u <= w.curr, InBounds(Taker(w, t), t),
           ~ IsWithin(w, t) => Emission(k, w) \subseteq emitted',
           NEW u \in opt.due[k], Begin(k) < u, u <= Counted(Taker(w, t), t).start
    PROVE  Sent(k, u)'
<1>1. t \in Steps /\ t \in Nat /\ u \in Nat BY OptFacts, StepFacts DEF Timed
<1>2. CASE IsWithin(w, t)
  <2>1. Counted(Taker(w, t), t).start = w.start BY <1>1, <1>2, CountedFacts DEF Taker
  <2>2. Sent(k, u) BY <2>1 DEF Past
  <2> QED BY <2>2, SentStays
<1>3. CASE ~ IsWithin(w, t)
  <2>1. PICK x \in WindowRecords : x = Taker(w, t) /\ x.start = w.end
    BY <1>3, NextWindowFacts DEF Taker
  <2>2. Counted(x, t).start = w.end /\ w.end < t BY <1>1, <2>1, CountedFacts DEF InBounds
  <2>3. w.start \in Int /\ w.end \in Int /\ w.curr \in Int BY DEF WindowRecords
  <2>4. CASE u <= w.start
    <3>1. Sent(k, u) BY <2>4 DEF Past
    <3> QED BY <3>1, SentStays
  <2>5. CASE ~ (u <= w.start)
    <3>1. w.start < u /\ u < t BY <1>1, <2>1, <2>2, <2>3, <2>5
    <3>2. u \in w.pts BY <3>1 DEF Filled
    <3> QED BY <1>3, <3>2, EmissionSent
  <2> QED BY <2>4, <2>5
<1> QED BY <1>2, <1>3

LEMMA WholeFrame ==
    ASSUME opt' = opt, emitted \subseteq emitted', NEW k \in Keys, NEW w, WholeWindow(k, w)
    PROVE  WholeWindow(k, w)'
<1>1. Begin(k)' = Begin(k) /\ Forward' = Forward BY DEF Begin, Forward
<1>2. Filled(k, w)' = Filled(k, w) BY DEF Filled
<1>3. Lined(k, w)' = Lined(k, w) BY <1>1 DEF Lined, Boundary
<1>4. Past(k, w) => Past(k, w)' BY <1>1, SentStays DEF Past
<1> QED BY <1>1, <1>2, <1>3, <1>4 DEF WholeWindow

\* What the job has read only grows.
LEMMA KeptStays ==
    ASSUME opt' = opt, resumed \in Counters, resumed' \in Counters,
           resumed'.latest >= resumed.latest, resumed'.name >= resumed.name, NEW k
    PROVE  /\ Kept(k)' => Kept(k)
           /\ Carried(k)' => Carried(k)
           /\ Carried(k) <=> Forward /\ Kept(k)
<1>1. OneServer' = OneServer /\ Continuous(k)' = Continuous(k) BY OptStays
<1>2. /\ resumed.latest \in Nat /\ resumed.name \in Nat
      /\ resumed'.latest \in Nat /\ resumed'.name \in Nat
  BY DEF Counters
<1>3. /\ resumed'.latest = 0 => resumed.latest = 0
      /\ resumed'.name + resumed'.latest <= 1 => resumed.name + resumed.latest <= 1
  BY <1>2
<1> QED BY <1>1, <1>3 DEF Kept, Carried, Forward

Counting == /\ resumed \in Counters /\ resumed' \in Counters
            /\ resumed'.latest >= resumed.latest /\ resumed'.name >= resumed.name

LEMMA WindowsFrame ==
    ASSUME WholeWindows, opt' = opt, Counting, emitted \subseteq emitted',
           \A k \in Keys : windows'[k] # None =>
              windows'[k] = windows[k] \/ (Kept(k) => WholeWindow(k, windows[k])'),
           \A d \in Steps, k \in Keys : Dumped(d, k)' =>
              \/ Dumped(d, k) /\ disk'[d][k] = disk[d][k]
              \/ windows[k] # None /\ disk'[d][k] = windows[k]
    PROVE  WholeWindows'
<1> SUFFICES ASSUME NEW k \in Keys, Kept(k)'
    PROVE  /\ windows'[k] # None => WholeWindow(k, windows[k])'
           /\ \A d \in Steps : Dumped(d, k)' => WholeWindow(k, disk[d][k])'
  BY DEF WholeWindows
<1>1. Kept(k) BY KeptStays DEF Counting
<1>2. ASSUME windows[k] # None, NEW w, w = windows[k] PROVE WholeWindow(k, w)'
  BY <1>1, <1>2, WholeFrame DEF WholeWindows
<1>3. ASSUME windows'[k] # None PROVE WholeWindow(k, windows[k])'
  <2>1. CASE windows'[k] = windows[k]
    <3>1. PICK w : w = windows[k] /\ w = windows'[k] BY <2>1
    <3>2. WholeWindow(k, w)' BY <1>2, <1>3, <3>1
    <3> QED BY <3>1, <3>2
  <2>2. CASE Kept(k) => WholeWindow(k, windows[k])' BY <1>1, <2>2
  <2> QED BY <1>3, <2>1, <2>2
<1>4. ASSUME NEW d \in Steps, Dumped(d, k)' PROVE WholeWindow(k, disk[d][k])'
  <2>1. PICK w : w = disk'[d][k] OBVIOUS
  <2>2. CASE Dumped(d, k) /\ disk'[d][k] = disk[d][k]
    <3>1. WholeWindow(k, w) BY <1>1, <2>1, <2>2 DEF WholeWindows
    <3>2. WholeWindow(k, w)' BY <3>1, WholeFrame
    <3> QED BY <2>1, <3>2
  <2>3. CASE windows[k] # None /\ disk'[d][k] = windows[k]
    <3>1. WholeWindow(k, w)' BY <1>2, <2>1, <2>3
    <3> QED BY <2>1, <3>1
  <2> QED BY <1>4, <2>2, <2>3
<1> QED BY <1>3, <1>4

LEMMA EmittedFrame ==
    ASSUME EmittedWhole, opt' = opt, Counting,
           \A e \in emitted' : e \in emitted \/ (Carried(e.key) => Whole(e))
    PROVE  EmittedWhole'
<1> SUFFICES ASSUME NEW e \in emitted', Carried(e.key)' PROVE Whole(e)'
  BY DEF EmittedWhole
<1>1. Carried(e.key) BY KeptStays DEF Counting
<1>2. Whole(e) BY <1>1 DEF EmittedWhole
<1>3. Begin(e.key)' = Begin(e.key) BY DEF Begin
<1> QED BY <1>2, <1>3 DEF Whole, Boundary

LEMMA OverFrame ==
    ASSUME Typed, OverSent, opt' = opt, Counting, emitted \subseteq emitted', job'.state # "done",
           \A k \in Keys : phase'[opt.home[k]] = "over" =>
              phase[opt.home[k]] = "over" /\ windows'[k] = windows[k]
    PROVE  OverSent'
<1> SUFFICES ASSUME NEW k \in Keys, Carried(k)', phase'[opt.home[k]] = "over", windows'[k] # None,
                    NEW u \in opt.due[k], u > Begin(k)
    PROVE  Sent(k, u)'
  <2>1. \A k \in Keys : Begin(k)' = Begin(k) BY DEF Begin
  <2> QED BY <2>1 DEF OverSent
<1>1. Carried(k) BY KeptStays DEF Counting
<1>2. Sent(k, u) BY <1>1 DEF OverSent
<1> QED BY <1>2, SentStays

\* The window that a field leaves behind, if its key has been kept
LEMMA LeftWhole ==
    ASSUME Timed, Restartable, WholeWindows, NEW s \in Servers, NEW k \in todo[s],
           job.state = "up", phase[s] = "fields", Readable(k, clock[s]),
           ~ (clock[s] <= Window(k, clock[s]).curr), ~ IsWithin(Window(k, clock[s]), clock[s]),
           NEW e \in Emission(k, Window(k, clock[s])), Carried(e.key)
    PROVE  Whole(e)
<1>1. PICK t \in Nat : t = clock[s] /\ t \in Steps /\ t \in opt.due[k] BY FieldFacts
<1>2. k \in Keys BY FieldFacts
<1>3. PICK w \in WindowRecords : w = Window(k, t) /\ Ordered(w) BY <1>1, <1>2, WindowTyped
<1>4. /\ w.start \in Int /\ w.curr \in Int /\ w.end \in Int /\ t > w.curr
      /\ w.start <= w.curr /\ w.curr <= w.end
  BY <1>1, <1>3 DEF WindowRecords, Ordered
<1>5. e.key = k BY <1>1, <1>3 DEF Emission
<1>6. Kept(k) /\ Forward BY <1>5 DEF Carried, Kept, Forward
<1>7. WholeWindow(k, w) /\ \A u \in opt.due[k] : u < t => u <= w.curr
  BY <1>1, <1>3, <1>6, NextField
<1>8. ~ (w.start < t /\ t <= w.end) BY <1>1, <1>3, <1>6 DEF IsWithin, Forward
<1>9. t > w.end BY <1>4, <1>8
<1>10. \A u \in opt.due[k] : u <= w.end <=> u <= w.curr
  <2>1. \A u \in opt.due[k] : u \in Nat BY <1>2, OptFacts, StepFacts DEF Timed
  <2> QED BY <1>4, <1>7, <1>9, <2>1
<1> QED BY <1>1, <1>2, <1>3, <1>6, <1>7, <1>10, EmissionWhole DEF WholeWindow

LEMMA WholeField ==
    ASSUME Timed, Restartable, WholeWindows, EmittedWhole, OverSent,
           NEW s \in Servers, NEW k \in Keys, ReceiveField(s, k)
    PROVE  WholeWindows' /\ EmittedWhole' /\ OverSent'
<1>1. PICK t : t = clock[s] OBVIOUS
<1>2. /\ job.state = "up" /\ phase[s] = "fields" /\ k \in todo[s] /\ Refusals(k, t) = {}
      /\ UNCHANGED <<opt, job, phase, disk, resumed>>
  BY <1>1 DEF ReceiveField, Handling, fileVars
<1>3. t \in Nat /\ t \in Steps /\ t \in opt.due[k] /\ opt.home[k] = s BY <1>1, <1>2, FieldFacts
<1>4. Readable(k, t) BY <1>2 DEF Readable
<1>5. PICK w \in WindowRecords : w = Window(k, t) /\ Ordered(w) BY <1>3, <1>4, WindowTyped
<1>6. PICK v : v = IF Repeated(k, t) THEN w ELSE Counted(Taker(w, t), t) OBVIOUS
<1>7. /\ windows' = [windows EXCEPT ![k] = v]
      /\ emitted' = emitted \cup
            (IF Repeated(k, t) \/ IsWithin(w, t) THEN {} ELSE Emission(k, w))
  <2>1. CASE Repeated(k, t) BY <1>1, <1>5, <1>6, <2>1 DEF ReceiveField
  <2>2. CASE ~ Repeated(k, t) BY <1>1, <1>5, <1>6, <2>2 DEF ReceiveField
  <2> QED BY <2>1, <2>2
<1>8. windows'[k] = v /\ \A j \in Keys \ {k} : windows'[j] = windows[j]
  BY <1>7 DEF Timed, Typed
<1>9. Counting
  <2>1. resumed \in Counters BY DEF Timed, Typed
  <2> QED BY <1>2, <2>1 DEF Counting, Counters
<1>10. ~ Repeated(k, t) => ~ (t <= w.curr) /\ InBounds(Taker(w, t), t)
  BY <1>2, <1>5 DEF Refusals
<1>11. w.curr \in Int BY DEF WindowRecords
<1>12. ASSUME Kept(k) PROVE WholeWindow(k, v)'
  <2>1. WholeWindow(k, w) /\ \A u \in opt.due[k] : u < t => u <= w.curr
    BY <1>1, <1>2, <1>4, <1>5, <1>12, NextField
  <2>2. CASE Repeated(k, t)
    <3>1. WholeWindow(k, w)' BY <1>2, <1>7, <2>1, WholeFrame
    <3> QED BY <1>6, <2>2, <3>1
  <2>3. CASE ~ Repeated(k, t)
    <3>1. v = Counted(Taker(w, t), t) /\ t > w.curr /\ InBounds(Taker(w, t), t)
      BY <1>3, <1>6, <1>10, <1>11, <2>3
    <3>2. Filled(k, v) BY <1>3, <1>5, <2>1, <3>1, TakerFilled DEF WholeWindow
    <3>3. ASSUME Forward PROVE Lined(k, v) BY <1>3, <1>5, <2>1, <3>1, <3>3, TakerLined DEF WholeWindow
    <3>4. emitted \subseteq emitted' /\ (~ IsWithin(w, t) => Emission(k, w) \subseteq emitted')
      BY <1>7, <2>3
    <3>5. ASSUME Forward, NEW u \in opt.due[k], Begin(k) < u, u <= v.start PROVE Sent(k, u)'
      BY <1>3, <1>5, <2>1, <3>1, <3>4, <3>5, TakerPast DEF WholeWindow
    <3>6. Begin(k)' = Begin(k) /\ Forward' = Forward BY <1>2 DEF Begin, Forward
    <3>7. Filled(k, v)' BY <1>2, <3>2 DEF Filled
    <3>8. Forward => Lined(k, v)' BY <1>2, <3>3, <3>6 DEF Lined, Boundary
    <3>9. Forward => Past(k, v)' BY <1>2, <3>5, <3>6 DEF Past
    <3> QED BY <3>6, <3>7, <3>8, <3>9 DEF WholeWindow
  <2> QED BY <2>2, <2>3
<1>13. WholeWindows'
  <2>1. \A j \in Keys : windows'[j] # None =>
           windows'[j] = windows[j] \/ (Kept(j) => WholeWindow(j, windows[j])')
    BY <1>8, <1>12
  <2>2. \A d \in Steps, j \in Keys : Dumped(d, j)' => Dumped(d, j) /\ disk'[d][j] = disk[d][j]
    BY <1>2 DEF Dumped
  <2> QED BY <1>2, <1>7, <1>9, <2>1, <2>2, WindowsFrame
<1>14. EmittedWhole'
  <2>1. ASSUME NEW e \in emitted', e \notin emitted, Carried(e.key) PROVE Whole(e)
    <3>1. ~ Repeated(k, t) /\ ~ IsWithin(w, t) /\ e \in Emission(k, w) BY <1>7, <2>1
    <3>2. ~ (t <= w.curr) BY <1>10, <3>1
    <3> QED BY <1>1, <1>2, <1>4, <1>5, <2>1, <3>1, <3>2, LeftWhole
  <2> QED BY <1>2, <1>9, <2>1, EmittedFrame
<1>15. OverSent'
  <2>1. \A j \in Keys : phase'[opt.home[j]] = "over" =>
           phase[opt.home[j]] = "over" /\ windows'[j] = windows[j]
    BY <1>2, <1>3, <1>8
  <2>2. job'.state # "done" /\ Typed BY <1>2 DEF Timed
  <2> QED BY <1>2, <1>7, <1>9, <2>1, <2>2, OverFrame
<1> QED BY <1>13, <1>14, <1>15

\* The last flush finds every field of its keys in their windows.
LEMMA WholeLast ==
    ASSUME Timed, WholeWindows, EmittedWhole, OverSent, NEW s \in Servers, LastFlush(s)
    PROVE  WholeWindows' /\ EmittedWhole' /\ OverSent'
<1>1. /\ job.state = "up" /\ phase[s] = "fields" /\ todo[s] = {}
      /\ FlushKind(clock[s]) = "last-step"
      /\ emitted' = emitted \cup UNION {Emission(k, windows[k]) : k \in
                      {k \in HomeKeys(s) : windows[k] # None}}
      /\ phase' = [phase EXCEPT ![s] = "over"]
      /\ job' = [job EXCEPT !.state =
                   IF \A z \in Servers \ {s} : phase[z] = "over" THEN "done" ELSE @]
      /\ UNCHANGED <<opt, windows, disk, resumed>>
  BY DEF LastFlush, Handling, fileVars
<1>2. clock[s] = LastStep BY <1>1 DEF FlushKind
<1>3. Typed /\ resumed \in Counters BY DEF Timed, Typed
<1>4. Counting BY <1>1, <1>3 DEF Counting, Counters
<1>5. emitted \subseteq emitted' BY <1>1
<1>6. WholeWindows'
  <2>1. \A d \in Steps, j \in Keys : Dumped(d, j)' => Dumped(d, j) /\ disk'[d][j] = disk[d][j]
    BY <1>1 DEF Dumped
  <2> QED BY <1>1, <1>4, <1>5, <2>1, WindowsFrame
<1>7. ASSUME NEW k \in HomeKeys(s), windows[k] # None, NEW u \in opt.due[k]
      PROVE  u <= windows[k].curr /\ u \in Nat
  <2>1. k \in Keys /\ opt.home[k] = s BY DEF HomeKeys
  <2>2. u \in Steps /\ u \in Nat /\ u <= LastStep BY <1>3, <2>1, OptFacts, StepFacts DEF Steps
  <2>3. Arrived(k, u) BY <1>1, <1>2, <2>1, <2>2 DEF Arrived
  <2>4. InMemory(k) BY <2>1 DEF Timed
  <2> QED BY <1>7, <2>2, <2>3, <2>4 DEF InMemory
<1>8. ASSUME NEW k \in HomeKeys(s), windows[k] # None, NEW e \in Emission(k, windows[k]), Carried(e.key)
      PROVE  Whole(e)
  <2>1. k \in Keys BY DEF HomeKeys
  <2>2. PICK w \in WindowRecords : w = windows[k] BY <1>3, <1>8, <2>1 DEF Typed
  <2>3. e.key = k BY <1>8 DEF Emission
  <2>4. Kept(k) /\ Forward BY <1>8, <2>3 DEF Carried, Kept, Forward
  <2>5. WholeWindow(k, w) BY <1>8, <2>1, <2>2, <2>4 DEF WholeWindows
  <2>6. \A u \in opt.due[k] : u <= w.end <=> u <= w.curr
    <3>1. InMemory(k) BY <2>1 DEF Timed
    <3>2. w.curr <= w.end /\ w.curr \in Int /\ w.end \in Int
      BY <1>8, <2>2, <3>1 DEF InMemory, Ordered, WindowRecords
    <3> QED BY <1>7, <1>8, <2>2, <3>2
  <2> QED BY <1>8, <2>1, <2>2, <2>4, <2>5, <2>6, EmissionWhole DEF WholeWindow
<1>9. EmittedWhole'
  <2>1. ASSUME NEW e \in emitted', e \notin emitted, Carried(e.key) PROVE Whole(e)
    <3>1. PICK k \in HomeKeys(s) : windows[k] # None /\ e \in Emission(k, windows[k])
      BY <1>1, <2>1
    <3> QED BY <1>8, <2>1, <3>1
  <2> QED BY <1>1, <1>4, <2>1, EmittedFrame
<1>10. \A z \in Servers : phase'[z] = IF z = s THEN "over" ELSE phase[z] BY <1>1, <1>3 DEF Typed
<1>11. OverSent'
  <2>1. job'.state = "done" => \A z \in Servers : phase'[z] = "over"
    BY <1>1, <1>3, <1>10 DEF Typed, Jobs
  <2>2. ASSUME NEW k \in Keys, Carried(k)', phase'[opt.home[k]] = "over", windows[k] # None,
               NEW u \in opt.due[k], u > Begin(k)
        PROVE  Sent(k, u)'
    <3>1. Carried(k) BY <1>1, <1>4, <2>2, KeptStays DEF Counting
    <3>2. CASE opt.home[k] = s
      <4>1. k \in HomeKeys(s) BY <3>2 DEF HomeKeys
      <4>2. PICK w \in WindowRecords : w = windows[k] BY <1>3, <2>2 DEF Typed
      <4>3. Kept(k) /\ Forward BY <3>1 DEF Carried, Kept, Forward
      <4>4. Filled(k, w) /\ Past(k, w) /\ Lined(k, w)
        BY <2>2, <4>2, <4>3 DEF WholeWindows, WholeWindow
      <4>5. u <= w.curr /\ u \in Nat BY <1>7, <2>2, <4>1, <4>2
      <4>6. w.start \in Int /\ Begin(k) \in Int BY <4>4 DEF WindowRecords, Lined
      <4>7. CASE u <= w.start
        <5>1. Begin(k) < u BY <2>2, <4>5, <4>6
        <5>2. Sent(k, u) BY <4>4, <4>7, <5>1 DEF Past
        <5> QED BY <1>5, <5>2, SentStays
      <4>8. CASE ~ (u <= w.start)
        <5>1. u \in w.pts BY <4>4, <4>5, <4>6, <4>8 DEF Filled
        <5>2. Emission(k, w) \subseteq emitted' BY <1>1, <2>2, <4>1, <4>2
        <5> QED BY <5>1, <5>2, EmissionSent
      <4> QED BY <4>7, <4>8
    <3>3. CASE opt.home[k] # s
      <4>1. opt.home[k] \in Servers BY <1>3, OptFacts
      <4>2. phase[opt.home[k]] = "over" BY <1>10, <2>2, <3>3, <4>1
      <4>3. Sent(k, u) BY <2>2, <3>1, <4>2 DEF OverSent
      <4> QED BY <1>5, <4>3, SentStays
    <3> QED BY <3>2, <3>3
  <2>3. \A k \in Keys : Begin(k)' = Begin(k) BY <1>1 DEF Begin
  <2> QED BY <1>1, <2>1, <2>2, <2>3 DEF OverSent
<1> QED BY <1>6, <1>9, <1>11

\* A step that takes nothing from the windows and passes nothing on
LEMMA WholeStays ==
    ASSUME Timed, WholeWindows, EmittedWhole, OverSent, opt' = opt, Counting,
           emitted \subseteq emitted', job'.state # "done",
           \A e \in emitted' : e \in emitted \/ (Carried(e.key) => Whole(e)),
           \A k \in Keys : windows'[k] \in {windows[k], None},
           \A k \in Keys : phase'[opt.home[k]] = "over" =>
              phase[opt.home[k]] = "over" /\ windows'[k] = windows[k],
           \A d \in Steps, k \in Keys : Dumped(d, k)' =>
              \/ Dumped(d, k) /\ disk'[d][k] = disk[d][k]
              \/ windows[k] # None /\ disk'[d][k] = windows[k]
    PROVE  WholeWindows' /\ EmittedWhole' /\ OverSent'
<1>1. WholeWindows' BY WindowsFrame
<1>2. EmittedWhole' BY EmittedFrame
<1>3. OverSent' BY OverFrame DEF Timed
<1> QED BY <1>1, <1>2, <1>3

LEMMA WholeRun ==
    ASSUME Timed, WholeWindows, EmittedWhole, OverSent, NEW b, StartServers(b),
           job'.state # "done", UNCHANGED <<opt, disk>>, Counting, emitted \subseteq emitted',
           \A e \in emitted' : e \in emitted \/ (Carried(e.key) => Whole(e))
    PROVE  WholeWindows' /\ EmittedWhole' /\ OverSent'
<1>1. \A k \in Keys : windows'[k] = None BY DEF StartServers
<1>2. \A k \in Keys : phase'[opt.home[k]] = "fields" BY OptFacts DEF StartServers, Timed
<1>3. \A d \in Steps, k \in Keys : Dumped(d, k)' => Dumped(d, k) /\ disk'[d][k] = disk[d][k]
  BY DEF Dumped
<1> QED BY <1>1, <1>2, <1>3, WholeStays

LEMMA WholeStep ==
    /\ Inv /\ Timed /\ Restartable /\ WholeWindows /\ EmittedWhole /\ OverSent
    /\ [Next]_vars
    => WholeWindows' /\ EmittedWhole' /\ OverSent'
<1> SUFFICES ASSUME Inv, Timed, Restartable, WholeWindows, EmittedWhole, OverSent, [Next]_vars
    PROVE  WholeWindows' /\ EmittedWhole' /\ OverSent'
  OBVIOUS
<1> USE DEF fileVars, serverVars, history
<1>0. Typed /\ job \in Jobs /\ resumed \in Counters BY DEF Timed, Typed
<1>1. ASSUME resumed' = resumed PROVE Counting BY <1>0, <1>1 DEF Counting, Counters
<1>2. ASSUME NEW why, GoDown(why), UNCHANGED <<opt, disk, resumed>>, emitted \subseteq emitted',
             \A e \in emitted' : e \in emitted \/ (Carried(e.key) => Whole(e))
      PROVE  WholeWindows' /\ EmittedWhole' /\ OverSent'
  <2>1. job'.state = "down" BY <1>0, <1>2 DEF GoDown, Jobs
  <2>2. PICK b : b = job.begin OBVIOUS
  <2>3. StartServers(b) BY <1>2, <2>2 DEF GoDown, StartServers
  <2> QED BY <1>1, <1>2, <2>1, <2>3, WholeRun
<1>3. ASSUME NEW s \in Servers, NEW k \in Keys, ReceiveField(s, k)
      PROVE  WholeWindows' /\ EmittedWhole' /\ OverSent'
  BY <1>3, WholeField
<1>4. ASSUME NEW s \in Servers, NEW k \in Keys, RefuseField(s, k)
      PROVE  WholeWindows' /\ EmittedWhole' /\ OverSent'
  <2>1. PICK t : t = clock[s] OBVIOUS
  <2>2. PICK why \in Refusals(k, t) :
           /\ GoDown(why)
           /\ emitted' = emitted \cup (IF why = "bounds" /\ ~ IsWithin(Window(k, t), t)
                                       THEN Emission(k, Window(k, t)) ELSE {})
    BY <1>4, <2>1 DEF RefuseField
  <2>3. /\ job.state = "up" /\ phase[s] = "fields" /\ k \in todo[s]
        /\ UNCHANGED <<opt, disk, resumed>>
    BY <1>4 DEF RefuseField, Handling
  <2>4. ASSUME NEW e \in emitted', e \notin emitted, Carried(e.key) PROVE Whole(e)
    <3>1. /\ why = "bounds" /\ ~ IsWithin(Window(k, t), t) /\ e \in Emission(k, Window(k, t))
      BY <2>2, <2>4
    <3>2. Readable(k, t) /\ ~ (t <= Window(k, t).curr)
      BY <2>2, <3>1 DEF Refusals, Readable
    <3> QED BY <2>1, <2>3, <2>4, <3>1, <3>2, LeftWhole
  <2> QED BY <1>2, <2>2, <2>3, <2>4
<1>5. ASSUME NEW s \in Servers, LastFlush(s) PROVE WholeWindows' /\ EmittedWhole' /\ OverSent'
  BY <1>5, WholeLast
<1>6. ASSUME NEW s \in Servers, PassFlush(s) \/ BeginDump(s) \/ MainDirectory(s) \/ EndDump(s)
      PROVE  WholeWindows' /\ EmittedWhole' /\ OverSent'
  <2>1. /\ job'.state = "up" /\ UNCHANGED <<opt, windows, disk, resumed, emitted>>
    BY <1>6 DEF PassFlush, BeginDump, MainDirectory, EndDump, Handling
  <2>2. PICK ph \in {"fields", "main_directory", "keys"} :
           phase' = [phase EXCEPT ![s] = ph] \/ phase' = phase
    BY <1>6 DEF PassFlush, BeginDump, MainDirectory, EndDump
  <2>3. \A k \in Keys : phase'[opt.home[k]] = "over" => phase[opt.home[k]] = "over"
    BY <1>0, <2>2, OptFacts DEF Typed
  <2>4. \A d \in Steps, k \in Keys : Dumped(d, k)' => Dumped(d, k) /\ disk'[d][k] = disk[d][k]
    BY <2>1 DEF Dumped
  <2> QED BY <1>1, <2>1, <2>3, <2>4, WholeStays
<1>7. ASSUME NEW s \in Servers, MainDirectoryMissing(s) PROVE WholeWindows' /\ EmittedWhole' /\ OverSent'
  BY <1>2, <1>7 DEF MainDirectoryMissing
<1>8. ASSUME NEW s \in Servers, NEW k \in Keys, MakeKey(s, k) \/ DumpKey(s, k)
      PROVE  WholeWindows' /\ EmittedWhole' /\ OverSent'
  <2>1. /\ job'.state = "up" /\ UNCHANGED <<opt, windows, resumed, emitted>>
    BY <1>8 DEF MakeKey, DumpKey, Handling
  <2>2. PICK ph \in {"keys", k} : phase' = [phase EXCEPT ![s] = ph] BY <1>8 DEF MakeKey, DumpKey
  <2>3. \A j \in Keys : phase'[opt.home[j]] = "over" => phase[opt.home[j]] = "over"
    BY <1>0, <2>2, OptFacts, PhaseFacts DEF Typed, Phases
  <2>4. PICK n, x : disk' = [disk EXCEPT ![n][k] = x] /\ x \in {Partial, windows[k]}
    BY <1>8 DEF MakeKey, DumpKey
  <2>5. \A d \in Steps, j \in Keys : disk'[d][j] = IF d = n /\ j = k THEN x ELSE disk[d][j]
    BY <1>0, <2>4 DEF Typed
  <2>6. ASSUME NEW d \in Steps, NEW j \in Keys, Dumped(d, j)'
        PROVE  \/ Dumped(d, j) /\ disk'[d][j] = disk[d][j]
               \/ windows[j] # None /\ disk'[d][j] = windows[j]
    BY <2>4, <2>5, <2>6 DEF Dumped
  <2> QED BY <1>1, <2>1, <2>3, <2>6, WholeStays
<1>9. ASSUME NEW s \in Servers, NEW k \in Keys, KeyExists(s, k)
      PROVE  WholeWindows' /\ EmittedWhole' /\ OverSent'
  BY <1>2, <1>9 DEF KeyExists
<1>10. ASSUME Crash PROVE WholeWindows' /\ EmittedWhole' /\ OverSent' BY <1>2, <1>10 DEF Crash
<1>11. ASSUME NEW mode \in {"latest", "name", "scratch"}, NEW d, Restart(mode, d)
       PROVE  WholeWindows' /\ EmittedWhole' /\ OverSent'
  <2>1. /\ job'.state = "up" /\ StartServers(d) /\ UNCHANGED <<opt, disk, emitted>>
        /\ resumed' = [resumed EXCEPT ![mode] = @ + 1]
    BY <1>11 DEF Restart
  <2>2. Counting
    <3>1. CASE mode = "latest" BY <1>0, <2>1, <3>1 DEF Counting, Counters
    <3>2. CASE mode = "name" BY <1>0, <2>1, <3>2 DEF Counting, Counters
    <3>3. CASE mode = "scratch" BY <1>0, <2>1, <3>3 DEF Counting, Counters
    <3> QED BY <3>1, <3>2, <3>3
  <2> QED BY <2>1, <2>2, WholeRun
<1>12. ASSUME RestartLatest \/ RestartNamed \/ RestartScratch
       PROVE  WholeWindows' /\ EmittedWhole' /\ OverSent'
  BY <1>11, <1>12 DEF RestartLatest, RestartNamed, RestartScratch
<1>13. CASE UNCHANGED vars
  <2>1. UNCHANGED <<opt, job, phase, windows, disk, emitted, resumed>> BY <1>13 DEF vars
  <2>2. WholeWindows'
    <3>1. \A d \in Steps, k \in Keys : Dumped(d, k)' => Dumped(d, k) /\ disk'[d][k] = disk[d][k]
      BY <2>1 DEF Dumped
    <3> QED BY <1>1, <2>1, <3>1, WindowsFrame
  <2>3. EmittedWhole' BY <1>1, <2>1, EmittedFrame
  <2>4. OverSent'
    <3>1. \A k \in Keys : Begin(k)' = Begin(k) /\ Carried(k)' = Carried(k)
      BY <2>1, OptStays DEF Begin, Carried
    <3> QED BY <2>1, <3>1 DEF OverSent, Sent
  <2> QED BY <2>2, <2>3, <2>4
<1> QED BY <1>3, <1>4, <1>5, <1>6, <1>7, <1>8, <1>9, <1>10, <1>12, <1>13 DEF Next, Server

LEMMA WholeInit == Init => WholeWindows /\ EmittedWhole /\ OverSent
<1> SUFFICES ASSUME Init PROVE WholeWindows /\ EmittedWhole /\ OverSent OBVIOUS
<1>1. /\ \A k \in Keys : windows[k] = None
      /\ \A d \in Steps, k \in Keys : ~ Dumped(d, k)
      /\ emitted = {} /\ job.state = "up"
  BY DEF Init, Dumped
<1> QED BY <1>1 DEF WholeWindows, EmittedWhole, OverSent

Sound == /\ Inv /\ Timed /\ Restartable
         /\ WholeWindows /\ EmittedWhole /\ OverSent

\* How far time is on the servers, what every restart on disk holds and what has
\* been passed on: the invariant that the properties below are parts of.
THEOREM StatisticsSound == Spec => []Sound
<1>1. Init => Sound BY InitInv, TimedInit, RestartableInit, WholeInit DEF Sound
<1>2. Sound /\ [Next]_vars => Sound'
  BY StepInv, TimedStep, RestartableStep, WholeStep DEF Sound
<1> QED BY <1>1, <1>2, PTL DEF Spec

\* However often the job crashed and read a restart, a statistic of a forward
\* window that is passed on has every field of its window and no other.
THEOREM StatisticsWhole == Spec => []EmittedWhole
<1>1. Sound => EmittedWhole BY DEF Sound
<1> QED BY <1>1, StatisticsSound, PTL

\* When the job is over no field is missing from what was passed on.
THEOREM StatisticsComplete == Spec => []AllEmitted
<1>1. Sound => AllEmitted
  <2> SUFFICES ASSUME Sound, job.state = "done", NEW k \in Keys, Carried(k),
                      NEW v \in opt.due[k], v > job.begin,
                      NEW t \in opt.due[k], t > Begin(k)
      PROVE  \E e \in emitted : e.key = k /\ t \in e.pts
    BY DEF AllEmitted
  <2>1. Timed /\ OverSent /\ Typed BY DEF Sound, Timed
  <2>2. opt.home[k] \in Servers BY <2>1, OptFacts
  <2>3. phase[opt.home[k]] = "over" BY <2>1, <2>2 DEF OverSent
  <2>4. clock[opt.home[k]] = LastStep /\ todo[opt.home[k]] = {}
    BY <2>1, <2>2, <2>3 DEF Timed, Paced
  <2>5. v \in Steps /\ v \in Nat /\ v <= LastStep BY <2>1, OptFacts, StepFacts DEF Steps
  <2>6. job.begin \in Nat BY <2>1 DEF Typed, Jobs
  <2>7. job.begin <= v /\ v # job.begin BY <2>5, <2>6
  <2>8. Handled(k, v) BY <2>4, <2>5, <2>7 DEF Handled, Arrived
  <2>9. windows[k] # None BY <2>1, <2>5, <2>8 DEF Timed, InMemory
  <2>10. Sent(k, t) BY <2>1, <2>3, <2>9 DEF OverSent
  <2> QED BY <2>10 DEF Sent
<1> QED BY <1>1, StatisticsSound, PTL

\* On one server the directory that "latest" points to holds, for every key with a
\* field between checkpoints, all that has arrived up to its step.
THEOREM LatestHolds == Spec => []LatestComplete
<1>1. Sound => LatestComplete
  <2> SUFFICES ASSUME Sound, OneServer, link # None, NEW k \in Keys, Continuous(k)
      PROVE  Holds(link, k)
    BY DEF LatestComplete
  <2>1. Timed /\ Restartable /\ WholeWindows /\ Typed BY DEF Sound, Timed
  <2>2. PICK z \in Servers : HomeKeys(z) = Keys BY DEF OneServer
  <2>3. PICK y \in Servers : <<link, y>> \in finished BY <2>1 DEF Restartable, Linked
  <2>4. HomeKeys(y) # {} BY <2>1, <2>3 DEF Restartable, FinishedDumps
  <2>5. y = z BY <2>1, <2>2, <2>4, OneHome
  <2>6. Dumped(link, k) BY <2>1, <2>2, <2>3, <2>5 DEF Restartable, FinishedDumps
  <2>7. PICK d \in Steps : d = link /\ d \in Nat BY <2>1, StepFacts DEF Typed
  <2>8. PICK w \in WindowRecords : w = disk[d][k] BY <2>1, <2>6, <2>7 DEF Typed, Dumped
  <2>9. Kept(k) BY DEF Kept
  <2>10. Filled(k, w) BY <2>1, <2>6, <2>7, <2>8, <2>9 DEF WholeWindows, WholeWindow
  <2>11. w.curr \in Int /\ w.curr <= d /\ \A u \in opt.due[k] : u <= d => u <= w.curr
    BY <2>1, <2>6, <2>7, <2>8 DEF Timed, OnDisk, WindowRecords
  <2>12. w.start \in Int /\ \A u \in opt.due[k] : u \in Nat
    BY <2>1, OptFacts, StepFacts DEF WindowRecords
  <2>13. \A u \in opt.due[k] : (w.start < u /\ u <= w.curr) <=> (u <= d /\ u > w.start)
    BY <2>7, <2>11, <2>12
  <2>14. w.pts = {u \in Before(k, d) : u > w.start} BY <2>10, <2>13 DEF Filled, Before
  <2> QED BY <2>6, <2>7, <2>8, <2>14 DEF Holds, Dumped
<1> QED BY <1>1, StatisticsSound, PTL

=============================================================================
