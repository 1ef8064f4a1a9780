----------------------------- MODULE Statistics -----------------------------
(***************************************************************************)
(* The statistics-mtg2 action on the servers of one experiment: the        *)
(* windows in memory, the restart directories they share on disk, and a    *)
(* job that may crash anywhere and be started again.  Each server handles  *)
(* the fields of a step, then its flush; a flush that asks for a restart   *)
(* takes several steps on the file system, between which other servers act. *)
(* Times are steps of the model.                                           *)
(***************************************************************************)
EXTENDS Integers, FiniteSets

CONSTANTS
    Servers, Keys,     \* a key is a field (param, level, grid...) of a server
    LastStep,          \* the step whose flush ends the simulation
    Checkpoints,       \* steps whose flush is "step-and-restart"
    Unit, Span,        \* the period: Span hours, days or months of Unit steps
    Timespan,          \* steps that one field covers already
    InitialCondition,  \* the solver sends its initial condition
    Options,           \* the choices of the plan and of the model, see Init
    MaxRestarts,       \* bound: how often the job is started again
    None, Partial            \* values that are no window, step or key

Steps == 0 .. LastStep

ASSUME StepAssumption ==
    /\ LastStep \in Nat
    /\ Checkpoints \subseteq 1 .. LastStep - 1
    /\ Unit \in Nat \ {0} /\ Span \in Nat \ {0} /\ Timespan \in Nat
    /\ InitialCondition \in BOOLEAN
    /\ MaxRestarts \in Nat

ASSUME OptionsAssumption ==
    Options \subseteq [home : [Keys -> Servers],        \* where a key is aggregated
                       due : [Keys -> SUBSET Steps],    \* steps with a field of the key
                       dated : BOOLEAN,                 \* the flush carries its date
                       masters : SUBSET Servers,        \* servers whose rank is master
                       lib : {"eckit_codec", "fstream_io"},
                       window : {"forward-offset", "backward-offset"}]

\* A field of step 0 is the initial condition.
ASSUME DueAssumption ==
    \A o \in Options, k \in Keys : 0 \in o.due[k] => InitialCondition

\* A window is the record that is dumped; pts are the fields it has taken in.
WindowRecords == [start : Int, curr : Int, end : Int, pts : SUBSET Steps]
Phases == {"fields", "main_directory", "keys", "over"}

ASSUME MarkAssumption ==
    /\ None # Partial /\ None \notin Steps
    /\ None \notin WindowRecords /\ Partial \notin WindowRecords
    /\ Keys \cap Phases = {}

VARIABLES
    opt,      \* the options of the plan, the same in every run of the job
    job,      \* the run: state, why it went down, what it read, first step
    clock,    \* the step whose fields the server handles
    todo,     \* keys whose field of that step it has yet to receive
    phase,    \* "fields", or how far the server is with a dump
    left,     \* keys it has still to dump
    windows,  \* fieldStats_ of the servers
    lastDate, \* lastDateTime_; None while needRestart_ is false
    disk,     \* disk[d][k]: the directory of k in the restart directory d
    dirs,     \* the restart directories
    link,     \* the directory that "latest" points to
    emitted,  \* history: the statistics passed on
    finished, \* history: <<d, s>>, server s has finished its dump to d
    resumed   \* history: how often the job read a restart, by "latest" and by name

fileVars == <<disk, dirs, link>>
serverVars == <<clock, todo, phase, left, windows, lastDate>>
history == <<emitted, finished, resumed>>
vars == <<opt, job, serverVars, fileVars, history>>

HomeKeys(s) == {k \in Keys : opt.home[k] = s}
DueAt(s, t) == {k \in HomeKeys(s) : t \in opt.due[k]}

-----------------------------------------------------------------------------
(* Windows *)

PeriodStart(t) == t - (t % Unit)
\* updateWinEndTime
WinEnd(start) == PeriodStart(start + Span * Unit)

\* make_window
NewWindow(t) ==
    LET creation == t - Timespan
    IN  [start |-> creation, curr |-> creation,
         end |-> WinEnd(PeriodStart(creation)), pts |-> {}]

\* updateWindow, with the old end as the new start
NextWindow(w) == [start |-> w.end, curr |-> w.end, end |-> WinEnd(w.end), pts |-> {}]

\* isWithin
IsWithin(w, t) == IF opt.window = "forward-offset"
                  THEN w.start < t /\ t <= w.end
                  ELSE w.start <= t /\ t < w.end

\* The bounds that updateData checks, whatever the window type
InBounds(w, t) == w.start < t /\ t <= w.end

\* updateData
Counted(w, t) == [w EXCEPT !.curr = t, !.pts = @ \cup {t}]

\* emitStatistics passes nothing on for a window without fields
Emission(k, w) == IF w.pts = {} THEN {}
                  ELSE {[key |-> k, start |-> w.start, end |-> w.end, pts |-> w.pts]}

-----------------------------------------------------------------------------
(* Restart files *)

\* The directory that restart-time names; None if "latest" points nowhere
RestartDir == IF job.mode = "latest" THEN link ELSE job.begin
ReadRestart == job.mode # "scratch"

HasMainRestartDir == RestartDir \in dirs
HasRestartKey(k) == disk[RestartDir][k] # None

\* Words of a file that holds n, and words that read expects of it
FileWords(n) == IF opt.lib = "fstream_io" THEN n + 1 ELSE n
\* Every part of the directory is there, and its files have the size expected.
Loads(k) == disk[RestartDir][k] # Partial /\ FileWords(2) = 2

\* mutant: a key that is not in memory starts afresh
WindowFresh(k, t) == IF windows[k] # None THEN windows[k] ELSE NewWindow(t)

\* The window of a key: in memory, loaded, or fresh
Window(k, t) ==
    IF windows[k] # None THEN windows[k]
    ELSE IF ReadRestart /\ HasRestartKey(k) THEN disk[RestartDir][k]
    ELSE NewWindow(t)

\* The window that takes the field in: the next one if it is outside
Taker(w, t) == IF IsWithin(w, t) THEN w ELSE NextWindow(w)

\* mutant: a point that a restart already holds is not passed over
RepeatedNever(k, t) == FALSE

\* The field is the initial condition, or the point a restart already holds.
Repeated(k, t) == InitialCondition /\ t = Window(k, t).curr

\* Why executeImpl throws on the field of key k at step t
Refusals(k, t) ==
    IF ReadRestart /\ ~ HasMainRestartDir THEN {"no_directory"}
    ELSE IF windows[k] = None /\ ReadRestart /\ HasRestartKey(k) /\ ~ Loads(k) THEN {"load"}
    ELSE IF Repeated(k, t) THEN {}
    ELSE IF t <= Window(k, t).curr THEN {"order"}
    ELSE IF ~ InBounds(Taker(Window(k, t), t), t) THEN {"bounds"}
    ELSE {}

-----------------------------------------------------------------------------
(* The job *)

\* The first fields of a run: those of the step it begins with, if the solver
\* sends its initial condition (again)
FirstFields(begin) ==
    [s \in Servers |-> IF InitialCondition THEN DueAt(s, begin) ELSE {}]

StartServers(begin) ==
    /\ clock' = [s \in Servers |-> begin]
    /\ todo' = FirstFields(begin)
    /\ phase' = [s \in Servers |-> "fields"]
    /\ left' = [s \in Servers |-> {}]
    /\ windows' = [k \in Keys |-> None]
    /\ lastDate' = [s \in Servers |-> None]

Init ==
    /\ opt \in Options
    /\ job = [state |-> "up", why |-> "none", mode |-> "scratch", begin |-> 0]
    /\ clock = [s \in Servers |-> 0]
    /\ todo = FirstFields(0)
    /\ phase = [s \in Servers |-> "fields"]
    /\ left = [s \in Servers |-> {}]
    /\ windows = [k \in Keys |-> None]
    /\ lastDate = [s \in Servers |-> None]
    /\ disk = [d \in Steps |-> [k \in Keys |-> None]]
    /\ dirs = {}
    /\ link = None
    /\ emitted = {}
    /\ finished = {}
    /\ resumed = [latest |-> 0, name |-> 0, scratch |-> 0]

Restarts == resumed.latest + resumed.name + resumed.scratch

\* The whole job goes down; what the servers held in memory is gone.
GoDown(why) ==
    /\ job' = [job EXCEPT !.state = "down", !.why = why]
    /\ StartServers(job.begin)

\* A fault outside this code, while it can still be followed by a restart
Crash ==
    /\ job.state = "up" /\ Restarts < MaxRestarts
    /\ GoDown("crash")
    /\ UNCHANGED <<opt, fileVars, history>>

\* The job is started again, with readRestart from step d on or from scratch
Restart(mode, d) ==
    /\ job.state = "down" /\ Restarts < MaxRestarts
    /\ job' = [state |-> "up", why |-> "none", mode |-> mode, begin |-> d]
    /\ StartServers(d)
    /\ resumed' = [resumed EXCEPT ![mode] = @ + 1]
    /\ UNCHANGED <<opt, fileVars, emitted, finished>>

\* restart-time "latest": the solver continues from the checkpoint it points to.
RestartLatest == link \in Checkpoints /\ Restart("latest", link)

\* restart-time by name: a checkpoint that all servers with fields are known to
\* have finished
RestartNamed ==
    \E d \in Checkpoints :
        /\ \A s \in Servers : HomeKeys(s) # {} => <<d, s>> \in finished
        /\ Restart("name", d)

RestartScratch == Restart("scratch", 0)

-----------------------------------------------------------------------------
(* A server: fields and flushes *)

Handling(s, ph) == job.state = "up" /\ phase[s] = ph

\* executeImpl of a field
ReceiveField(s, k) ==
    LET t == clock[s]
        w == Window(k, t)
    IN  /\ Handling(s, "fields") /\ k \in todo[s]
        /\ Refusals(k, t) = {}
        /\ todo' = [todo EXCEPT ![s] = @ \ {k}]
        /\ lastDate' = [lastDate EXCEPT ![s] = t]
        /\ IF Repeated(k, t)
           THEN /\ windows' = [windows EXCEPT ![k] = w]
                /\ UNCHANGED emitted
           ELSE /\ windows' = [windows EXCEPT ![k] = Counted(Taker(w, t), t)]
                /\ emitted' = emitted \cup (IF IsWithin(w, t) THEN {} ELSE Emission(k, w))
        /\ UNCHANGED <<opt, job, clock, phase, left, fileVars, finished, resumed>>

\* executeImpl of a field throws, if at the bounds then after it has emitted
RefuseField(s, k) ==
    LET t == clock[s]
        w == Window(k, t)
    IN  /\ Handling(s, "fields") /\ k \in todo[s]
        /\ \E why \in Refusals(k, t) :
              /\ GoDown(why)
              /\ emitted' = emitted \cup
                    (IF why = "bounds" /\ ~ IsWithin(w, t) THEN Emission(k, w) ELSE {})
        /\ UNCHANGED <<opt, fileVars, finished, resumed>>

\* What flush ends the step: parseFlushKind.  "end-of-simulation" and
\* "close-connection", which executeImpl passes on like "default", are not told
\* apart from it.
FlushKind(t) ==
    IF t = job.begin THEN "first-step"
    ELSE IF t \in Checkpoints THEN "step-and-restart"
    ELSE IF t = LastStep THEN "last-step" ELSE "default"

\* The next step's fields arrive.
NextStep(s) ==
    /\ clock' = [clock EXCEPT ![s] = @ + 1]
    /\ todo' = [todo EXCEPT ![s] = DueAt(s, clock[s] + 1)]

\* A flush that asks for no restart, or finds nothing to dump, is passed on.
PassFlush(s) ==
    /\ Handling(s, "fields") /\ todo[s] = {}
    /\ FlushKind(clock[s]) # "last-step"
    /\ FlushKind(clock[s]) = "step-and-restart" => lastDate[s] = None
    /\ NextStep(s)
    /\ UNCHANGED <<opt, job, phase, left, windows, lastDate, fileVars, history>>

\* mutant: the last flush only ends the server
LastFlushSilent(s) ==
    /\ Handling(s, "fields") /\ todo[s] = {}
    /\ FlushKind(clock[s]) = "last-step"
    /\ phase' = [phase EXCEPT ![s] = "over"]
    /\ job' = [job EXCEPT !.state =
                 IF \A z \in Servers \ {s} : phase[z] = "over" THEN "done" ELSE @]
    /\ UNCHANGED <<opt, clock, todo, left, windows, lastDate, fileVars, history>>

\* emitAllStatistics; the job is over when all servers have seen the last flush.
LastFlush(s) ==
    /\ Handling(s, "fields") /\ todo[s] = {}
    /\ FlushKind(clock[s]) = "last-step"
    /\ emitted' = emitted \cup UNION {Emission(k, windows[k]) : k \in
                    {k \in HomeKeys(s) : windows[k] # None}}
    /\ phase' = [phase EXCEPT ![s] = "over"]
    /\ job' = [job EXCEPT !.state =
                 IF \A z \in Servers \ {s} : phase[z] = "over" THEN "done" ELSE @]
    /\ UNCHANGED <<opt, clock, todo, left, windows, lastDate, fileVars, finished, resumed>>

-----------------------------------------------------------------------------
(* A server: TryDumpRestart *)

\* generateRestartNameFromFlush: the checkpoint, if the flush names it
\* (restartDateTime) or its date, or else the time of the last field.  A flush that
\* has its step and no date, which joins the two in one name, is left out.
DirName(s) == IF opt.dated THEN clock[s] ELSE lastDate[s]

IsMaster(s) == s \in opt.masters

\* DeleteLatestSymLink, by a master; any other server, for which that does nothing,
\* looks for the main directory and need not wait if it is there.
BeginDump(s) ==
    /\ Handling(s, "fields") /\ todo[s] = {}
    /\ FlushKind(clock[s]) = "step-and-restart" /\ lastDate[s] # None
    /\ link' = IF IsMaster(s) THEN None ELSE link
    /\ phase' = [phase EXCEPT ![s] =
                   IF IsMaster(s) \/ DirName(s) \notin dirs THEN "main_directory" ELSE "keys"]
    /\ left' = [left EXCEPT ![s] = {k \in HomeKeys(s) : windows[k] # None}]
    /\ UNCHANGED <<opt, job, clock, todo, windows, lastDate, disk, dirs, history>>

\* mutant: the link is made with the directory it points to
MainDirectoryLinked(s) ==
    /\ Handling(s, "main_directory")
    /\ IsMaster(s) \/ DirName(s) \in dirs
    /\ dirs' = dirs \cup {DirName(s)}
    /\ link' = IF IsMaster(s) /\ link = None THEN DirName(s) ELSE link
    /\ phase' = [phase EXCEPT ![s] = "keys"]
    /\ UNCHANGED <<opt, job, clock, todo, left, windows, lastDate, disk, history>>

\* CreateMainRestartDirectory: made by a master, awaited by the others
MainDirectory(s) ==
    /\ Handling(s, "main_directory")
    /\ IsMaster(s) \/ DirName(s) \in dirs
    /\ dirs' = dirs \cup {DirName(s)}
    /\ phase' = [phase EXCEPT ![s] = "keys"]
    /\ UNCHANGED <<opt, job, clock, todo, left, windows, lastDate, disk, link, history>>

\* CreateMainRestartDirectory: the tries are used up.  The count alone decides: a
\* directory that came with the last of them is too late as well.
MainDirectoryMissing(s) ==
    /\ Handling(s, "main_directory") /\ ~ IsMaster(s)
    /\ GoDown("wait")
    /\ UNCHANGED <<opt, fileVars, history>>

\* mutant: the directory of a key is taken as it is
MakeKeyAgain(s, k) ==
    /\ Handling(s, "keys") /\ k \in left[s]
    /\ disk' = [disk EXCEPT ![DirName(s)][k] = Partial]
    /\ phase' = [phase EXCEPT ![s] = k]
    /\ UNCHANGED <<opt, job, clock, todo, left, windows, lastDate, dirs, link, history>>

\* DumpTemporalStatistics: the directory of a key is made
MakeKey(s, k) ==
    /\ Handling(s, "keys") /\ k \in left[s]
    /\ disk[DirName(s)][k] = None
    /\ disk' = [disk EXCEPT ![DirName(s)][k] = Partial]
    /\ phase' = [phase EXCEPT ![s] = k]
    /\ UNCHANGED <<opt, job, clock, todo, left, windows, lastDate, dirs, link, history>>

\* DumpTemporalStatistics: it is there already
KeyExists(s, k) ==
    /\ Handling(s, "keys") /\ k \in left[s]
    /\ disk[DirName(s)][k] # None
    /\ GoDown("exists")
    /\ UNCHANGED <<opt, fileVars, history>>

\* TemporalStatistics::dump, up to the metadata that load asks for last
DumpKey(s, k) ==
    /\ Handling(s, k)
    /\ disk' = [disk EXCEPT ![DirName(s)][k] = windows[k]]
    /\ left' = [left EXCEPT ![s] = @ \ {k}]
    /\ phase' = [phase EXCEPT ![s] = "keys"]
    /\ UNCHANGED <<opt, job, clock, todo, windows, lastDate, dirs, link, history>>

\* CreateLatestSymLink, by a master; a link that exists is left as it is
EndDump(s) ==
    /\ Handling(s, "keys") /\ left[s] = {}
    /\ link' = IF IsMaster(s) /\ link = None THEN DirName(s) ELSE link
    /\ finished' = finished \cup {<<DirName(s), s>>}
    /\ phase' = [phase EXCEPT ![s] = "fields"]
    /\ NextStep(s)
    /\ UNCHANGED <<opt, job, left, windows, lastDate, disk, dirs, emitted, resumed>>

-----------------------------------------------------------------------------
Server(s) ==
    \/ \E k \in Keys : ReceiveField(s, k) \/ RefuseField(s, k)
    \/ PassFlush(s) \/ LastFlush(s)
    \/ BeginDump(s) \/ MainDirectory(s) \/ MainDirectoryMissing(s)
    \/ \E k \in Keys : MakeKey(s, k) \/ KeyExists(s, k) \/ DumpKey(s, k)
    \/ EndDump(s)

Next ==
    \/ \E s \in Servers : Server(s)
    \/ Crash \/ RestartLatest \/ RestartNamed \/ RestartScratch

Spec == Init /\ [][Next]_vars

-----------------------------------------------------------------------------
(* Properties *)

OneServer == \E s \in Servers : HomeKeys(s) = Keys

Before(k, t) == {u \in opt.due[k] : u <= t}

\* Between any two checkpoints the key has a field: it is in memory at each dump.
Continuous(k) ==
    \A c \in Checkpoints : \E u \in Before(k, c) :
        \A b \in Checkpoints : b < c => b < u

\* What the job has read so far keeps the windows of k whole.  A resumed run
\* loads a key at its first field, and what it dumps before then is without it.
Carried(k) ==
    /\ opt.window = "forward-offset"
    /\ resumed.latest = 0 \/ (OneServer /\ Continuous(k))
    /\ resumed.name + resumed.latest <= 1 \/ Continuous(k)

\* The time from which statistics of k are due: its first field, or what that covers
Begin(k) == (CHOOSE t \in opt.due[k] : \A u \in opt.due[k] : t <= u) - Timespan

\* Windows end where a whole number of periods has gone by since then.
Boundary(k, t) == t > Begin(k) /\ (t - PeriodStart(Begin(k))) % (Span * Unit) = 0

Whole(e) ==
    /\ Boundary(e.key, e.end)
    /\ e.start = IF Begin(e.key) + Span * Unit > e.end THEN Begin(e.key) ELSE e.end - Span * Unit
    /\ e.pts = {t \in opt.due[e.key] : e.start < t /\ t <= e.end}

\* A statistic of a window covers every field of the key in that window and no
\* other, however often the job crashed and read a restart in between: it is one
\* that the job emits when it never stops (executeImpl, emitStatistics, load).
EmittedWhole == \A e \in emitted : Carried(e.key) => Whole(e)

\* When the job is over, each field of a key that had one in the last run went into
\* a statistic that was passed on, in this run or in one that it continues.
AllEmitted ==
    job.state = "done" =>
        \A k \in Keys : Carried(k) /\ (\E u \in opt.due[k] : u > job.begin) =>
            \A t \in opt.due[k] : t > Begin(k) =>
                \E e \in emitted : e.key = k /\ t \in e.pts

\* The dump of k in directory d holds all that has arrived up to step d.
Holds(d, k) ==
    /\ disk[d][k] \notin {None, Partial}
    /\ disk[d][k].pts = {t \in Before(k, d) : t > disk[d][k].start}

\* As EmittedWhole for every job that restarts, from "latest" and with several
\* masters too: TryDumpRestart lets every server be a master, relying on the
\* atomicity of file system operations "to avoid race conditions".
ResumedWhole == \A e \in emitted : Continuous(e.key) => Whole(e)

\* On one server "latest" points to a restart that is complete through every
\* crash (TryDumpRestart: the link goes first and comes back last).
LatestComplete ==
    OneServer /\ link # None => \A k \in Keys : Continuous(k) => Holds(link, k)

\* No two fields of the key are further apart than a window is long.
Dense(k) ==
    /\ Timespan <= Span * Unit
    /\ \A t \in opt.due[k] : (\E u \in opt.due[k] : u < t) =>
          \E u \in opt.due[k] : u < t /\ t <= u + Span * Unit

\* A run that reads a restart by name, or "latest" where no other server moves
\* it, is not turned away: its fields continue what the restart holds.  What
\* fstream_io wrote cannot be read, nor the rest of a dump that a crash cut short if
\* a later run went past it without the key; a backward window refuses a field at
\* its start, any window one behind a gap, and a new window a field that covers no time.
ResumeAccepted ==
    job.state = "down" /\ (job.mode # "latest" \/ OneServer) =>
        /\ job.why # "no_directory"
        /\ job.why = "order" => ~ InitialCondition /\ Timespan = 0
        /\ job.why = "load" => opt.lib = "fstream_io" \/ \E k \in Keys : ~ Continuous(k)
        /\ job.why = "bounds" => opt.window = "backward-offset" \/ \E k \in Keys : ~ Dense(k)

\* The dump of a key, once complete, is never written again: neither by a second
\* server that has the field, nor by a later run that reaches the same checkpoint
\* (DumpTemporalStatistics throws when the directory is there).
DumpsImmutable ==
    [][\A d \in Steps, k \in Keys :
          disk[d][k] \notin {None, Partial} => disk'[d][k] = disk[d][k]]_vars

=============================================================================
