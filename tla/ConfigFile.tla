---------------------------- MODULE ConfigFile ----------------------------
(***************************************************************************)
(* moonraker_pinozcam/config.py: the settings file, the parsed copy every  *)
(* thread shares, and the three ways they change:                          *)
(*                                                                         *)
(*   - a Writer (a request thread of the settings page) rewrites the file  *)
(*     under the lock and loads what it wrote;                             *)
(*   - a Reader (the detection thread, or a guarded page request) notices  *)
(*     a new modification time, parses without the lock and installs;      *)
(*   - an editor outside the process (Mainsail's) saves at any time.       *)
(*                                                                         *)
(* One of the readers, Consumer, is Detector._refresh: after the poll it   *)
(* compares the generation with the one it applied last and takes over     *)
(* the loaded values of the options that are Live.  Others, PerRun, it     *)
(* takes over when a run begins; what is in neither it reads once in the   *)
(* life of the service, or never.                                          *)
(*                                                                         *)
(* An option missing from a half-written or unread file reads as Default.  *)
(* A modification time is a number that grows with every save.             *)
(***************************************************************************)
EXTENDS Integers

CONSTANTS
    Options,        \* the options of the file
    Live,           \* those the detector takes over in the middle of a run
    PerRun,         \* those it takes over when a run begins
    Values,         \* what an option can say
    Default,        \* what a missing option reads as
    InitialFiles,   \* the files the service may start with
    Parts,          \* the parts of a half-written file that can be read
    Readers,        \* threads that call reload_if_changed()
    Consumer,       \* the one of them that applies what it reads
    Writers,        \* threads that call write_options()
    Free,           \* the lock's holder when it has none
    MaxSaves        \* bound: saves begun, inside and outside

ASSUME FileAssumption ==
    /\ Default \in Values
    /\ Live \subseteq Options /\ PerRun \subseteq Options \ Live
    /\ InitialFiles \subseteq [Options -> Values]
    /\ Parts \subseteq SUBSET Options
    /\ Consumer \in Readers
    /\ Free \notin Writers
    /\ MaxSaves \in Nat

VARIABLES
    disk,        \* what the file says, once whoever writes it has finished
    torn,        \* whether an outside save is half done
    stamp,       \* the file's modification time
    loaded,      \* Config._cp
    mtime,       \* Config._mtime
    generation,  \* Config._generation
    lock,        \* the writer inside Config._lock, or Free
    wAt,         \* where each writer is in write_options()
    wLines,      \* what it read, with its updates put in
    rAt,         \* where each reader is in reload_if_changed()
    rStamp,      \* the modification time it saw
    rValues,     \* what it parsed
    seen,        \* Detector._cfg_generation
    applied,     \* what the detector took over
    saves,       \* how many saves have begun (bounded)
    asked,       \* history: what the last save of each option asked for
    crossed,     \* history: an outside save overlapped the rewriting of a save
    blind        \* history: one fell between a writer's read and its stamp

fileVars == <<disk, torn, stamp>>
configVars == <<loaded, mtime, generation>>
writerVars == <<lock, wAt, wLines>>
readerVars == <<rAt, rStamp, rValues>>
consumerVars == <<seen, applied>>
historyVars == <<saves, asked, crossed, blind>>
configFileVars == <<fileVars, configVars, writerVars, readerVars, consumerVars,
                    historyVars>>

Contents == [Options -> Values]
Updates == UNION {[S -> Values] : S \in SUBSET Options}
Nothing == [o \in Options |-> Default]

Over(u, f) == [o \in Options |-> IF o \in DOMAIN u THEN u[o] ELSE f[o]]

Part(S) == [o \in Options |-> IF o \in S THEN disk[o] ELSE Default]

\* What reading the file can yield: all of it, or only a part while it is torn.
Readable == IF torn THEN {Part(S) : S \in Parts} ELSE {disk}

Init ==
    /\ disk \in InitialFiles
    /\ torn = FALSE
    /\ stamp = 0
    /\ loaded = disk
    /\ mtime = 0
    /\ generation = 0
    /\ lock = Free
    /\ wAt = [w \in Writers |-> "idle"]
    /\ wLines = [w \in Writers |-> Nothing]
    /\ rAt = [r \in Readers |-> "idle"]
    /\ rStamp = [r \in Readers |-> 0]
    /\ rValues = [r \in Readers |-> Nothing]
    /\ seen = -1
    /\ applied = disk
    /\ saves = 0
    /\ asked = disk
    /\ crossed = FALSE
    /\ blind = FALSE
-----------------------------------------------------------------------------
(* reload_if_changed *)

\* The poll: the time of the file now against the time of what is loaded.
After(r) == IF r = Consumer THEN "polled" ELSE "idle"

Poll(r) ==
    /\ rAt[r] = "idle"
    /\ rAt' = [rAt EXCEPT ![r] = IF stamp = mtime THEN After(r) ELSE "parse"]
    /\ rStamp' = [rStamp EXCEPT ![r] = IF stamp = mtime THEN @ ELSE stamp]
    /\ UNCHANGED <<fileVars, configVars, writerVars, rValues, consumerVars, historyVars>>

Parse(r) ==
    /\ rAt[r] = "parse"
    /\ \E f \in Readable : rValues' = [rValues EXCEPT ![r] = f]
    /\ rAt' = [rAt EXCEPT ![r] = "install"]
    /\ UNCHANGED <<fileVars, configVars, writerVars, rStamp, consumerVars, historyVars>>

\* A file caught in the middle of a save may not parse: the next poll tries again.
ParseFails(r) ==
    /\ rAt[r] = "parse"
    /\ torn
    /\ rAt' = [rAt EXCEPT ![r] = After(r)]
    /\ rStamp' = [rStamp EXCEPT ![r] = 0]
    /\ UNCHANGED <<fileVars, configVars, writerVars, rValues, consumerVars, historyVars>>

\* Mutant: the time is taken when the values are installed.
InstallWithNewTime(r) ==
    /\ rAt[r] = "install"
    /\ lock = Free
    /\ loaded' = rValues[r]
    /\ mtime' = stamp
    /\ generation' = generation + 1
    /\ rAt' = [rAt EXCEPT ![r] = After(r)]
    /\ rStamp' = [rStamp EXCEPT ![r] = 0]
    /\ rValues' = [rValues EXCEPT ![r] = Nothing]
    /\ UNCHANGED <<fileVars, writerVars, consumerVars, historyVars>>

Install(r) ==
    /\ rAt[r] = "install"
    /\ lock = Free
    /\ loaded' = rValues[r]
    /\ mtime' = rStamp[r]
    /\ generation' = generation + 1
    /\ rAt' = [rAt EXCEPT ![r] = After(r)]
    /\ rStamp' = [rStamp EXCEPT ![r] = 0]
    /\ rValues' = [rValues EXCEPT ![r] = Nothing]
    /\ UNCHANGED <<fileVars, writerVars, consumerVars, historyVars>>

\* The generation is read before the values: a save in between is seen next time.
Compare ==
    /\ rAt[Consumer] = "polled"
    /\ rAt' = [rAt EXCEPT ![Consumer] = IF seen = generation THEN "idle" ELSE "apply"]
    /\ seen' = generation
    /\ UNCHANGED <<fileVars, configVars, writerVars, rStamp, rValues, applied, historyVars>>

\* What the detector has once it takes over the options in S.
Taking(S) == [o \in Options |-> IF o \in S THEN loaded[o] ELSE applied[o]]

Apply ==
    /\ rAt[Consumer] = "apply"
    /\ applied' = Taking(Live)
    /\ rAt' = [rAt EXCEPT ![Consumer] = "idle"]
    /\ UNCHANGED <<fileVars, configVars, writerVars, rStamp, rValues, seen, historyVars>>

\* A run begins: the camera and the frame source are resolved anew.
SetUp ==
    /\ rAt[Consumer] = "idle"
    /\ applied' = Taking(PerRun)
    /\ UNCHANGED <<fileVars, configVars, writerVars, readerVars, seen, historyVars>>
-----------------------------------------------------------------------------
(* write_options *)

\* Mutant: the lines are read before the lock is taken.
BeginSaveUnlocked(w, u) ==
    /\ wAt[w] = "idle"
    /\ saves < MaxSaves
    /\ saves' = saves + 1
    /\ lock' = w
    /\ \E f \in Readable : wLines' = [wLines EXCEPT ![w] = Over(u, f)]
    /\ asked' = Over(u, asked)
    /\ crossed' = (crossed \/ torn)
    /\ wAt' = [wAt EXCEPT ![w] = "replace"]
    /\ UNCHANGED <<fileVars, configVars, readerVars, consumerVars, blind>>

\* Under the lock, the lines of the file with the updates put in.
BeginSave(w, u) ==
    /\ wAt[w] = "idle"
    /\ lock = Free
    /\ saves < MaxSaves
    /\ saves' = saves + 1
    /\ lock' = w
    /\ \E f \in Readable : wLines' = [wLines EXCEPT ![w] = Over(u, f)]
    /\ asked' = Over(u, asked)
    /\ crossed' = (crossed \/ torn)
    /\ wAt' = [wAt EXCEPT ![w] = "replace"]
    /\ UNCHANGED <<fileVars, configVars, readerVars, consumerVars, blind>>

\* The temporary file takes the place of the settings file in one step.
Replace(w) ==
    /\ wAt[w] = "replace"
    /\ disk' = wLines[w]
    /\ torn' = FALSE
    /\ stamp' = stamp + 1
    /\ wAt' = [wAt EXCEPT ![w] = "reopen"]
    /\ wLines' = [wLines EXCEPT ![w] = Nothing]
    /\ UNCHANGED <<configVars, lock, readerVars, consumerVars, historyVars>>

\* An error before that: the temporary file is removed and nothing has changed.
ReplaceFails(w) ==
    /\ wAt[w] = "replace"
    /\ lock' = Free
    /\ wAt' = [wAt EXCEPT ![w] = "idle"]
    /\ wLines' = [wLines EXCEPT ![w] = Nothing]
    /\ asked' = disk
    /\ UNCHANGED <<fileVars, configVars, readerVars, consumerVars, saves, crossed, blind>>

\* The parser that everybody shares is an empty one until it has read the file.
Reopen(w) ==
    /\ wAt[w] = "reopen"
    /\ loaded' = Nothing
    /\ wAt' = [wAt EXCEPT ![w] = "reread"]
    /\ UNCHANGED <<fileVars, mtime, generation, lock, wLines, readerVars, consumerVars,
                   historyVars>>

Reread(w) ==
    /\ wAt[w] = "reread"
    /\ loaded' \in Readable
    /\ wAt' = [wAt EXCEPT ![w] = "stamp"]
    /\ UNCHANGED <<fileVars, mtime, generation, lock, wLines, readerVars, consumerVars,
                   historyVars>>

\* A half-written file raises out of the save, the generation unchanged.
RereadFails(w) ==
    /\ wAt[w] = "reread"
    /\ torn
    /\ loaded' \in Readable
    /\ lock' = Free
    /\ wAt' = [wAt EXCEPT ![w] = "idle"]
    /\ UNCHANGED <<fileVars, mtime, generation, wLines, readerVars, consumerVars, historyVars>>

\* Mutant: a save of the page is no new generation.
StampSameGeneration(w) ==
    /\ wAt[w] = "stamp"
    /\ mtime' = stamp
    /\ lock' = Free
    /\ wAt' = [wAt EXCEPT ![w] = "idle"]
    /\ UNCHANGED <<fileVars, loaded, generation, wLines, readerVars, consumerVars, historyVars>>

Stamp(w) ==
    /\ wAt[w] = "stamp"
    /\ mtime' = stamp
    /\ generation' = generation + 1
    /\ lock' = Free
    /\ wAt' = [wAt EXCEPT ![w] = "idle"]
    /\ UNCHANGED <<fileVars, loaded, wLines, readerVars, consumerVars, historyVars>>
-----------------------------------------------------------------------------
(* The editor outside *)

Stamping == \E w \in Writers : wAt[w] = "stamp"
Rewriting == \E w \in Writers : wAt[w] = "replace"

BeginEdit(u) ==
    /\ ~torn
    /\ saves < MaxSaves
    /\ saves' = saves + 1
    /\ disk' = Over(u, disk)
    /\ torn' = TRUE
    /\ stamp' = stamp + 1
    /\ asked' = Over(u, asked)
    /\ crossed' = (crossed \/ Rewriting)
    /\ blind' = (blind \/ Stamping)
    /\ UNCHANGED <<configVars, writerVars, readerVars, consumerVars>>

EndEdit ==
    /\ torn
    /\ torn' = FALSE
    /\ stamp' = stamp + 1
    /\ blind' = (blind \/ Stamping)
    /\ UNCHANGED <<disk, configVars, writerVars, readerVars, consumerVars, saves, asked, crossed>>
-----------------------------------------------------------------------------
Reload(r) == Poll(r) \/ Parse(r) \/ ParseFails(r) \/ Install(r)
Refresh == Reload(Consumer) \/ Compare \/ Apply
FinishSave(w) == Replace(w) \/ Reopen(w) \/ Reread(w) \/ Stamp(w)
FailSave(w) == ReplaceFails(w) \/ RereadFails(w)

Next ==
    \/ \E r \in Readers : Reload(r)
    \/ Compare \/ Apply \/ SetUp
    \/ \E w \in Writers : FinishSave(w) \/ FailSave(w) \/ \E u \in Updates : BeginSave(w, u)
    \/ \E u \in Updates : BeginEdit(u)
    \/ EndEdit

Spec == Init /\ [][Next]_configFileVars
-----------------------------------------------------------------------------
TypeOK ==
    /\ disk \in Contents /\ torn \in BOOLEAN /\ stamp \in Nat
    /\ saves \in Nat /\ loaded \in Contents /\ mtime \in Nat /\ generation \in Nat
    /\ lock \in Writers \cup {Free}
    /\ wAt \in [Writers -> {"idle", "replace", "reopen", "reread", "stamp"}]
    /\ wLines \in [Writers -> Contents]
    /\ rAt \in [Readers -> {"idle", "parse", "install", "polled", "apply"}]
    /\ rStamp \in [Readers -> Nat]
    /\ rValues \in [Readers -> Contents]
    /\ seen \in Nat \cup {-1} /\ applied \in Contents
    /\ asked \in Contents /\ crossed \in BOOLEAN /\ blind \in BOOLEAN

\* When the time remembered is the time of the file, what is loaded is what the
\* file says: a change can be late but never lost.  (config.py 38-43 and 68-71.)
\* The one exception is an outside save between a writer's read and its stamp.
StampTellsTruth == ~blind /\ ~torn /\ mtime = stamp => loaded = disk

\* Two requests that save at the same time, and an editor that saves between
\* them, all find their change in the file: nobody's is written over.  (The
\* exception is an outside save while a request holds lines it read before.)
SavesAreKept == ~crossed /\ ~Rewriting => disk = asked

\* The detector that has caught up with the generation works with what is loaded,
\* as far as it looks during a run, whichever route a change came by.
AppliedIsLoaded ==
    seen = generation /\ mtime = stamp /\ lock = Free /\ rAt[Consumer] # "apply"
        => \A o \in Live : applied[o] = loaded[o]

\* Once nobody edits the file any more, a detector at work ends up with what it says
\* of the options that are to take effect during a run.
SettingsArrive == <>[](~blind /\ ~torn => \A o \in Live : applied[o] = disk[o])
=============================================================================
