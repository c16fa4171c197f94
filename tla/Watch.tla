-------------------------------- MODULE Watch --------------------------------
(***************************************************************************)
(* From a saved file to a loaded configuration: the file watcher           *)
(* (internal/watch/watch.go), its callback and the order in which          *)
(* cmd/localfront reads the template and seed files, at startup and in     *)
(* every reload.                                                           *)
(*                                                                         *)
(* One goroutine at a time reads the files: serve's at startup, then the   *)
(* watcher's, which calls reload from its select loop, so no event is      *)
(* taken from the queue during a reload.  The user saves files at any      *)
(* moment.  A version of a file is numbered, and "good", "bad" (it cannot  *)
(* be parsed, resolved or compiled) or "missing".  What reload does with   *)
(* compiled functions is module Reload; here a load that succeeds is one   *)
(* step that replaces `loaded`.                                            *)
(*                                                                         *)
(* Time passes in ticks, at any moment.  `idle` and `bursts` are history   *)
(* variables: no step depends on them; they say what the debounce is for.  *)
(***************************************************************************)
EXTENDS Naturals, Sequences

CONSTANTS
  Templates,  \* the --template files
  Seeds,      \* the --kvs-seed files
  Dirs,       \* their directories
  DirOf,      \* DirOf[f]: the directory of f
  None,       \* no version
  Noise,      \* an event Watch filters out: another file, or only Chmod
  debounceInterval,  \* in ticks
  QueueCap,   \* capacity of the kernel's event queue
  MaxSaves,   \* bound: saves in a behaviour
  MaxNoise    \* bound: filtered events in a behaviour

Files == Templates \cup Seeds

ASSUME FilesAssumption == Templates \cap Seeds = {} /\ Noise \notin Files
ASSUME DirAssumption == DirOf \in [Files -> Dirs]
ASSUME IntervalAssumption == debounceInterval \in Nat
ASSUME BoundAssumption == QueueCap \in Nat /\ MaxSaves \in Nat /\ MaxNoise \in Nat

Version == [number : 0 .. MaxSaves, is : {"good", "bad", "missing"}]

ASSUME NoneAssumption == None \notin Version

VARIABLES
  disk,         \* disk[f]: the version of f on disk
  saves,        \* saves so far
  noises,       \* filtered events so far
  events,       \* events the watcher has not received yet
  lost,         \* files saved without an event, and not read since
  watchedDirs,  \* directories given to fsnotify
  pc,           \* what the reading goroutine does
  booted,       \* has serve finished its first load?
  unread,       \* files this load has not read yet
  seen,         \* seen[f]: the version this load read
  loaded,       \* loaded[f]: the version in the running configuration
  fetchFailed,  \* did the last load fail for another reason than its files?
  timer,        \* the debounce timer: "off", "armed" or "fired"
  age,          \* ticks since the debounce timer was armed, while it is
  idle,         \* history: ticks since an event of a watched file was received
  bursts,       \* history: such events that came after a whole interval without
  reloads,      \* reloads begun so far
  cancelled     \* has the context been cancelled?

userVars == <<disk, saves, noises>>
queueVars == <<events, lost, watchedDirs>>
loadVars == <<unread, seen, loaded, fetchFailed>>
timerVars == <<timer, age>>
historyVars == <<idle, bursts>>
loopVars == <<timerVars, historyVars, reloads>>
vars == <<userVars, queueVars, pc, booted, loadVars, loopVars, cancelled>>

TypeOK ==
  /\ disk \in [Files -> Version]
  /\ saves \in 0 .. MaxSaves /\ noises \in 0 .. MaxNoise
  /\ events \in Seq(Files \cup {Noise}) /\ Len(events) <= QueueCap
  /\ lost \in SUBSET Files
  /\ watchedDirs \in SUBSET Dirs
  /\ pc \in {"templates", "seeds", "adding", "loop", "ended"}
  /\ booted \in BOOLEAN
  /\ unread \in SUBSET Files
  /\ seen \in [Files -> Version \cup {None}]
  /\ loaded \in [Files -> Version \cup {None}]
  /\ fetchFailed \in BOOLEAN
  /\ timer \in {"off", "armed", "fired"}
  /\ age \in 0 .. debounceInterval
  /\ idle \in 0 .. debounceInterval /\ bursts \in Nat /\ reloads \in Nat
  /\ cancelled \in BOOLEAN

Init ==
  /\ disk = [f \in Files |-> [number |-> 0, is |-> "good"]]
  /\ saves = 0 /\ noises = 0
  /\ events = <<>>
  /\ lost = {}
  /\ watchedDirs = {}
  /\ pc = "templates"
  /\ booted = FALSE
  /\ unread = Files
  /\ seen = [f \in Files |-> None]
  /\ loaded = [f \in Files |-> None]
  /\ fetchFailed = FALSE
  /\ timer = "off"
  /\ age = 0
  /\ idle = debounceInterval /\ bursts = 0 /\ reloads = 0
  /\ cancelled = FALSE

-----------------------------------------------------------------------------
(* The user and the kernel.                                                *)

(* An event reaches the queue when the directory is watched and the queue  *)
(* has room; Watch only logs the overflow error it gets otherwise.         *)
Queued(dir) == dir \in watchedDirs /\ Len(events) < QueueCap

(* A write, a rename over the file or its removal.  An editor's save is    *)
(* one or several of these, the versions in between possibly bad.          *)
Save(f) ==
  /\ saves < MaxSaves
  /\ saves' = saves + 1
  /\ \E s \in {"good", "bad", "missing"} :
       disk' = [disk EXCEPT ![f] = [number |-> saves + 1, is |-> s]]
  /\ IF Queued(DirOf[f])
     THEN events' = Append(events, f) /\ UNCHANGED lost
     ELSE lost' = lost \cup {f} /\ UNCHANGED events
  /\ UNCHANGED <<noises, watchedDirs, pc, booted, loadVars, loopVars, cancelled>>

(* An event that leaves every watched file's content alone.                *)
Disturb(dir) ==
  /\ noises < MaxNoise
  /\ Queued(dir)
  /\ noises' = noises + 1
  /\ events' = Append(events, Noise)
  /\ UNCHANGED <<disk, saves, lost, watchedDirs, pc, booted, loadVars, loopVars, cancelled>>

Cancel ==
  /\ ~cancelled
  /\ cancelled' = TRUE
  /\ UNCHANGED <<userVars, queueVars, pc, booted, loadVars, loopVars>>

-----------------------------------------------------------------------------
(* Loading: loadConfig, then buildFunctions.                               *)

(* A failed reload is logged and the loop goes on; at startup serve        *)
(* returns the error.                                                      *)
AfterFailure == IF booted THEN "loop" ELSE "ended"

Read(f) ==
  /\ seen' = [seen EXCEPT ![f] = disk[f]]
  /\ unread' = unread \ {f}
  /\ lost' = lost \ {f}

ReadTemplate(f) ==
  /\ pc = "templates"
  /\ f \in unread \cap Templates
  /\ Read(f)
  /\ pc' = IF disk[f].is = "missing" THEN AfterFailure ELSE pc
  /\ UNCHANGED <<userVars, events, watchedDirs, booted, loaded, fetchFailed, loopVars, cancelled>>

(* config.Load, once every template has been read.                         *)
LoadTemplates ==
  /\ pc = "templates"
  /\ unread \cap Templates = {}
  /\ pc' = IF \E f \in Templates : seen[f].is = "bad" THEN AfterFailure ELSE "seeds"
  /\ UNCHANGED <<userVars, queueVars, booted, loadVars, loopVars, cancelled>>

ReadSeed(f) ==
  /\ pc = "seeds"
  /\ f \in unread
  /\ Read(f)
  /\ pc' = IF disk[f].is # "good" THEN AfterFailure ELSE pc
  /\ UNCHANGED <<userVars, events, watchedDirs, booted, loaded, fetchFailed, loopVars, cancelled>>

(* An ImportSource cannot be fetched from the object store.  Nothing       *)
(* retries.                                                                *)
FetchFails ==
  /\ pc = "seeds"
  /\ pc' = AfterFailure
  /\ fetchFailed' = TRUE
  /\ UNCHANGED <<userVars, queueVars, booted, unread, seen, loaded, loopVars, cancelled>>

(* The functions are compiled, the configuration is swapped in.            *)
Loaded ==
  /\ pc = "seeds"
  /\ unread = {}
  /\ loaded' = seen
  /\ pc' = IF booted THEN "loop" ELSE "adding"
  /\ booted' = TRUE
  /\ UNCHANGED <<userVars, queueVars, unread, seen, fetchFailed, loopVars, cancelled>>

Load ==
  \/ \E f \in Files : ReadTemplate(f) \/ ReadSeed(f)
  \/ LoadTemplates \/ FetchFails \/ Loaded

-----------------------------------------------------------------------------
(* Watch, in a goroutine serve starts after the first load.                *)

AddDir(dir) ==
  /\ pc = "adding"
  /\ dir \in {DirOf[f] : f \in Files} \ watchedDirs
  /\ watchedDirs' = watchedDirs \cup {dir}
  /\ UNCHANGED <<userVars, events, lost, pc, booted, loadVars, loopVars, cancelled>>

(* w.Add fails: hot reload is disabled, the server goes on.                *)
AddFails ==
  /\ pc = "adding"
  /\ watchedDirs # {DirOf[f] : f \in Files}
  /\ pc' = "ended"
  /\ UNCHANGED <<userVars, queueVars, booted, loadVars, loopVars, cancelled>>

StartLoop ==
  /\ pc = "adding"
  /\ watchedDirs = {DirOf[f] : f \in Files}
  /\ pc' = "loop"
  /\ UNCHANGED <<userVars, queueVars, booted, loadVars, loopVars, cancelled>>

(* An event of a watched file opens a burst unless one is going on.        *)
CountBurst ==
  /\ idle' = 0
  /\ bursts' = IF idle = debounceInterval THEN bursts + 1 ELSE bursts

(* Mutant: the old timer's channel is dropped but no new timer is armed    *)
(* when it had fired already.                                              *)
Receive_DropsFired ==
  /\ pc = "loop"
  /\ events # <<>>
  /\ events' = Tail(events)
  /\ IF Head(events) = Noise
     THEN UNCHANGED <<timerVars, historyVars>>
     ELSE /\ timer' = IF timer = "fired" THEN "off" ELSE "armed"
          /\ age' = 0
          /\ CountBurst
  /\ UNCHANGED <<userVars, lost, watchedDirs, pc, booted, loadVars, reloads, cancelled>>

(* Mutant: a timer that is running is left to run.                         *)
Receive_KeepsTimer ==
  /\ pc = "loop"
  /\ events # <<>>
  /\ events' = Tail(events)
  /\ IF Head(events) = Noise
     THEN UNCHANGED <<timerVars, historyVars>>
     ELSE /\ IF timer = "armed" THEN UNCHANGED timerVars ELSE timer' = "armed" /\ age' = 0
          /\ CountBurst
  /\ UNCHANGED <<userVars, lost, watchedDirs, pc, booted, loadVars, reloads, cancelled>>

(* An event of a watched file stops the timer, fired or not, and arms a    *)
(* new one.                                                                *)
Receive ==
  /\ pc = "loop"
  /\ events # <<>>
  /\ events' = Tail(events)
  /\ IF Head(events) = Noise
     THEN UNCHANGED <<timerVars, historyVars>>
     ELSE /\ timer' = "armed"
          /\ age' = 0
          /\ CountBurst
  /\ UNCHANGED <<userVars, lost, watchedDirs, pc, booted, loadVars, reloads, cancelled>>

Older(ticks) == IF ticks < debounceInterval THEN ticks + 1 ELSE ticks

(* Time passes, whatever the goroutines do.                                *)
Tick ==
  /\ idle < debounceInterval \/ (timer = "armed" /\ age < debounceInterval)
  /\ idle' = Older(idle)
  /\ age' = IF timer = "armed" THEN Older(age) ELSE age
  /\ UNCHANGED <<userVars, queueVars, pc, booted, loadVars, timer, bursts, reloads, cancelled>>

(* debounceInterval has passed.                                            *)
Expire ==
  /\ timer = "armed"
  /\ age = debounceInterval
  /\ timer' = "fired"
  /\ age' = 0
  /\ UNCHANGED <<userVars, queueVars, pc, booted, loadVars, historyVars, reloads, cancelled>>

(* Mutant: only the templates are read again.                              *)
Fire_TemplatesOnly ==
  /\ pc = "loop"
  /\ timer = "fired"
  /\ timer' = "off"
  /\ reloads' = reloads + 1
  /\ unread' = Templates
  /\ fetchFailed' = FALSE
  /\ pc' = "templates"
  /\ UNCHANGED <<userVars, queueVars, booted, seen, loaded, age, historyVars, cancelled>>

(* The timer's case: onChange, which begins a reload.                      *)
Fire ==
  /\ pc = "loop"
  /\ timer = "fired"
  /\ timer' = "off"
  /\ reloads' = reloads + 1
  /\ unread' = Files
  /\ seen' = [f \in Files |-> None]
  /\ fetchFailed' = FALSE
  /\ pc' = "templates"
  /\ UNCHANGED <<userVars, queueVars, booted, loaded, age, historyVars, cancelled>>

(* ctx.Done(); the deferred calls stop the timer and close the watcher.    *)
Return ==
  /\ pc = "loop"
  /\ cancelled
  /\ pc' = "ended"
  /\ timer' = "off"
  /\ age' = 0
  /\ UNCHANGED <<userVars, queueVars, booted, loadVars, historyVars, reloads, cancelled>>

Loop == Receive \/ Expire \/ Fire \/ Return

-----------------------------------------------------------------------------
Next ==
  \/ \E f \in Files : Save(f)
  \/ \E dir \in Dirs : Disturb(dir) \/ AddDir(dir)
  \/ Cancel \/ Tick
  \/ Load \/ AddFails \/ StartLoop \/ Loop

Spec == Init /\ [][Next]_vars

(***************************************************************************)
(* Fairness: file and object store reads return, time passes, an armed     *)
(* timer expires, and select takes a case that stays ready.  Nobody has to *)
(* save a file or cancel the context.                                      *)
(***************************************************************************)
FairSpec ==
  /\ Spec
  /\ WF_vars(Load)
  /\ WF_vars((\E dir \in Dirs : AddDir(dir)) \/ AddFails \/ StartLoop)
  /\ WF_vars(Receive) /\ WF_vars(Tick) /\ WF_vars(Expire) /\ WF_vars(Fire)

-----------------------------------------------------------------------------
(* Properties.                                                             *)

(* Nothing the watcher has yet to do would read the files again.           *)
Quiet ==
  /\ pc = "loop"
  /\ timer = "off"
  /\ \A i \in 1 .. Len(events) : events[i] = Noise

Loadable == \A f \in Files : disk[f].is = "good"

(***************************************************************************)
(* When the watcher is quiet and the files on disk are good, they are what *)
(* is loaded: no interleaving of saves with events, the debounce timer and *)
(* a running reload (also one that fails half way) leaves an older version *)
(* in place.  Excused are saves that raised no event and a load that the   *)
(* object store made fail.                                                 *)
(***************************************************************************)
QuietMeansCurrent ==
  Quiet /\ Loadable /\ lost = {} /\ ~fetchFailed => loaded = disk

(***************************************************************************)
(* "hot-reloads them on file change" (README.md:23), without the excuse    *)
(* for a save that raised no event.                                        *)
(***************************************************************************)
EveryChangeIsLoaded ==
  Quiet /\ Loadable /\ ~fetchFailed => loaded = disk

(***************************************************************************)
(* "calls onChange once per debounced change burst" (watch.go:18): however *)
(* many events a burst has, whenever the timer and the queue race, reloads *)
(* do not outnumber the bursts.  A burst ends when no event of a watched   *)
(* file has been received for debounceInterval; events that other events   *)
(* or a reload kept waiting count when they are received.                  *)
(***************************************************************************)
OneReloadPerBurst == reloads <= bursts

(***************************************************************************)
(* When saving has stopped, good files end up loaded for good, unless the  *)
(* watcher ended, a save raised no event or the object store failed.       *)
(***************************************************************************)
Converges ==
  <>[](loaded = disk \/ ~Loadable \/ lost # {} \/ fetchFailed \/ pc = "ended")
=============================================================================
