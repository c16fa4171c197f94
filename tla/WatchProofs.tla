----------------------------- MODULE WatchProofs -----------------------------
(***************************************************************************)
(* Proofs about the watcher, for any set of files and directories, any     *)
(* queue capacity and any number of saves.                                 *)
(***************************************************************************)
EXTENDS Watch, TLAPS

InQueue(f) == \E i \in 1 .. Len(events) : events[i] = f

(* The watcher has still something to do about the file, or was never told *)
(* that it changed.                                                        *)
Pending(f) == f \in lost \/ timer # "off" \/ InQueue(f)

(* The loop and the first watches come after the first load; the timer     *)
(* runs only in the loop.                                                  *)
Phases ==
  /\ pc \in {"adding", "loop"} => booted
  /\ timer # "off" => pc = "loop"

(* What a running load has read is still on disk, or the load will be      *)
(* followed by another; and nothing that would have failed it.             *)
ReadIsTracked ==
  pc \in {"templates", "seeds"} =>
    \A f \in Files \ unread : seen[f] # None /\ (seen[f] = disk[f] \/ Pending(f))

ReadIsUsable ==
  /\ pc = "templates" => Seeds \subseteq unread
  /\ pc = "seeds" =>
       /\ unread \cap Templates = {}
       /\ \A f \in Files \ unread : seen[f].is # "bad"
  /\ pc \in {"templates", "seeds"} => \A f \in Files \ unread : seen[f].is # "missing"

(* After a load: what it installed is on disk, or what made it fail still  *)
(* is, but for the files something is pending for.                         *)
LoadedIsTracked == \A f \in Files : loaded[f] = disk[f] \/ Pending(f)

FailureIsTracked ==
  \E f \in Files :
    /\ seen[f] # None /\ seen[f].is # "good"
    /\ seen[f] = disk[f] \/ Pending(f)

LoadIsTracked ==
  /\ pc = "adding" => LoadedIsTracked
  /\ pc = "loop" => fetchFailed \/ LoadedIsTracked \/ FailureIsTracked

(* A timer that runs was armed by the last event received; one that fired  *)
(* or was consumed ended a burst; one that is armed or fired stands for a  *)
(* burst no reload has answered yet.                                       *)
TimerIsTimely ==
  /\ timer = "armed" => age = idle
  /\ timer # "armed" /\ pc # "ended" => idle = debounceInterval

BurstsAreAnsweredOnce == reloads + (IF timer = "off" THEN 0 ELSE 1) <= bursts

Debounced == TimerIsTimely /\ BurstsAreAnsweredOnce

(* The inductive invariant.                                                *)
WatchInv ==
  /\ TypeOK
  /\ Phases
  /\ ReadIsTracked
  /\ ReadIsUsable
  /\ LoadIsTracked
  /\ Debounced
-----------------------------------------------------------------------------
(* The queue: an event appended is in it, and none is lost by appending.   *)

LEMMA AppendQueue ==
  ASSUME NEW x \in Files \cup {Noise}, events \in Seq(Files \cup {Noise}),
         events' = Append(events, x)
  PROVE  /\ events' \in Seq(Files \cup {Noise})
         /\ Len(events') = Len(events) + 1
         /\ \A f : InQueue(f) => InQueue(f)'
         /\ InQueue(x)'
  <1>1. Len(events) \in Nat
    OBVIOUS
  <1>2. /\ events' \in Seq(Files \cup {Noise})
        /\ Len(events') = Len(events) + 1
        /\ \A i \in 1 .. Len(events) : events'[i] = events[i]
        /\ events'[Len(events) + 1] = x
    OBVIOUS
  <1>3. \A f : InQueue(f) => InQueue(f)'
    BY <1>1, <1>2 DEF InQueue
  <1>4. InQueue(x)'
    BY <1>1, <1>2 DEF InQueue
  <1>5. QED
    BY <1>2, <1>3, <1>4

LEMMA TailQueue ==
  ASSUME events \in Seq(Files \cup {Noise}), events # <<>>, events' = Tail(events)
  PROVE  /\ events' \in Seq(Files \cup {Noise})
         /\ Len(events') = Len(events) - 1
         /\ \A f : InQueue(f) /\ f # Head(events) => InQueue(f)'
  <1>1. Len(events) \in Nat /\ Len(events) # 0
    OBVIOUS
  <1>2. /\ events' \in Seq(Files \cup {Noise})
        /\ Len(events') = Len(events) - 1
        /\ \A i \in 1 .. Len(events) - 1 : events'[i] = events[i + 1]
        /\ Head(events) = events[1]
    BY <1>1
  <1>3. ASSUME NEW f, InQueue(f), f # Head(events)
        PROVE  InQueue(f)'
    <2>1. PICK i \in 1 .. Len(events) : events[i] = f
      BY <1>3 DEF InQueue
    <2>2. i # 1 /\ i - 1 \in 1 .. Len(events) - 1 /\ (i - 1) + 1 = i
      BY <2>1, <1>1, <1>2, <1>3
    <2>3. events'[i - 1] = f
      BY <2>1, <2>2, <1>2
    <2>4. QED
      BY <2>2, <2>3, <1>2 DEF InQueue
  <1>4. QED
    BY <1>2, <1>3

(* A step that leaves the queue, the lost events and the timer alone       *)
(* leaves what is pending alone.                                           *)
LEMMA SamePending ==
  ASSUME UNCHANGED <<events, lost, timer>>
  PROVE  \A f : Pending(f)' <=> Pending(f)
  BY DEF Pending, InQueue

-----------------------------------------------------------------------------
(* Each step preserves the invariant.                                      *)

LEMMA InitWatch == Init => WatchInv
  <1> SUFFICES ASSUME Init PROVE WatchInv
    OBVIOUS
  <1>1. TypeOK
    <2>1. events \in Seq(Files \cup {Noise}) /\ Len(events) = 0
      BY DEF Init
    <2>2. disk \in [Files -> Version]
      BY BoundAssumption DEF Init, Version
    <2>3. /\ saves \in 0 .. MaxSaves /\ noises \in 0 .. MaxNoise
          /\ Len(events) <= QueueCap
          /\ age \in 0 .. debounceInterval /\ idle \in 0 .. debounceInterval
      BY <2>1, BoundAssumption, IntervalAssumption DEF Init
    <2>4. /\ seen \in [Files -> Version \cup {None}]
          /\ loaded \in [Files -> Version \cup {None}]
      BY DEF Init
    <2>5. QED
      BY <2>1, <2>2, <2>3, <2>4 DEF Init, TypeOK
  <1>2. pc = "templates" /\ unread = Files /\ timer = "off" /\ reloads = 0 /\ bursts = 0 /\ idle = debounceInterval
    BY DEF Init
  <1>3. Phases /\ ReadIsTracked /\ LoadIsTracked /\ Debounced
    BY <1>2 DEF Phases, ReadIsTracked, LoadIsTracked, Debounced, TimerIsTimely, BurstsAreAnsweredOnce
  <1>4. ReadIsUsable
    BY <1>2 DEF ReadIsUsable, Files
  <1>5. QED
    BY <1>1, <1>3, <1>4 DEF WatchInv

(* A save that raises an event puts it in the queue; one that raises none  *)
(* is lost.  Either way the file is pending, and no other file changed.    *)
LEMMA SavePreserves ==
  ASSUME NEW f \in Files, WatchInv, Save(f)
  PROVE  WatchInv'
  <1> USE DEF WatchInv
  <1>1. PICK s \in {"good", "bad", "missing"} :
          disk' = [disk EXCEPT ![f] = [number |-> saves + 1, is |-> s]]
    BY DEF Save
  <1>2. /\ UNCHANGED <<noises, watchedDirs, pc, booted, unread, seen, loaded, fetchFailed,
                       timer, age, idle, bursts, reloads, cancelled>>
        /\ saves < MaxSaves /\ saves' = saves + 1
    BY DEF Save, loadVars, loopVars, timerVars, historyVars
  <1>3. disk' \in [Files -> Version] /\ \A g \in Files \ {f} : disk'[g] = disk[g]
    <2>1. saves + 1 \in 0 .. MaxSaves
      BY <1>2, BoundAssumption DEF TypeOK
    <2>2. [number |-> saves + 1, is |-> s] \in Version
      BY <2>1 DEF Version
    <2>3. QED
      BY <1>1, <2>2 DEF TypeOK
  <1>4. /\ events' \in Seq(Files \cup {Noise}) /\ Len(events') <= QueueCap
        /\ lost' \in SUBSET Files
        /\ Pending(f)'
        /\ \A g : Pending(g) => Pending(g)'
    <2>1. CASE Queued(DirOf[f])
      <3>1. events' = Append(events, f) /\ lost' = lost
        BY <2>1 DEF Save
      <3>2. /\ events' \in Seq(Files \cup {Noise})
            /\ Len(events') = Len(events) + 1
            /\ \A g : InQueue(g) => InQueue(g)'
            /\ InQueue(f)'
        BY <3>1, AppendQueue DEF TypeOK
      <3>3. Len(events) \in Nat /\ Len(events) < QueueCap
        BY <2>1 DEF Queued, TypeOK
      <3>4. QED
        BY <3>1, <3>2, <3>3, <1>2, BoundAssumption DEF Pending, TypeOK
    <2>2. CASE ~Queued(DirOf[f])
      <3>1. lost' = lost \cup {f} /\ events' = events
        BY <2>2 DEF Save
      <3>2. QED
        BY <3>1, <1>2 DEF Pending, InQueue, TypeOK
    <2>3. QED
      BY <2>1, <2>2
  <1>5. TypeOK'
    <2>1. saves' \in 0 .. MaxSaves
      BY <1>2, BoundAssumption DEF TypeOK
    <2>2. QED
      BY <2>1, <1>2, <1>3, <1>4 DEF TypeOK
  <1>6. \A g \in Files : disk'[g] = disk[g] \/ Pending(g)'
    BY <1>3, <1>4
  <1>7. Phases' /\ ReadIsUsable' /\ Debounced'
    BY <1>2 DEF Phases, ReadIsUsable, Debounced, TimerIsTimely, BurstsAreAnsweredOnce
  <1>8. ReadIsTracked'
    BY <1>2, <1>4, <1>6 DEF ReadIsTracked
  <1>9. LoadIsTracked'
    <2>1. LoadedIsTracked => LoadedIsTracked'
      BY <1>2, <1>4, <1>6 DEF LoadedIsTracked
    <2>2. FailureIsTracked => FailureIsTracked'
      BY <1>2, <1>4, <1>6 DEF FailureIsTracked
    <2>3. QED
      BY <2>1, <2>2, <1>2 DEF LoadIsTracked
  <1>10. QED
    BY <1>5, <1>7, <1>8, <1>9

LEMMA DisturbPreserves ==
  ASSUME NEW dir \in Dirs, WatchInv, Disturb(dir)
  PROVE  WatchInv'
  <1> USE DEF WatchInv
  <1>1. /\ UNCHANGED <<disk, saves, lost, watchedDirs, pc, booted, unread, seen, loaded,
                       fetchFailed, timer, age, idle, bursts, reloads, cancelled>>
        /\ noises < MaxNoise /\ noises' = noises + 1
        /\ events' = Append(events, Noise) /\ Len(events) < QueueCap
    BY DEF Disturb, Queued, loadVars, loopVars, timerVars, historyVars
  <1>2. /\ events' \in Seq(Files \cup {Noise})
        /\ Len(events') = Len(events) + 1
        /\ \A g : InQueue(g) => InQueue(g)'
    BY <1>1, AppendQueue DEF TypeOK
  <1>3. \A g : Pending(g) => Pending(g)'
    BY <1>1, <1>2 DEF Pending
  <1>4. TypeOK'
    <2>1. Len(events) \in Nat
      BY DEF TypeOK
    <2>2. QED
      BY <2>1, <1>1, <1>2, BoundAssumption DEF TypeOK
  <1>5. Phases' /\ ReadIsUsable' /\ Debounced'
    BY <1>1 DEF Phases, ReadIsUsable, Debounced, TimerIsTimely, BurstsAreAnsweredOnce
  <1>6. ReadIsTracked'
    BY <1>1, <1>3 DEF ReadIsTracked
  <1>7. LoadIsTracked'
    BY <1>1, <1>3 DEF LoadIsTracked, LoadedIsTracked, FailureIsTracked
  <1>8. QED
    BY <1>4, <1>5, <1>6, <1>7

-----------------------------------------------------------------------------
(* Reading.                                                                *)

(* One file read: it is on disk as seen, and what is pending for the       *)
(* others stays pending.                                                   *)
LEMMA ReadTracks ==
  ASSUME NEW f \in Files, TypeOK, Read(f), UNCHANGED <<disk, events, timer>>
  PROVE  /\ seen' \in [Files -> Version \cup {None}]
         /\ unread' \in SUBSET Files /\ lost' \in SUBSET Files
         /\ seen'[f] = disk'[f] /\ seen'[f] # None /\ seen'[f] \in Version
         /\ \A g \in Files \ {f} : seen'[g] = seen[g] /\ (Pending(g)' <=> Pending(g))
  <1>1. disk[f] \in Version /\ disk[f] # None
    BY NoneAssumption DEF TypeOK
  <1>2. /\ seen' \in [Files -> Version \cup {None}]
        /\ seen'[f] = disk'[f] /\ seen'[f] # None /\ seen'[f] \in Version
        /\ \A g \in Files \ {f} : seen'[g] = seen[g]
    BY <1>1 DEF Read, TypeOK
  <1>3. /\ unread' \in SUBSET Files /\ lost' \in SUBSET Files
        /\ \A g \in Files \ {f} : g \in lost' <=> g \in lost
    BY DEF Read, TypeOK
  <1>4. \A g : InQueue(g)' <=> InQueue(g)
    BY DEF InQueue
  <1>5. \A g \in Files \ {f} : Pending(g)' <=> Pending(g)
    BY <1>3, <1>4 DEF Pending
  <1>6. QED
    BY <1>2, <1>3, <1>5

LEMMA ReadTemplatePreserves ==
  ASSUME NEW f \in Files, WatchInv, ReadTemplate(f)
  PROVE  WatchInv'
  <1> USE DEF WatchInv
  <1>1. /\ pc = "templates" /\ f \in unread /\ f \in Templates /\ Read(f)
        /\ pc' = IF disk[f].is = "missing" THEN AfterFailure ELSE pc
        /\ UNCHANGED <<disk, saves, noises, events, watchedDirs, booted, loaded, fetchFailed,
                       timer, age, idle, bursts, reloads, cancelled>>
    BY DEF ReadTemplate, userVars, loopVars, timerVars, historyVars
  <1>2. /\ seen' \in [Files -> Version \cup {None}]
        /\ unread' \in SUBSET Files /\ lost' \in SUBSET Files
        /\ seen'[f] = disk'[f] /\ seen'[f] # None /\ seen'[f] \in Version
        /\ \A g \in Files \ {f} : seen'[g] = seen[g] /\ (Pending(g)' <=> Pending(g))
    BY <1>1, ReadTracks DEF TypeOK
  <1>3. pc' \in {"templates", "loop", "ended"} /\ (pc' = "loop" => booted)
    BY <1>1 DEF AfterFailure, TypeOK
  <1>4. TypeOK'
    BY <1>1, <1>2, <1>3 DEF TypeOK
  <1>5. Phases' /\ Debounced'
    BY <1>1, <1>3 DEF Phases, Debounced, TimerIsTimely, BurstsAreAnsweredOnce
  <1>6. unread' = unread \ {f} /\ f \notin Seeds
    BY <1>1, FilesAssumption DEF Read
  <1>7. ReadIsTracked'
    BY <1>1, <1>2, <1>3, <1>6 DEF ReadIsTracked
  <1>8. ReadIsUsable'
    BY <1>1, <1>2, <1>3, <1>6 DEF ReadIsUsable, AfterFailure
  <1>9. LoadIsTracked'
    <2>1. CASE pc' = "loop"
      <3>1. seen'[f].is # "good"
        BY <2>1, <1>1, <1>2
      <3>2. FailureIsTracked'
        BY <3>1, <1>2 DEF FailureIsTracked
      <3>3. QED
        BY <3>2, <2>1 DEF LoadIsTracked
    <2>2. CASE pc' # "loop"
      BY <2>2, <1>3 DEF LoadIsTracked
    <2>3. QED
      BY <2>1, <2>2
  <1>10. QED
    BY <1>4, <1>5, <1>7, <1>8, <1>9

LEMMA ReadSeedPreserves ==
  ASSUME NEW f \in Files, WatchInv, ReadSeed(f)
  PROVE  WatchInv'
  <1> USE DEF WatchInv
  <1>1. /\ pc = "seeds" /\ f \in unread /\ Read(f)
        /\ pc' = IF disk[f].is # "good" THEN AfterFailure ELSE pc
        /\ UNCHANGED <<disk, saves, noises, events, watchedDirs, booted, loaded, fetchFailed,
                       timer, age, idle, bursts, reloads, cancelled>>
    BY DEF ReadSeed, userVars, loopVars, timerVars, historyVars
  <1>2. /\ seen' \in [Files -> Version \cup {None}]
        /\ unread' \in SUBSET Files /\ lost' \in SUBSET Files
        /\ seen'[f] = disk'[f] /\ seen'[f] # None /\ seen'[f] \in Version
        /\ \A g \in Files \ {f} : seen'[g] = seen[g] /\ (Pending(g)' <=> Pending(g))
    BY <1>1, ReadTracks DEF TypeOK
  <1>3. pc' \in {"seeds", "loop", "ended"} /\ (pc' = "loop" => booted)
    BY <1>1 DEF AfterFailure, TypeOK
  <1>4. TypeOK'
    BY <1>1, <1>2, <1>3 DEF TypeOK
  <1>5. Phases' /\ Debounced'
    BY <1>1, <1>3 DEF Phases, Debounced, TimerIsTimely, BurstsAreAnsweredOnce
  <1>6. unread' = unread \ {f}
    BY <1>1 DEF Read
  <1>7. ReadIsTracked'
    BY <1>1, <1>2, <1>3, <1>6 DEF ReadIsTracked
  <1>8. ReadIsUsable'
    BY <1>1, <1>2, <1>3, <1>6 DEF ReadIsUsable, AfterFailure
  <1>9. LoadIsTracked'
    <2>1. CASE pc' = "loop"
      <3>1. seen'[f].is # "good"
        BY <2>1, <1>1, <1>2
      <3>2. FailureIsTracked'
        BY <3>1, <1>2 DEF FailureIsTracked
      <3>3. QED
        BY <3>2, <2>1 DEF LoadIsTracked
    <2>2. CASE pc' # "loop"
      BY <2>2, <1>3 DEF LoadIsTracked
    <2>3. QED
      BY <2>1, <2>2
  <1>10. QED
    BY <1>4, <1>5, <1>7, <1>8, <1>9

LEMMA LoadTemplatesPreserves ==
  ASSUME WatchInv, LoadTemplates
  PROVE  WatchInv'
  <1> USE DEF WatchInv
  <1>1. /\ pc = "templates" /\ unread \cap Templates = {}
        /\ pc' = IF \E f \in Templates : seen[f].is = "bad" THEN AfterFailure ELSE "seeds"
        /\ UNCHANGED <<disk, saves, noises, events, lost, watchedDirs, booted, unread, seen,
                       loaded, fetchFailed, timer, age, idle, bursts, reloads, cancelled>>
    BY DEF LoadTemplates, userVars, queueVars, loadVars, loopVars, timerVars, historyVars
  <1>2. \A f : Pending(f)' <=> Pending(f)
    BY <1>1, SamePending
  <1>3. pc' \in {"seeds", "loop", "ended"} /\ (pc' = "loop" => booted)
    BY <1>1 DEF AfterFailure, TypeOK
  <1>4. TypeOK'
    BY <1>1, <1>3 DEF TypeOK
  <1>5. Phases' /\ Debounced'
    BY <1>1, <1>3 DEF Phases, Debounced, TimerIsTimely, BurstsAreAnsweredOnce
  <1>6. ReadIsTracked'
    BY <1>1, <1>2, <1>3 DEF ReadIsTracked
  <1>7. ReadIsUsable'
    <2>1. \A f \in Files \ unread : f \in Templates
      BY <1>1 DEF ReadIsUsable, Files
    <2>2. QED
      BY <2>1, <1>1, <1>3 DEF ReadIsUsable, AfterFailure
  <1>8. LoadIsTracked'
    <2>1. CASE pc' = "loop"
      <3>1. PICK f \in Templates : seen[f].is = "bad"
        BY <2>1, <1>1
      <3>2. f \in Files \ unread
        BY <1>1 DEF Files
      <3>3. seen[f] # None /\ (seen[f] = disk[f] \/ Pending(f))
        BY <3>2, <1>1 DEF ReadIsTracked
      <3>4. FailureIsTracked'
        BY <3>1, <3>2, <3>3, <1>1, <1>2 DEF FailureIsTracked
      <3>5. QED
        BY <3>4, <2>1 DEF LoadIsTracked
    <2>2. CASE pc' # "loop"
      BY <2>2, <1>3 DEF LoadIsTracked
    <2>3. QED
      BY <2>1, <2>2
  <1>9. QED
    BY <1>4, <1>5, <1>6, <1>7, <1>8

LEMMA FetchFailsPreserves ==
  ASSUME WatchInv, FetchFails
  PROVE  WatchInv'
  <1> USE DEF WatchInv
  <1>1. /\ pc' = AfterFailure /\ fetchFailed' = TRUE /\ pc = "seeds"
        /\ UNCHANGED <<disk, saves, noises, events, lost, watchedDirs, booted, unread, seen,
                       loaded, timer, age, idle, bursts, reloads, cancelled>>
    BY DEF FetchFails, userVars, queueVars, loopVars, timerVars, historyVars
  <1>2. pc' \in {"loop", "ended"} /\ (pc' = "loop" => booted)
    BY <1>1 DEF AfterFailure, TypeOK
  <1>3. TypeOK'
    BY <1>1, <1>2 DEF TypeOK
  <1>4. Phases' /\ Debounced'
    BY <1>1, <1>2 DEF Phases, Debounced, TimerIsTimely, BurstsAreAnsweredOnce
  <1>5. ReadIsTracked' /\ ReadIsUsable' /\ LoadIsTracked'
    BY <1>1, <1>2 DEF ReadIsTracked, ReadIsUsable, LoadIsTracked
  <1>6. QED
    BY <1>3, <1>4, <1>5

LEMMA LoadedPreserves ==
  ASSUME WatchInv, Loaded
  PROVE  WatchInv'
  <1> USE DEF WatchInv
  <1>1. /\ pc = "seeds" /\ unread = {} /\ loaded' = seen /\ booted' = TRUE
        /\ pc' = IF booted THEN "loop" ELSE "adding"
        /\ UNCHANGED <<disk, saves, noises, events, lost, watchedDirs, unread, seen,
                       fetchFailed, timer, age, idle, bursts, reloads, cancelled>>
    BY DEF Loaded, userVars, queueVars, loopVars, timerVars, historyVars
  <1>2. pc' \in {"adding", "loop"}
    BY <1>1
  <1>3. \A f : Pending(f)' <=> Pending(f)
    BY <1>1, SamePending
  <1>4. TypeOK'
    BY <1>1, <1>2 DEF TypeOK
  <1>5. Phases' /\ Debounced'
    BY <1>1, <1>2 DEF Phases, Debounced, TimerIsTimely, BurstsAreAnsweredOnce
  <1>6. ReadIsTracked' /\ ReadIsUsable'
    BY <1>2 DEF ReadIsTracked, ReadIsUsable
  <1>7. LoadIsTracked'
    <2>1. LoadedIsTracked'
      BY <1>1, <1>3 DEF ReadIsTracked, LoadedIsTracked
    <2>2. QED
      BY <2>1 DEF LoadIsTracked
  <1>8. QED
    BY <1>4, <1>5, <1>6, <1>7

-----------------------------------------------------------------------------
(* The watcher.                                                            *)

LEMMA WatchesPreserve ==
  ASSUME WatchInv, (\E dir \in Dirs : AddDir(dir)) \/ AddFails \/ StartLoop
  PROVE  WatchInv'
  <1> USE DEF WatchInv
  <1>1. /\ pc = "adding" /\ pc' \in {"adding", "loop", "ended"}
        /\ watchedDirs' \in SUBSET Dirs
        /\ UNCHANGED <<disk, saves, noises, events, lost, booted, unread, seen, loaded,
                       fetchFailed, timer, age, idle, bursts, reloads, cancelled>>
    BY DEF AddDir, AddFails, StartLoop, TypeOK, userVars, queueVars, loadVars, loopVars, timerVars, historyVars
  <1>2. \A f : Pending(f)' <=> Pending(f)
    BY <1>1, SamePending
  <1>3. TypeOK'
    BY <1>1 DEF TypeOK
  <1>4. Phases' /\ Debounced'
    BY <1>1 DEF Phases, Debounced, TimerIsTimely, BurstsAreAnsweredOnce
  <1>5. ReadIsTracked' /\ ReadIsUsable'
    BY <1>1 DEF ReadIsTracked, ReadIsUsable
  <1>6. LoadIsTracked'
    <2>1. LoadedIsTracked'
      BY <1>1, <1>2 DEF LoadIsTracked, LoadedIsTracked
    <2>2. QED
      BY <2>1 DEF LoadIsTracked
  <1>7. QED
    BY <1>3, <1>4, <1>5, <1>6

(* An event leaves the queue: it was noise, and no file loses its only     *)
(* entry, or the timer runs, for every file.                               *)
LEMMA ReceivePreserves ==
  ASSUME WatchInv, Receive
  PROVE  WatchInv'
  <1> USE DEF WatchInv
  <1>1. /\ pc = "loop" /\ events # <<>> /\ events' = Tail(events)
        /\ UNCHANGED <<disk, saves, noises, lost, watchedDirs, pc, booted, unread, seen,
                       loaded, fetchFailed, reloads, cancelled>>
        /\ \/ Head(events) = Noise /\ UNCHANGED <<timer, age, idle, bursts>>
           \/ /\ Head(events) # Noise /\ timer' = "armed" /\ age' = 0 /\ idle' = 0
              /\ bursts' = IF idle = debounceInterval THEN bursts + 1 ELSE bursts
    BY DEF Receive, CountBurst, userVars, loadVars, timerVars, historyVars
  <1>2. /\ events' \in Seq(Files \cup {Noise})
        /\ Len(events') = Len(events) - 1
        /\ \A f : InQueue(f) /\ f # Head(events) => InQueue(f)'
    BY <1>1, TailQueue DEF TypeOK
  <1>3. \A f \in Files : Pending(f) => Pending(f)'
    BY <1>1, <1>2, FilesAssumption DEF Pending
  <1>4. TypeOK'
    <2>1. Len(events) \in Nat /\ Len(events') <= QueueCap
      BY <1>2, BoundAssumption DEF TypeOK
    <2>2. 0 \in 0 .. debounceInterval
      BY IntervalAssumption
    <2>3. QED
      BY <2>1, <2>2, <1>1, <1>2 DEF TypeOK
  <1>5. Phases' /\ Debounced'
    BY <1>1 DEF Phases, Debounced, TimerIsTimely, BurstsAreAnsweredOnce, TypeOK
  <1>6. ReadIsTracked' /\ ReadIsUsable'
    BY <1>1 DEF ReadIsTracked, ReadIsUsable
  <1>7. LoadIsTracked'
    BY <1>1, <1>3 DEF LoadIsTracked, LoadedIsTracked, FailureIsTracked
  <1>8. QED
    BY <1>4, <1>5, <1>6, <1>7

LEMMA ExpirePreserves ==
  ASSUME WatchInv, Expire
  PROVE  WatchInv'
  <1> USE DEF WatchInv
  <1>1. /\ timer = "armed" /\ timer' = "fired" /\ age = debounceInterval /\ age' = 0
        /\ UNCHANGED <<disk, saves, noises, events, lost, watchedDirs, pc, booted, unread,
                       seen, loaded, fetchFailed, idle, bursts, reloads, cancelled>>
    BY DEF Expire, userVars, queueVars, loadVars, historyVars
  <1>2. \A f : Pending(f)'
    BY <1>1 DEF Pending
  <1>3. TypeOK' /\ Phases' /\ Debounced'
    BY <1>1, IntervalAssumption DEF TypeOK, Phases, Debounced, TimerIsTimely, BurstsAreAnsweredOnce
  <1>4. ReadIsTracked' /\ ReadIsUsable'
    BY <1>1, <1>2 DEF ReadIsTracked, ReadIsUsable
  <1>5. LoadIsTracked'
    BY <1>1, <1>2 DEF LoadIsTracked, LoadedIsTracked, FailureIsTracked
  <1>6. QED
    BY <1>3, <1>4, <1>5

(* Time passes for the timer and for the burst alike.                      *)
LEMMA TickPreserves ==
  ASSUME WatchInv, Tick
  PROVE  WatchInv'
  <1> USE DEF WatchInv
  <1>1. /\ idle' = Older(idle) /\ age' = IF timer = "armed" THEN Older(age) ELSE age
        /\ UNCHANGED <<disk, saves, noises, events, lost, watchedDirs, pc, booted, unread,
                       seen, loaded, fetchFailed, timer, bursts, reloads, cancelled>>
    BY DEF Tick, userVars, queueVars, loadVars
  <1>2. \A f : Pending(f)' <=> Pending(f)
    BY <1>1, SamePending
  <1>3. \A t \in 0 .. debounceInterval : Older(t) \in 0 .. debounceInterval
    BY IntervalAssumption DEF Older
  <1>4. Older(debounceInterval) = debounceInterval
    BY IntervalAssumption DEF Older
  <1>5. TypeOK' /\ Phases'
    BY <1>1, <1>3 DEF TypeOK, Phases
  <1>6. Debounced'
    BY <1>1, <1>4 DEF Debounced, TimerIsTimely, BurstsAreAnsweredOnce
  <1>7. ReadIsTracked' /\ ReadIsUsable'
    BY <1>1, <1>2 DEF ReadIsTracked, ReadIsUsable
  <1>8. LoadIsTracked'
    BY <1>1, <1>2 DEF LoadIsTracked, LoadedIsTracked, FailureIsTracked
  <1>9. QED
    BY <1>5, <1>6, <1>7, <1>8

(* A reload begins: every file will be read, so none needs the timer.      *)
LEMMA FirePreserves ==
  ASSUME WatchInv, Fire
  PROVE  WatchInv'
  <1> USE DEF WatchInv
  <1>1. /\ pc = "loop" /\ timer = "fired" /\ timer' = "off" /\ reloads' = reloads + 1
        /\ unread' = Files
        /\ fetchFailed' = FALSE /\ pc' = "templates"
        /\ UNCHANGED <<disk, saves, noises, events, lost, watchedDirs, booted, loaded,
                       age, idle, bursts, cancelled>>
    BY DEF Fire, userVars, queueVars, historyVars
  <1>2. seen' \in [Files -> Version \cup {None}]
    BY DEF Fire
  <1>3. TypeOK'
    <2>1. unread' \in SUBSET Files /\ reloads' \in Nat
      BY <1>1 DEF TypeOK
    <2>2. QED
      BY <2>1, <1>1, <1>2 DEF TypeOK
  <1>4. Phases' /\ Debounced'
    BY <1>1 DEF Phases, Debounced, TimerIsTimely, BurstsAreAnsweredOnce, TypeOK
  <1>5. ReadIsTracked' /\ ReadIsUsable' /\ LoadIsTracked'
    BY <1>1 DEF ReadIsTracked, ReadIsUsable, LoadIsTracked, Files
  <1>6. QED
    BY <1>3, <1>4, <1>5

LEMMA ReturnPreserves ==
  ASSUME WatchInv, Return
  PROVE  WatchInv'
  <1> USE DEF WatchInv
  <1>1. /\ pc' = "ended" /\ timer' = "off" /\ age' = 0
        /\ UNCHANGED <<disk, saves, noises, events, lost, watchedDirs, booted, unread, seen,
                       loaded, fetchFailed, idle, bursts, reloads, cancelled>>
    BY DEF Return, userVars, queueVars, loadVars, historyVars
  <1>2. TypeOK' /\ Phases' /\ Debounced'
    BY <1>1, IntervalAssumption DEF TypeOK, Phases, Debounced, TimerIsTimely, BurstsAreAnsweredOnce
  <1>3. ReadIsTracked' /\ ReadIsUsable' /\ LoadIsTracked'
    BY <1>1 DEF ReadIsTracked, ReadIsUsable, LoadIsTracked
  <1>4. QED
    BY <1>2, <1>3

(* The context's flag is no part of the invariant but for its type.        *)
LEMMA QuietStepPreserves ==
  ASSUME WatchInv, Cancel \/ UNCHANGED vars
  PROVE  WatchInv'
  <1> USE DEF WatchInv
  <1>1. /\ cancelled' \in BOOLEAN
        /\ UNCHANGED <<disk, saves, noises, events, lost, watchedDirs, pc, booted, unread,
                       seen, loaded, fetchFailed, timer, age, idle, bursts, reloads>>
    BY DEF Cancel, vars, userVars, queueVars, loadVars, loopVars, timerVars, historyVars, TypeOK
  <1>2. \A f : Pending(f)' <=> Pending(f)
    BY <1>1, SamePending
  <1>3. TypeOK' /\ Phases' /\ Debounced'
    BY <1>1 DEF TypeOK, Phases, Debounced, TimerIsTimely, BurstsAreAnsweredOnce
  <1>4. ReadIsTracked' /\ ReadIsUsable'
    BY <1>1, <1>2 DEF ReadIsTracked, ReadIsUsable
  <1>5. LoadIsTracked'
    BY <1>1, <1>2 DEF LoadIsTracked, LoadedIsTracked, FailureIsTracked
  <1>6. QED
    BY <1>3, <1>4, <1>5

LEMMA NextPreserves == WatchInv /\ [Next]_vars => WatchInv'
  <1> SUFFICES ASSUME WatchInv, [Next]_vars PROVE WatchInv'
    OBVIOUS
  <1>1. CASE \E f \in Files : Save(f)
    BY <1>1, SavePreserves
  <1>2. CASE \E dir \in Dirs : Disturb(dir)
    BY <1>2, DisturbPreserves
  <1>3. CASE \E f \in Files : ReadTemplate(f)
    BY <1>3, ReadTemplatePreserves
  <1>4. CASE \E f \in Files : ReadSeed(f)
    BY <1>4, ReadSeedPreserves
  <1>5. CASE LoadTemplates \/ FetchFails \/ Loaded
    BY <1>5, LoadTemplatesPreserves, FetchFailsPreserves, LoadedPreserves
  <1>6. CASE (\E dir \in Dirs : AddDir(dir)) \/ AddFails \/ StartLoop
    BY <1>6, WatchesPreserve
  <1>7. CASE Receive
    BY <1>7, ReceivePreserves
  <1>8. CASE Tick \/ Expire \/ Fire \/ Return
    BY <1>8, TickPreserves, ExpirePreserves, FirePreserves, ReturnPreserves
  <1>9. CASE Cancel \/ UNCHANGED vars
    BY <1>9, QuietStepPreserves
  <1>10. QED
    BY <1>1, <1>2, <1>3, <1>4, <1>5, <1>6, <1>7, <1>8, <1>9 DEF Next, Load, Loop

-----------------------------------------------------------------------------
(* Theorems.                                                               *)

(***************************************************************************)
(* In every state the watcher, the loads it runs and the user's saves are  *)
(* in one of the situations WatchInv lists.                                *)
(***************************************************************************)
THEOREM WatchInvariant == Spec => []WatchInv
  <1>1. QED
    BY InitWatch, NextPreserves, PTL DEF Spec

(***************************************************************************)
(* Every variable of the watcher keeps its type; the kernel's queue never  *)
(* holds more than its capacity.                                           *)
(***************************************************************************)
THEOREM WatchTypes == Spec => []TypeOK
  <1>1. WatchInv => TypeOK
    BY DEF WatchInv
  <1>2. QED
    BY <1>1, WatchInvariant, PTL

(***************************************************************************)
(* Watch, reload and the load at startup: when nothing the watcher has     *)
(* received or has yet to receive would read the files again, good files   *)
(* on disk are the loaded ones, unless a save raised no event or the       *)
(* object store failed.                                                    *)
(***************************************************************************)
THEOREM QuietIsCurrent == Spec => []QuietMeansCurrent
  <1>1. WatchInv => QuietMeansCurrent
    <2> SUFFICES ASSUME WatchInv, Quiet, Loadable, lost = {}, ~fetchFailed
                 PROVE  loaded = disk
      BY DEF QuietMeansCurrent
    <2>1. \A f \in Files : ~Pending(f)
      BY FilesAssumption DEF Quiet, Pending, InQueue
    <2>2. ~FailureIsTracked
      BY <2>1 DEF FailureIsTracked, Loadable
    <2>3. \A f \in Files : loaded[f] = disk[f]
      BY <2>1, <2>2 DEF WatchInv, LoadIsTracked, LoadedIsTracked, Quiet
    <2>4. QED
      BY <2>3 DEF WatchInv, TypeOK
  <1>2. QED
    BY <1>1, WatchInvariant, PTL

(***************************************************************************)
(* Watch's debounce timer: reloads do not outnumber the bursts of events   *)
(* of watched files, whatever the interval, the length of the bursts and   *)
(* the order in which select takes an event and an expired timer.          *)
(***************************************************************************)
THEOREM ReloadsAreDebounced == Spec => []OneReloadPerBurst
  <1>1. WatchInv => OneReloadPerBurst
    BY DEF WatchInv, TypeOK, Debounced, BurstsAreAnsweredOnce, OneReloadPerBurst
  <1>2. QED
    BY <1>1, WatchInvariant, PTL
=============================================================================
