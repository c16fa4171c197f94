-------------------------------- MODULE Reload --------------------------------
(***************************************************************************)
(* Hot reload of configuration and compiled functions                      *)
(* (cmd/localfront/reload.go) and its interplay with shutdown              *)
(* (cmd/localfront/serve.go).                                              *)
(*                                                                         *)
(* A generation is the map of functions one buildFunctions call returns;   *)
(* generation 0 is the one serve builds at startup.  The file watcher's    *)
(* goroutine runs reload, one call at a time; each superseded generation   *)
(* gets a timer whose callback runs in a goroutine of its own; serve's     *)
(* goroutine runs closeCurrent at the end.  reloader.mu is held only for   *)
(* assignments, so a critical section is one step, and what a goroutine    *)
(* does after unlocking is another: swapping, stopping a timer, closing a  *)
(* generation it took.  Only a Stop and the closing that follows it are    *)
(* one step.  The process may end between any two steps.                   *)
(*                                                                         *)
(* A timer is named after the generation it was armed for.  Stop()         *)
(* succeeds exactly while the timer is armed: once it has expired its      *)
(* callback runs, possibly long after.                                     *)
(***************************************************************************)
EXTENDS Naturals

CONSTANTS
  MaxGen,             \* bound: at most MaxGen reloads build a generation
  None,               \* nil
  ExpiryDuringReload  \* may a grace timer expire while a reload or the
                      \* shutdown has taken over its generation but has not
                      \* stopped it, or its callback wait for the mutex?

ASSUME MaxGenAssumption == MaxGen \in Nat
ASSUME NoneAssumption == None \notin Nat
ASSUME ExpiryAssumption == ExpiryDuringReload \in BOOLEAN

Gens == 0 .. MaxGen
GenOrNone == Gens \cup {None}

VARIABLES
  built,         \* generations 0 .. built-1 have been compiled
  empty,         \* generations without functions (len(funcs) = 0)
  closeCount,    \* closeCount[g]: how often closeFunctions ran on g
  timer,         \* timer[g]: "none", "armed", "expired", "closing", "ran" or "stopped"
  toClose,       \* toClose[g]: the callback's toClose, in g's timer
  currentFuncs,  \* reloader.currentFuncs
  pendingTimer,  \* reloader.pendingTimer
  pendingFuncs,  \* reloader.pendingFuncs
  reloadPC,      \* where the watcher's goroutine is in reload
  fresh,         \* reload's funcs
  prevTimer,     \* reload's prevTimer
  prevFuncs,     \* reload's prevFuncs
  snap,          \* the generation in the server's snapshot
  servePC,       \* where serve's goroutine is
  takenTimer,    \* closeCurrent's timer
  takenPending,  \* closeCurrent's pending
  takenCurrent   \* closeCurrent's funcs

generations == <<built, empty, closeCount>>
fields == <<currentFuncs, pendingTimer, pendingFuncs>>
reloadVars == <<reloadPC, fresh, prevTimer, prevFuncs>>
serveVars == <<servePC, takenTimer, takenPending, takenCurrent>>
timers == <<timer, toClose>>
vars == <<generations, timers, fields, reloadVars, snap, serveVars>>

TypeOK ==
  /\ built \in 0 .. MaxGen + 1
  /\ empty \in SUBSET Gens
  /\ closeCount \in [Gens -> Nat]
  /\ timer \in [Gens -> {"none", "armed", "expired", "closing", "ran", "stopped"}]
  /\ toClose \in [Gens -> GenOrNone]
  /\ currentFuncs \in GenOrNone
  /\ pendingTimer \in GenOrNone
  /\ pendingFuncs \in GenOrNone
  /\ reloadPC \in {"idle", "build", "install", "swap", "collapse"}
  /\ fresh \in GenOrNone
  /\ prevTimer \in GenOrNone
  /\ prevFuncs \in GenOrNone
  /\ snap \in Gens
  /\ servePC \in {"serving", "draining", "releasing", "exited"}
  /\ takenTimer \in GenOrNone
  /\ takenPending \in GenOrNone
  /\ takenCurrent \in GenOrNone

(* serve compiled generation 0, swapped it in and created the reloader.    *)
Init ==
  /\ built = 1
  /\ empty \in {{}, {0}}
  /\ closeCount = [g \in Gens |-> 0]
  /\ timer = [g \in Gens |-> "none"]
  /\ toClose = [g \in Gens |-> None]
  /\ currentFuncs = 0
  /\ pendingTimer = None
  /\ pendingFuncs = None
  /\ reloadPC = "idle"
  /\ fresh = None
  /\ prevTimer = None
  /\ prevFuncs = None
  /\ snap = 0
  /\ servePC = "serving"
  /\ takenTimer = None
  /\ takenPending = None
  /\ takenCurrent = None

(* closeFunctions on the generations in S (a nil or empty map closes       *)
(* nothing).                                                               *)
Close(S) ==
  [g \in Gens |-> IF g \in S \ empty THEN closeCount[g] + 1 ELSE closeCount[g]]

(* timer.Stop() on t, where t may be nil.                                  *)
StopSucceeds(t) == t # None /\ timer[t] = "armed"

(* Every goroutine ends with the process.                                  *)
Alive == servePC # "exited"

-----------------------------------------------------------------------------
(* reload, in the watcher's goroutine.                                     *)

BeginReload ==
  /\ Alive
  /\ reloadPC = "idle"
  /\ built <= MaxGen
  /\ reloadPC' = "build"
  /\ UNCHANGED <<generations, timers, fields, fresh, prevTimer, prevFuncs, snap, serveVars>>

(* loadConfig or buildFunctions returned an error; functions compiled      *)
(* before the failing one are closed again.                                *)
BuildFail ==
  /\ Alive
  /\ reloadPC = "build"
  /\ \/ UNCHANGED generations
     \/ /\ built' = built + 1
        /\ closeCount' = [closeCount EXCEPT ![built] = @ + 1]
        /\ UNCHANGED empty
  /\ reloadPC' = "idle"
  /\ UNCHANGED <<timers, fields, fresh, prevTimer, prevFuncs, snap, serveVars>>

BuildOk ==
  /\ Alive
  /\ reloadPC = "build"
  /\ fresh' = built
  /\ built' = built + 1
  /\ empty' \in {empty, empty \cup {built}}
  /\ reloadPC' = "install"
  /\ UNCHANGED <<closeCount, timers, fields, prevTimer, prevFuncs, snap, serveVars>>

(* Without ExpiryDuringReload, an expired timer's callback gets the mutex  *)
(* before anyone else.                                                     *)
MutexFree == ExpiryDuringReload \/ \A g \in Gens : timer[g] # "expired"

(* Mutant: the superseded generation is closed at once.                    *)
Install_ClosesOld ==
  /\ Alive
  /\ reloadPC = "install"
  /\ MutexFree
  /\ closeCount' = Close({currentFuncs})
  /\ currentFuncs' = fresh
  /\ timer' = [g \in Gens |-> IF g = currentFuncs THEN "armed" ELSE timer[g]]
  /\ reloadPC' = "swap"
  /\ UNCHANGED <<toClose, built, empty, pendingTimer, pendingFuncs, fresh, prevTimer, prevFuncs, snap, serveVars>>

(* reload's critical section.  len(old) > 0 decides whether the superseded *)
(* generation gets a grace period.                                         *)
Install ==
  /\ Alive
  /\ reloadPC = "install"
  /\ MutexFree
  /\ prevTimer' = pendingTimer
  /\ prevFuncs' = pendingFuncs
  /\ currentFuncs' = fresh
  /\ IF currentFuncs # None /\ currentFuncs \notin empty
     THEN /\ pendingFuncs' = currentFuncs
          /\ pendingTimer' = currentFuncs
          /\ timer' = [timer EXCEPT ![currentFuncs] = "armed"]
     ELSE /\ pendingFuncs' = None
          /\ pendingTimer' = None
          /\ UNCHANGED timer
  /\ reloadPC' = "swap"
  /\ UNCHANGED <<toClose, generations, fresh, snap, serveVars>>

(* server.Swap, after the mutex was released.                              *)
Swap ==
  /\ Alive
  /\ reloadPC = "swap"
  /\ snap' = fresh
  /\ reloadPC' = "collapse"
  /\ UNCHANGED <<generations, timers, fields, fresh, prevTimer, prevFuncs, serveVars>>

(* Mutant: the earlier timer is stopped but its generation is forgotten.   *)
Collapse_Forgets ==
  /\ Alive
  /\ reloadPC = "collapse"
  /\ timer' = [g \in Gens |-> IF StopSucceeds(prevTimer) /\ g = prevTimer THEN "stopped" ELSE timer[g]]
  /\ prevTimer' = None
  /\ prevFuncs' = None
  /\ fresh' = None
  /\ reloadPC' = "idle"
  /\ UNCHANGED <<toClose, generations, fields, snap, serveVars>>

(* Mutant: the timer just armed is collapsed instead of the earlier one.   *)
Collapse_New ==
  /\ Alive
  /\ reloadPC = "collapse"
  /\ timer' = [g \in Gens |-> IF StopSucceeds(pendingTimer) /\ g = pendingTimer THEN "stopped" ELSE timer[g]]
  /\ closeCount' = Close({pendingFuncs})
  /\ pendingTimer' = None
  /\ pendingFuncs' = None
  /\ reloadPC' = "idle"
  /\ UNCHANGED <<toClose, built, empty, currentFuncs, fresh, prevTimer, prevFuncs, snap, serveVars>>

(* prevTimer.Stop(), closing prevFuncs only when it succeeds.              *)
Collapse ==
  /\ Alive
  /\ reloadPC = "collapse"
  /\ IF StopSucceeds(prevTimer)
     THEN /\ timer' = [timer EXCEPT ![prevTimer] = "stopped"]
          /\ closeCount' = Close({prevFuncs})
     ELSE UNCHANGED <<timer, closeCount>>
  /\ prevTimer' = None
  /\ prevFuncs' = None
  /\ fresh' = None
  /\ reloadPC' = "idle"
  /\ UNCHANGED <<toClose, built, empty, fields, snap, serveVars>>

-----------------------------------------------------------------------------
(* The grace timers.                                                       *)

MayExpire ==
  \/ ExpiryDuringReload
  \/ reloadPC \notin {"swap", "collapse"} /\ servePC # "releasing"

(* funcCloseGrace has passed since the timer was armed.                    *)
Expire(g) ==
  /\ Alive
  /\ timer[g] = "armed"
  /\ MayExpire
  /\ timer' = [timer EXCEPT ![g] = "expired"]
  /\ UNCHANGED <<toClose, generations, fields, reloadVars, snap, serveVars>>

(* The callback's critical section: it takes whatever pendingFuncs is when *)
(* it gets the mutex, not the generation the timer was armed for.          *)
Callback(g) ==
  /\ Alive
  /\ timer[g] = "expired"
  /\ timer' = [timer EXCEPT ![g] = IF pendingFuncs = None THEN "ran" ELSE "closing"]
  /\ toClose' = [toClose EXCEPT ![g] = pendingFuncs]
  /\ pendingFuncs' = None
  /\ pendingTimer' = IF pendingFuncs = None THEN pendingTimer ELSE None
  /\ UNCHANGED <<generations, currentFuncs, reloadVars, snap, serveVars>>

(* closeFunctions(toClose), after the callback released the mutex.         *)
CloseCaptured(g) ==
  /\ Alive
  /\ timer[g] = "closing"
  /\ timer' = [timer EXCEPT ![g] = "ran"]
  /\ toClose' = [toClose EXCEPT ![g] = None]
  /\ closeCount' = Close({toClose[g]})
  /\ UNCHANGED <<built, empty, fields, reloadVars, snap, serveVars>>

-----------------------------------------------------------------------------
(* serve, after startup.                                                   *)

(* The context is cancelled: Shutdown stops accepting requests and waits   *)
(* for those in flight, at most 5 s.                                       *)
Cancel ==
  /\ servePC = "serving"
  /\ servePC' = "draining"
  /\ UNCHANGED <<generations, timers, fields, reloadVars, snap, takenTimer, takenPending, takenCurrent>>

(* Mutant: the live functions are taken without being given up.           *)
TakeAll_KeepsCurrent ==
  /\ servePC \in {"serving", "draining"}
  /\ MutexFree
  /\ takenTimer' = pendingTimer
  /\ takenPending' = pendingFuncs
  /\ takenCurrent' = currentFuncs
  /\ pendingTimer' = None
  /\ pendingFuncs' = None
  /\ servePC' = "releasing"
  /\ UNCHANGED <<generations, timers, currentFuncs, reloadVars, snap>>

(* closeCurrent's critical section; reached after Shutdown returned or     *)
(* because Serve failed.  Neither the watcher's goroutine nor a callback   *)
(* that has left its critical section is waited for.                       *)
TakeAll ==
  /\ servePC \in {"serving", "draining"}
  /\ MutexFree
  /\ takenTimer' = pendingTimer
  /\ takenPending' = pendingFuncs
  /\ takenCurrent' = currentFuncs
  /\ currentFuncs' = None
  /\ pendingTimer' = None
  /\ pendingFuncs' = None
  /\ servePC' = "releasing"
  /\ UNCHANGED <<generations, timers, reloadVars, snap>>

(* Mutant: only the live functions are released.                           *)
CloseTaken_CurrentOnly ==
  /\ servePC = "releasing"
  /\ closeCount' = Close({takenCurrent})
  /\ takenTimer' = None
  /\ takenPending' = None
  /\ takenCurrent' = None
  /\ servePC' = "exited"
  /\ UNCHANGED <<built, empty, timers, fields, reloadVars, snap>>

(* The rest of closeCurrent, then the process exits.                       *)
CloseTaken ==
  /\ servePC = "releasing"
  /\ IF StopSucceeds(takenTimer)
     THEN /\ timer' = [timer EXCEPT ![takenTimer] = "stopped"]
          /\ closeCount' = Close({takenPending, takenCurrent})
     ELSE /\ closeCount' = Close({takenCurrent})
          /\ UNCHANGED timer
  /\ takenTimer' = None
  /\ takenPending' = None
  /\ takenCurrent' = None
  /\ servePC' = "exited"
  /\ UNCHANGED <<toClose, built, empty, fields, reloadVars, snap>>

-----------------------------------------------------------------------------
Reloading == BuildFail \/ BuildOk \/ Install \/ Swap \/ Collapse

Next ==
  \/ BeginReload \/ Reloading
  \/ \E g \in Gens : Expire(g) \/ Callback(g) \/ CloseCaptured(g)
  \/ Cancel \/ TakeAll \/ CloseTaken

Spec == Init /\ [][Next]_vars

(***************************************************************************)
(* Fairness: a reload that started finishes (its file and object store     *)
(* reads return), an armed timer expires, its callback runs to its end,    *)
(* and closeCurrent completes.  No reload or shutdown is forced to begin.  *)
(***************************************************************************)
FairSpec ==
  /\ Spec
  /\ WF_vars(Reloading)
  /\ \A g \in Gens : WF_vars(Expire(g) \/ Callback(g) \/ CloseCaptured(g))
  /\ WF_vars(CloseTaken)

-----------------------------------------------------------------------------
(* Properties.                                                             *)

Closed(g) == closeCount[g] > 0
Open(g) == g < built /\ g \notin empty /\ ~Closed(g)
Superseded(g) == timer[g] # "none"

(***************************************************************************)
(* No generation is closed twice, whichever of reload, a grace timer and   *)
(* the shutdown gets to it first: reload.go:50-51 "avoids any chance of    *)
(* double-closing the same Function".  Holds even with the expiry race.    *)
(***************************************************************************)
NoDoubleClose == \A g \in Gens : closeCount[g] <= 1

(***************************************************************************)
(* Between reloads the server serves the generation the reloader calls     *)
(* current, a failed reload included.                                      *)
(***************************************************************************)
ServesCurrent ==
  reloadPC \in {"idle", "build", "install"} /\ currentFuncs # None => snap = currentFuncs

(***************************************************************************)
(* The generation new requests get has not been closed while the server    *)
(* accepts requests: its pools and sandboxes are there.                    *)
(***************************************************************************)
ServedIsOpen ==
  servePC = "serving" => ~Closed(snap)

(***************************************************************************)
(* A superseded generation is closed only after its own grace period, or   *)
(* because a later reload stopped its timer to collapse it, or by the      *)
(* shutdown (reload.go:14-16).                                             *)
(***************************************************************************)
GraceHonoured ==
  servePC \in {"serving", "draining"} =>
    \A g \in Gens : Superseded(g) /\ Closed(g) => timer[g] \in {"expired", "closing", "ran", "stopped"}

(***************************************************************************)
(* When no reload is past its critical section and the callback of every   *)
(* expired timer has returned, at most one superseded generation is still  *)
(* open (docs/design-decisions.md:156: the leak is bounded by one          *)
(* generation).                                                            *)
(***************************************************************************)
LeakBound ==
  (/\ reloadPC \in {"idle", "build", "install"}
   /\ servePC \in {"serving", "draining"}
   /\ \A g \in Gens : timer[g] \notin {"expired", "closing"}) =>
    \A g, h \in Gens : Superseded(g) /\ Open(g) /\ Superseded(h) /\ Open(h) => g = h

(***************************************************************************)
(* What is still open when the process exits: only what somebody that      *)
(* closeCurrent does not wait for has in hand at that moment, a reload     *)
(* that is running or installed something after it, or a timer's callback  *)
(* that has left its critical section and not finished closing.  In        *)
(* particular an exit that overtakes neither has closed every generation.  *)
(***************************************************************************)
ExitReleases ==
  servePC = "exited" =>
    \A g \in Gens : Open(g) =>
      \/ g \in {currentFuncs, fresh, pendingFuncs, prevFuncs}
      \/ \E h \in Gens : toClose[h] = g

(***************************************************************************)
(* Every superseded generation with functions is eventually closed, or the *)
(* process exits.                                                          *)
(***************************************************************************)
SupersededAreClosed ==
  \A g \in Gens : Superseded(g) ~> (Closed(g) \/ servePC = "exited")

(***************************************************************************)
(* Reload implements the promise HotReload states.                         *)
(***************************************************************************)
Promise == INSTANCE HotReload WITH
  serving <- snap,
  life <- [g \in Gens |-> IF Closed(g) THEN "closed" ELSE IF g < built THEN "ready" ELSE "unborn"],
  graceOver <- {g \in Gens : timer[g] \in {"expired", "closing", "ran"}},
  stopped <- servePC # "serving"

PromiseKept == Promise!Spec
=============================================================================
