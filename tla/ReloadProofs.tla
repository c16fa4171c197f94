----------------------------- MODULE ReloadProofs -----------------------------
(***************************************************************************)
(* Proofs about the reloader, for any number of reloads.                   *)
(***************************************************************************)
EXTENDS Reload, TLAPS

(* A timer variable and its functions variable name the same generation.   *)
Paired ==
  /\ pendingTimer = pendingFuncs
  /\ prevTimer = prevFuncs
  /\ takenTimer = takenPending

(* A compiled generation belongs to reload alone until it is installed.    *)
Unshared == IF reloadPC = "install" THEN fresh ELSE None

(* Whoever may still close or supersede a generation holds one that is     *)
(* built and not closed, and nobody else holds the same one.               *)
Fine(h) == h # None => h < built /\ closeCount[h] = 0
Apart(h, k) == h # None => h # k

SoleHolder ==
  /\ Fine(currentFuncs) /\ Fine(pendingFuncs) /\ Fine(Unshared)
  /\ Fine(prevFuncs) /\ Fine(takenPending) /\ Fine(takenCurrent)
  /\ Apart(currentFuncs, pendingFuncs) /\ Apart(currentFuncs, Unshared)
  /\ Apart(currentFuncs, prevFuncs) /\ Apart(currentFuncs, takenPending)
  /\ Apart(currentFuncs, takenCurrent)
  /\ Apart(pendingFuncs, Unshared) /\ Apart(pendingFuncs, prevFuncs)
  /\ Apart(pendingFuncs, takenPending) /\ Apart(pendingFuncs, takenCurrent)
  /\ Apart(Unshared, prevFuncs) /\ Apart(Unshared, takenPending) /\ Apart(Unshared, takenCurrent)
  /\ Apart(prevFuncs, takenPending) /\ Apart(prevFuncs, takenCurrent)
  /\ Apart(takenPending, takenCurrent)

(* So for what the timers' callbacks hold.                                 *)
HeldByCallback(k) ==
  /\ Fine(k)
  /\ Apart(k, currentFuncs) /\ Apart(k, pendingFuncs) /\ Apart(k, Unshared)
  /\ Apart(k, prevFuncs) /\ Apart(k, takenPending) /\ Apart(k, takenCurrent)

CapturedAlone ==
  /\ \A g \in Gens : HeldByCallback(toClose[g])
  /\ \A g, h \in Gens : g # h => Apart(toClose[g], toClose[h])

(* Generations not built yet and generations without functions never close.*)
NothingToClose ==
  /\ \A g \in empty : g < built
  /\ \A g \in Gens : g >= built \/ g \in empty => closeCount[g] = 0

(* Local variables hold something only where reload and closeCurrent use   *)
(* them, and a swapped-in generation is the installed one.                 *)
Control ==
  /\ reloadPC = "build" => built <= MaxGen
  /\ reloadPC \in {"install", "swap", "collapse"} <=> fresh # None
  /\ reloadPC \in {"swap", "collapse"} => currentFuncs \in {fresh, None}
  /\ reloadPC = "collapse" => snap = fresh
  /\ reloadPC \notin {"swap", "collapse"} => prevFuncs = None
  /\ servePC # "releasing" => takenPending = None /\ takenCurrent = None
  /\ servePC \in {"serving", "draining"} <=> currentFuncs # None /\ servePC # "releasing" /\ servePC # "exited"

ReloadInv ==
  /\ TypeOK
  /\ Paired
  /\ SoleHolder
  /\ CapturedAlone
  /\ NothingToClose
  /\ Control
  /\ NoDoubleClose
  /\ ServesCurrent

(* Without the expiry race, timers and held generations correspond: an     *)
(* expired timer is the pending generation's, an armed one belongs to a    *)
(* held generation, a held generation's timer is running, a callback       *)
(* closes the generation its timer was armed for, and a superseded         *)
(* generation that is open is held or being closed.                        *)
Held == {pendingFuncs, prevFuncs, takenPending}

ExpiredIsPending ==
  \A g \in Gens : timer[g] = "expired" =>
    g = pendingFuncs /\ reloadPC \notin {"swap", "collapse"} /\ servePC # "releasing"

ArmedIsHeld == \A g \in Gens : timer[g] = "armed" => g \in Held

HeldIsTimed ==
  /\ pendingFuncs # None => timer[pendingFuncs] \in {"armed", "expired"}
  /\ prevFuncs # None => timer[prevFuncs] = "armed"
  /\ takenPending # None => timer[takenPending] = "armed"

ClosesItsOwn ==
  \A g \in Gens : toClose[g] = IF timer[g] = "closing" THEN g ELSE None

SupersededIsHeld ==
  \A g \in Gens : Superseded(g) => g < built /\ (Open(g) => g \in Held \/ timer[g] = "closing")

(* While Swap is outstanding, the served generation is the pending one.    *)
ServedDuringSwap ==
  reloadPC = "swap" /\ servePC = "serving" => snap = pendingFuncs \/ snap \in empty

QuietInv ==
  /\ ReloadInv
  /\ ExpiredIsPending
  /\ ArmedIsHeld
  /\ HeldIsTimed
  /\ ClosesItsOwn
  /\ SupersededIsHeld
  /\ ServedDuringSwap
-----------------------------------------------------------------------------
LEMMA InitReload == Init => ReloadInv
  BY MaxGenAssumption, NoneAssumption
     DEF Init, ReloadInv, TypeOK, Gens, GenOrNone, Paired, SoleHolder, Fine, Apart, Unshared,
         CapturedAlone, HeldByCallback, NothingToClose, Control, NoDoubleClose, ServesCurrent

(* Closing held generations keeps the count of every generation at one.    *)
LEMMA CloseOnce ==
  ASSUME ReloadInv, NEW S, \A g \in Gens : g \in S => g < built /\ closeCount[g] = 0,
         closeCount' = Close(S), built' = built, empty' = empty
  PROVE  closeCount' \in [Gens -> Nat] /\ NothingToClose' /\ NoDoubleClose'
  <1>1. \A g \in Gens : closeCount[g] \in Nat /\ g \in Nat /\ closeCount[g] <= 1
    BY DEF ReloadInv, TypeOK, Gens, NoDoubleClose
  <1>2. \A g \in Gens : closeCount'[g] = IF g \in S \ empty THEN closeCount[g] + 1 ELSE closeCount[g]
    BY DEF Close
  <1>3. closeCount' \in [Gens -> Nat]
    BY <1>1 DEF Close
  <1>4. NothingToClose'
    BY <1>1, <1>2 DEF ReloadInv, TypeOK, NothingToClose, Gens
  <1>5. NoDoubleClose'
    BY <1>1, <1>2 DEF NoDoubleClose
  <1>6. QED
    BY <1>3, <1>4, <1>5

LEMMA BeginReloadKeepsInv ==
  ASSUME ReloadInv, BeginReload
  PROVE  ReloadInv'
  <1> USE MaxGenAssumption, NoneAssumption DEF ReloadInv, Gens, GenOrNone, BeginReload, Alive,
          generations, timers, fields, reloadVars, serveVars, Close, StopSucceeds
  <1>1. TypeOK'
    BY DEF TypeOK, Control
  <1>2. Paired' /\ Control'
    BY DEF TypeOK, Paired, Control, SoleHolder, Fine, Unshared
  <1>3. SoleHolder'
    BY DEF TypeOK, Paired, SoleHolder, Fine, Apart, Unshared, Control, NothingToClose
  <1>c. CapturedAlone'
    BY DEF TypeOK, Paired, SoleHolder, CapturedAlone, HeldByCallback, Fine, Apart, Unshared, Control, NothingToClose
  <1>4. NothingToClose' /\ NoDoubleClose'
    BY DEF TypeOK, Paired, SoleHolder, Fine, Apart, Unshared, Control, NothingToClose, NoDoubleClose
  <1>5. ServesCurrent'
    BY DEF TypeOK, ServesCurrent, Control
  <1>6. QED
    BY <1>1, <1>2, <1>3, <1>c, <1>4, <1>5

LEMMA BuildFailKeepsInv ==
  ASSUME ReloadInv, BuildFail
  PROVE  ReloadInv'
  <1> USE MaxGenAssumption, NoneAssumption DEF ReloadInv, Gens, GenOrNone, BuildFail, Alive,
          generations, timers, fields, reloadVars, serveVars, Close, StopSucceeds
  <1>a. /\ built \in Gens /\ built + 1 \in 0 .. MaxGen + 1
        /\ built \notin empty /\ closeCount[built] = 0
        /\ closeCount \in [Gens -> Nat]
    BY DEF TypeOK, Control, NothingToClose
  <1>b. TypeOK' /\ NothingToClose' /\ NoDoubleClose'
    <2>1. CASE UNCHANGED generations
      BY <2>1 DEF TypeOK, NothingToClose, NoDoubleClose
    <2>2. CASE built' = built + 1 /\ closeCount' = [closeCount EXCEPT ![built] = @ + 1] /\ empty' = empty
      <3>1. closeCount' \in [Gens -> Nat] /\ closeCount'[built] = 1
            /\ \A g \in Gens : g # built => closeCount'[g] = closeCount[g]
        BY <1>a, <2>2
      <3>2. TypeOK'
        BY <1>a, <2>2, <3>1 DEF TypeOK
      <3>3. NothingToClose' /\ NoDoubleClose'
        BY <1>a, <2>2, <3>1 DEF TypeOK, NothingToClose, NoDoubleClose
      <3>4. QED
        BY <3>2, <3>3
    <2>3. QED
      BY <2>1, <2>2
  <1>1. TypeOK'
    BY <1>b
  <1>2. Paired' /\ Control'
    BY DEF TypeOK, Paired, Control, SoleHolder, Fine, Unshared
  <1>3. SoleHolder'
    BY DEF TypeOK, Paired, SoleHolder, Fine, Apart, Unshared, Control, NothingToClose
  <1>c. CapturedAlone'
    BY DEF TypeOK, Paired, SoleHolder, CapturedAlone, HeldByCallback, Fine, Apart, Unshared, Control, NothingToClose
  <1>4. NothingToClose' /\ NoDoubleClose'
    BY <1>b
  <1>5. ServesCurrent'
    BY DEF TypeOK, ServesCurrent, Control
  <1>6. QED
    BY <1>1, <1>2, <1>3, <1>c, <1>4, <1>5

LEMMA BuildOkKeepsInv ==
  ASSUME ReloadInv, BuildOk
  PROVE  ReloadInv'
  <1> USE MaxGenAssumption, NoneAssumption DEF ReloadInv, Gens, GenOrNone, BuildOk, Alive,
          generations, timers, fields, reloadVars, serveVars, Close, StopSucceeds
  <1>1. TypeOK'
    BY DEF TypeOK, Control
  <1>2. Paired' /\ Control'
    BY DEF TypeOK, Paired, Control, SoleHolder, Fine, Unshared
  <1>3. SoleHolder'
    BY DEF TypeOK, Paired, SoleHolder, Fine, Apart, Unshared, Control, NothingToClose
  <1>c. CapturedAlone'
    BY DEF TypeOK, Paired, SoleHolder, CapturedAlone, HeldByCallback, Fine, Apart, Unshared, Control, NothingToClose
  <1>4. NothingToClose' /\ NoDoubleClose'
    BY DEF TypeOK, Paired, SoleHolder, Fine, Apart, Unshared, Control, NothingToClose, NoDoubleClose
  <1>5. ServesCurrent'
    BY DEF TypeOK, ServesCurrent, Control
  <1>6. QED
    BY <1>1, <1>2, <1>3, <1>c, <1>4, <1>5

LEMMA InstallKeepsInv ==
  ASSUME ReloadInv, Install
  PROVE  ReloadInv'
  <1> USE MaxGenAssumption, NoneAssumption DEF ReloadInv, Gens, GenOrNone, Install, Alive,
          generations, timers, fields, reloadVars, serveVars, Close, StopSucceeds
  <1>1. TypeOK'
    BY DEF TypeOK, Control
  <1>2. Paired' /\ Control'
    BY DEF TypeOK, Paired, Control, SoleHolder, Fine, Unshared
  <1>3. SoleHolder'
    BY DEF TypeOK, Paired, SoleHolder, Fine, Apart, Unshared, Control, NothingToClose
  <1>c. CapturedAlone'
    BY DEF TypeOK, Paired, SoleHolder, CapturedAlone, HeldByCallback, Fine, Apart, Unshared, Control, NothingToClose
  <1>4. NothingToClose' /\ NoDoubleClose'
    BY DEF TypeOK, Paired, SoleHolder, Fine, Apart, Unshared, Control, NothingToClose, NoDoubleClose
  <1>5. ServesCurrent'
    BY DEF TypeOK, ServesCurrent, Control
  <1>6. QED
    BY <1>1, <1>2, <1>3, <1>c, <1>4, <1>5

LEMMA SwapKeepsInv ==
  ASSUME ReloadInv, Swap
  PROVE  ReloadInv'
  <1> USE MaxGenAssumption, NoneAssumption DEF ReloadInv, Gens, GenOrNone, Swap, Alive,
          generations, timers, fields, reloadVars, serveVars, Close, StopSucceeds
  <1>1. TypeOK'
    BY DEF TypeOK, Control
  <1>2. Paired' /\ Control'
    BY DEF TypeOK, Paired, Control, SoleHolder, Fine, Unshared
  <1>3. SoleHolder'
    BY DEF TypeOK, Paired, SoleHolder, Fine, Apart, Unshared, Control, NothingToClose
  <1>c. CapturedAlone'
    BY DEF TypeOK, Paired, SoleHolder, CapturedAlone, HeldByCallback, Fine, Apart, Unshared, Control, NothingToClose
  <1>4. NothingToClose' /\ NoDoubleClose'
    BY DEF TypeOK, Paired, SoleHolder, Fine, Apart, Unshared, Control, NothingToClose, NoDoubleClose
  <1>5. ServesCurrent'
    BY DEF TypeOK, ServesCurrent, Control
  <1>6. QED
    BY <1>1, <1>2, <1>3, <1>c, <1>4, <1>5

LEMMA CollapseKeepsInv ==
  ASSUME ReloadInv, Collapse
  PROVE  ReloadInv'
  <1> USE MaxGenAssumption, NoneAssumption DEF ReloadInv, Gens, GenOrNone, Collapse, Alive,
          generations, timers, fields, reloadVars, serveVars, Close, StopSucceeds
  <1>a. closeCount' \in [Gens -> Nat] /\ NothingToClose' /\ NoDoubleClose'
    <2>1. CASE StopSucceeds(prevTimer)
      BY <2>1, CloseOnce DEF SoleHolder, Fine, Paired
    <2>2. CASE ~StopSucceeds(prevTimer)
      BY <2>2 DEF TypeOK, NothingToClose, NoDoubleClose
    <2>3. QED
      BY <2>1, <2>2
  <1>1. TypeOK'
    <2>1. timer' \in [Gens -> {"none", "armed", "expired", "closing", "ran", "stopped"}]
      BY DEF TypeOK
    <2>2. QED
      BY <1>a, <2>1 DEF TypeOK
  <1>2. Paired' /\ Control'
    BY DEF TypeOK, Paired, Control, SoleHolder, Fine, Unshared
  <1>3. SoleHolder'
    BY DEF TypeOK, Paired, SoleHolder, Fine, Apart, Unshared, Control, NothingToClose
  <1>c. CapturedAlone'
    BY DEF TypeOK, Paired, SoleHolder, CapturedAlone, HeldByCallback, Fine, Apart, Unshared, Control, NothingToClose
  <1>4. NothingToClose' /\ NoDoubleClose'
    BY <1>a
  <1>5. ServesCurrent'
    BY DEF TypeOK, ServesCurrent, Control
  <1>6. QED
    BY <1>1, <1>2, <1>3, <1>c, <1>4, <1>5

LEMMA ExpireKeepsInv ==
  ASSUME NEW g \in Gens, ReloadInv, Expire(g)
  PROVE  ReloadInv'
  <1> USE MaxGenAssumption, NoneAssumption DEF ReloadInv, Gens, GenOrNone, Expire, Alive,
          generations, timers, fields, reloadVars, serveVars, Close, StopSucceeds
  <1>1. TypeOK'
    BY DEF TypeOK, Control
  <1>2. Paired' /\ Control'
    BY DEF TypeOK, Paired, Control, SoleHolder, Fine, Unshared
  <1>3. SoleHolder'
    BY DEF TypeOK, Paired, SoleHolder, Fine, Apart, Unshared, Control, NothingToClose
  <1>c. CapturedAlone'
    BY DEF TypeOK, Paired, SoleHolder, CapturedAlone, HeldByCallback, Fine, Apart, Unshared, Control, NothingToClose
  <1>4. NothingToClose' /\ NoDoubleClose'
    BY DEF TypeOK, Paired, SoleHolder, Fine, Apart, Unshared, Control, NothingToClose, NoDoubleClose
  <1>5. ServesCurrent'
    BY DEF TypeOK, ServesCurrent, Control
  <1>6. QED
    BY <1>1, <1>2, <1>3, <1>c, <1>4, <1>5

LEMMA CallbackKeepsInv ==
  ASSUME NEW g \in Gens, ReloadInv, Callback(g)
  PROVE  ReloadInv'
  <1> USE MaxGenAssumption, NoneAssumption DEF ReloadInv, Gens, GenOrNone, Callback, Alive,
          generations, timers, fields, reloadVars, serveVars, Close, StopSucceeds
  <1>1. TypeOK'
    BY DEF TypeOK, Control
  <1>2. Paired' /\ Control'
    BY DEF TypeOK, Paired, Control, SoleHolder, Fine, Unshared
  <1>3. SoleHolder'
    BY DEF TypeOK, Paired, SoleHolder, Fine, Apart, Unshared, Control, NothingToClose
  <1>c. CapturedAlone'
    BY DEF TypeOK, Paired, SoleHolder, CapturedAlone, HeldByCallback, Fine, Apart, Unshared, Control, NothingToClose
  <1>4. NothingToClose' /\ NoDoubleClose'
    BY DEF TypeOK, NothingToClose, NoDoubleClose
  <1>5. ServesCurrent'
    BY DEF TypeOK, ServesCurrent, Control
  <1>6. QED
    BY <1>1, <1>2, <1>3, <1>c, <1>4, <1>5

LEMMA CloseCapturedKeepsInv ==
  ASSUME NEW g \in Gens, ReloadInv, CloseCaptured(g)
  PROVE  ReloadInv'
  <1>a. NothingToClose' /\ NoDoubleClose'
    <2>1. closeCount' = Close({toClose[g]}) /\ built' = built /\ empty' = empty
      BY DEF CloseCaptured
    <2>2. \A h \in Gens : h \in {toClose[g]} => h < built /\ closeCount[h] = 0
      BY NoneAssumption DEF ReloadInv, CapturedAlone, HeldByCallback, Fine, Gens
    <2>3. QED
      BY <2>1, <2>2, CloseOnce
  <1> USE MaxGenAssumption, NoneAssumption DEF ReloadInv, Gens, GenOrNone, CloseCaptured, Alive,
          generations, timers, fields, reloadVars, serveVars, Close, StopSucceeds
  <1>1. TypeOK'
    BY DEF TypeOK, Control
  <1>2. Paired' /\ Control'
    BY DEF TypeOK, Paired, Control, SoleHolder, Fine, Unshared
  <1>b. \A h \in Gens : h # toClose[g] => closeCount'[h] = closeCount[h]
    OBVIOUS
  <1>3. SoleHolder'
    <2>1. \A k \in GenOrNone : Fine(k) /\ Apart(toClose[g], k) => Fine(k)'
      BY <1>b DEF Fine, Apart
    <2>2. HeldByCallback(toClose[g])
      BY DEF CapturedAlone
    <2>3. Unshared' = Unshared /\ Unshared \in GenOrNone
      BY DEF Unshared, TypeOK
    <2>5. /\ Fine(currentFuncs)' /\ Fine(pendingFuncs)' /\ Fine(Unshared)'
          /\ Fine(prevFuncs)' /\ Fine(takenPending)' /\ Fine(takenCurrent)'
      BY <1>b, <2>2, <2>3 DEF TypeOK, SoleHolder, HeldByCallback, Fine, Apart
    <2>6. QED
      BY <2>3, <2>5 DEF SoleHolder, Apart
  <1>c. CapturedAlone'
    BY DEF TypeOK, Paired, SoleHolder, CapturedAlone, HeldByCallback, Fine, Apart, Unshared, Control, NothingToClose
  <1>4. NothingToClose' /\ NoDoubleClose'
    BY <1>a
  <1>5. ServesCurrent'
    BY DEF TypeOK, ServesCurrent, Control
  <1>6. QED
    BY <1>1, <1>2, <1>3, <1>c, <1>4, <1>5

LEMMA CancelKeepsInv ==
  ASSUME ReloadInv, Cancel
  PROVE  ReloadInv'
  <1> USE MaxGenAssumption, NoneAssumption DEF ReloadInv, Gens, GenOrNone, Cancel, Alive,
          generations, timers, fields, reloadVars, serveVars, Close, StopSucceeds
  <1>1. TypeOK'
    BY DEF TypeOK, Control
  <1>2. Paired' /\ Control'
    BY DEF TypeOK, Paired, Control, SoleHolder, Fine, Unshared
  <1>3. SoleHolder'
    BY DEF TypeOK, Paired, SoleHolder, Fine, Apart, Unshared, Control, NothingToClose
  <1>c. CapturedAlone'
    BY DEF TypeOK, Paired, SoleHolder, CapturedAlone, HeldByCallback, Fine, Apart, Unshared, Control, NothingToClose
  <1>4. NothingToClose' /\ NoDoubleClose'
    BY DEF TypeOK, Paired, SoleHolder, Fine, Apart, Unshared, Control, NothingToClose, NoDoubleClose
  <1>5. ServesCurrent'
    BY DEF TypeOK, ServesCurrent, Control
  <1>6. QED
    BY <1>1, <1>2, <1>3, <1>c, <1>4, <1>5

LEMMA TakeAllKeepsInv ==
  ASSUME ReloadInv, TakeAll
  PROVE  ReloadInv'
  <1> USE MaxGenAssumption, NoneAssumption DEF ReloadInv, Gens, GenOrNone, TakeAll, Alive,
          generations, timers, fields, reloadVars, serveVars, Close, StopSucceeds
  <1>1. TypeOK'
    BY DEF TypeOK, Control
  <1>2. Paired' /\ Control'
    BY DEF TypeOK, Paired, Control, SoleHolder, Fine, Unshared
  <1>3. SoleHolder'
    BY DEF TypeOK, Paired, SoleHolder, Fine, Apart, Unshared, Control, NothingToClose
  <1>c. CapturedAlone'
    BY DEF TypeOK, Paired, SoleHolder, CapturedAlone, HeldByCallback, Fine, Apart, Unshared, Control, NothingToClose
  <1>4. NothingToClose' /\ NoDoubleClose'
    BY DEF TypeOK, Paired, SoleHolder, Fine, Apart, Unshared, Control, NothingToClose, NoDoubleClose
  <1>5. ServesCurrent'
    BY DEF TypeOK, ServesCurrent, Control
  <1>6. QED
    BY <1>1, <1>2, <1>3, <1>c, <1>4, <1>5

LEMMA CloseTakenKeepsInv ==
  ASSUME ReloadInv, CloseTaken
  PROVE  ReloadInv'
  <1>a. NothingToClose' /\ NoDoubleClose'
    <2>1. PICK S \in SUBSET {takenPending, takenCurrent} : closeCount' = Close(S)
      BY DEF CloseTaken
    <2>2. built' = built /\ empty' = empty
      BY DEF CloseTaken
    <2>3. \A h \in Gens : h \in S => h < built /\ closeCount[h] = 0
      BY NoneAssumption DEF ReloadInv, SoleHolder, Fine, Gens
    <2>4. QED
      BY <2>1, <2>2, <2>3, CloseOnce
  <1> USE MaxGenAssumption, NoneAssumption DEF ReloadInv, Gens, GenOrNone, CloseTaken, Alive,
          generations, timers, fields, reloadVars, serveVars, Close, StopSucceeds
  <1>1. TypeOK'
    BY DEF TypeOK, Control
  <1>2. Paired' /\ Control'
    BY DEF TypeOK, Paired, Control, SoleHolder, Fine, Unshared
  <1>3. SoleHolder'
    BY DEF TypeOK, Paired, SoleHolder, Fine, Apart, Unshared, Control, NothingToClose
  <1>c. CapturedAlone'
    BY DEF TypeOK, Paired, SoleHolder, CapturedAlone, HeldByCallback, Fine, Apart, Unshared, Control, NothingToClose
  <1>4. NothingToClose' /\ NoDoubleClose'
    BY <1>a
  <1>5. ServesCurrent'
    BY DEF TypeOK, ServesCurrent, Control
  <1>6. QED
    BY <1>1, <1>2, <1>3, <1>c, <1>4, <1>5

LEMMA NextKeepsInv ==
  ASSUME ReloadInv, [Next]_vars
  PROVE  ReloadInv'
  <1>1. CASE UNCHANGED vars
    BY <1>1 DEF vars, generations, timers, fields, reloadVars, serveVars, ReloadInv, TypeOK, Paired,
            SoleHolder, CapturedAlone, HeldByCallback, Fine, Apart, Unshared, NothingToClose, Control,
            NoDoubleClose, ServesCurrent
  <1>2. CASE Next
    BY <1>2, BeginReloadKeepsInv, BuildFailKeepsInv, BuildOkKeepsInv, InstallKeepsInv, SwapKeepsInv,
       CollapseKeepsInv, ExpireKeepsInv, CallbackKeepsInv, CloseCapturedKeepsInv, CancelKeepsInv, TakeAllKeepsInv,
       CloseTakenKeepsInv DEF Next, Reloading
  <1>3. QED
    BY <1>1, <1>2

THEOREM ReloadInvariant == Spec => []ReloadInv
  <1>1. QED
    BY InitReload, NextKeepsInv, PTL DEF Spec

(* The reloader's variables keep their types.                              *)
THEOREM TypeCorrect == Spec => []TypeOK
  <1>1. ReloadInv => TypeOK
    BY DEF ReloadInv
  <1>2. QED
    BY <1>1, ReloadInvariant, PTL

(* No generation is closed twice, whatever the order in which reload, the  *)
(* grace timers and the shutdown run, the expiry race included.            *)
THEOREM NoGenerationClosedTwice == Spec => []NoDoubleClose
  <1>1. ReloadInv => NoDoubleClose
    BY DEF ReloadInv
  <1>2. QED
    BY <1>1, ReloadInvariant, PTL

(* Between reloads the server serves what the reloader calls current.      *)
THEOREM CurrentIsServed == Spec => []ServesCurrent
  <1>1. ReloadInv => ServesCurrent
    BY DEF ReloadInv
  <1>2. QED
    BY <1>1, ReloadInvariant, PTL
-----------------------------------------------------------------------------
(* From here on no timer expires while reload or the shutdown has taken    *)
(* over its generation.                                                    *)

LEMMA InitQuiet == Init => QuietInv
  BY InitReload, NoneAssumption
     DEF QuietInv, Init, ExpiredIsPending, ArmedIsHeld, HeldIsTimed, ClosesItsOwn, SupersededIsHeld, ServedDuringSwap,
         Superseded, Gens

LEMMA BeginReloadStaysQuiet ==
  ASSUME ~ExpiryDuringReload, QuietInv, BeginReload
  PROVE  QuietInv'
  <1> USE NoneAssumption DEF QuietInv, ReloadInv, TypeOK, Gens, GenOrNone, BeginReload, Alive, MutexFree, MayExpire,
          generations, timers, fields, reloadVars, serveVars, StopSucceeds, Held, Control, Paired
  <1>1. ReloadInv'
    BY BeginReloadKeepsInv
  <1>2. ExpiredIsPending' /\ ArmedIsHeld'
    BY DEF ExpiredIsPending, ArmedIsHeld, SoleHolder, Fine, Apart
  <1>3. HeldIsTimed'
    BY DEF ExpiredIsPending, ArmedIsHeld, HeldIsTimed, SoleHolder, Fine, Apart
  <1>c. ClosesItsOwn'
    BY DEF ClosesItsOwn, CapturedAlone, HeldByCallback, Apart
  <1>4. SupersededIsHeld'
    BY DEF SupersededIsHeld, HeldIsTimed, Superseded, Open, Closed, Close, SoleHolder, Fine, Apart, NothingToClose
  <1>5. ServedDuringSwap'
    BY DEF ServedDuringSwap, ServesCurrent, ExpiredIsPending
  <1>6. QED
    BY <1>1, <1>2, <1>3, <1>c, <1>4, <1>5

LEMMA BuildFailStaysQuiet ==
  ASSUME ~ExpiryDuringReload, QuietInv, BuildFail
  PROVE  QuietInv'
  <1> USE NoneAssumption DEF QuietInv, ReloadInv, TypeOK, Gens, GenOrNone, BuildFail, Alive, MutexFree, MayExpire,
          generations, timers, fields, reloadVars, serveVars, StopSucceeds, Held, Control, Paired
  <1>1. ReloadInv'
    BY BuildFailKeepsInv
  <1>2. ExpiredIsPending' /\ ArmedIsHeld'
    BY DEF ExpiredIsPending, ArmedIsHeld, SoleHolder, Fine, Apart
  <1>3. HeldIsTimed'
    BY DEF ExpiredIsPending, ArmedIsHeld, HeldIsTimed, SoleHolder, Fine, Apart
  <1>c. ClosesItsOwn'
    BY DEF ClosesItsOwn, CapturedAlone, HeldByCallback, Apart
  <1>4. SupersededIsHeld'
    <2>1. built' \in Nat /\ built \in Nat /\ built' >= built /\ empty' = empty /\ timer' = timer
      BY MaxGenAssumption
    <2>2. \A h \in Gens : closeCount'[h] = 0 => closeCount[h] = 0
      <3>1. CASE closeCount' = closeCount
        BY <3>1
      <3>2. CASE closeCount' = [closeCount EXCEPT ![built] = @ + 1]
        <4>1. \A h \in Gens : closeCount'[h] = IF h = built THEN closeCount[h] + 1 ELSE closeCount[h]
          BY <3>2
        <4>2. \A h \in Gens : closeCount[h] \in Nat
          OBVIOUS
        <4>3. QED
          BY <4>1, <4>2
      <3>3. QED
        BY <3>1, <3>2
    <2>3. \A h \in Gens : closeCount'[h] > 0 <=> closeCount'[h] # 0
      BY <1>1
    <2>4. \A h \in Gens : closeCount[h] > 0 <=> closeCount[h] # 0
      OBVIOUS
    <2>5. QED
      BY <2>1, <2>2, <2>3, <2>4 DEF SupersededIsHeld, Superseded, Open, Closed
  <1>5. ServedDuringSwap'
    BY DEF ServedDuringSwap, ServesCurrent, ExpiredIsPending
  <1>6. QED
    BY <1>1, <1>2, <1>3, <1>c, <1>4, <1>5

LEMMA BuildOkStaysQuiet ==
  ASSUME ~ExpiryDuringReload, QuietInv, BuildOk
  PROVE  QuietInv'
  <1> USE NoneAssumption DEF QuietInv, ReloadInv, TypeOK, Gens, GenOrNone, BuildOk, Alive, MutexFree, MayExpire,
          generations, timers, fields, reloadVars, serveVars, StopSucceeds, Held, Control, Paired
  <1>1. ReloadInv'
    BY BuildOkKeepsInv
  <1>2. ExpiredIsPending' /\ ArmedIsHeld'
    BY DEF ExpiredIsPending, ArmedIsHeld, SoleHolder, Fine, Apart
  <1>3. HeldIsTimed'
    BY DEF ExpiredIsPending, ArmedIsHeld, HeldIsTimed, SoleHolder, Fine, Apart
  <1>c. ClosesItsOwn'
    BY DEF ClosesItsOwn, CapturedAlone, HeldByCallback, Apart
  <1>4. SupersededIsHeld'
    BY DEF SupersededIsHeld, HeldIsTimed, Superseded, Open, Closed, Close, SoleHolder, Fine, Apart, NothingToClose
  <1>5. ServedDuringSwap'
    BY DEF ServedDuringSwap, ServesCurrent, ExpiredIsPending
  <1>6. QED
    BY <1>1, <1>2, <1>3, <1>c, <1>4, <1>5

LEMMA InstallStaysQuiet ==
  ASSUME ~ExpiryDuringReload, QuietInv, Install
  PROVE  QuietInv'
  <1> USE NoneAssumption DEF QuietInv, ReloadInv, TypeOK, Gens, GenOrNone, Install, Alive, MutexFree, MayExpire,
          generations, timers, fields, reloadVars, serveVars, StopSucceeds, Held, Control, Paired
  <1>1. ReloadInv'
    BY InstallKeepsInv
  <1>2. ExpiredIsPending' /\ ArmedIsHeld'
    <2>1. \A h \in Gens : timer'[h] # timer[h] => h = currentFuncs /\ timer'[h] = "armed" /\ pendingFuncs' = h
      OBVIOUS
    <2>2. prevFuncs' = pendingFuncs /\ takenPending' = takenPending /\ prevFuncs = None
      OBVIOUS
    <2>3. \A h \in Gens : timer[h] # "expired"
      OBVIOUS
    <2>4. \A h \in Gens : timer'[h] # "expired"
      BY <2>1, <2>3
    <2>5. ExpiredIsPending'
      BY <2>4 DEF ExpiredIsPending
    <2>6. ArmedIsHeld'
      BY <2>1, <2>2 DEF ArmedIsHeld
    <2>7. QED
      BY <2>5, <2>6
  <1>3. HeldIsTimed'
    BY DEF ExpiredIsPending, ArmedIsHeld, HeldIsTimed, SoleHolder, Fine, Apart
  <1>c. ClosesItsOwn'
    BY DEF ClosesItsOwn, CapturedAlone, HeldByCallback, Apart
  <1>4. SupersededIsHeld'
    <2>1. \A h \in Gens : timer'[h] # timer[h] => h = currentFuncs /\ pendingFuncs' = h
      OBVIOUS
    <2>2. prevFuncs' = pendingFuncs /\ takenPending' = takenPending /\ prevFuncs = None
      OBVIOUS
    <2>3. built' = built /\ empty' = empty /\ closeCount' = closeCount
      OBVIOUS
    <2>4. currentFuncs # None => currentFuncs < built
      BY DEF SoleHolder, Fine
    <2>5. QED
      BY <2>1, <2>2, <2>3, <2>4 DEF SupersededIsHeld, Superseded, Open, Closed
  <1>5. ServedDuringSwap'
    BY DEF ServedDuringSwap, ServesCurrent, ExpiredIsPending
  <1>6. QED
    BY <1>1, <1>2, <1>3, <1>c, <1>4, <1>5

LEMMA SwapStaysQuiet ==
  ASSUME ~ExpiryDuringReload, QuietInv, Swap
  PROVE  QuietInv'
  <1> USE NoneAssumption DEF QuietInv, ReloadInv, TypeOK, Gens, GenOrNone, Swap, Alive, MutexFree, MayExpire,
          generations, timers, fields, reloadVars, serveVars, StopSucceeds, Held, Control, Paired
  <1>1. ReloadInv'
    BY SwapKeepsInv
  <1>2. ExpiredIsPending' /\ ArmedIsHeld'
    BY DEF ExpiredIsPending, ArmedIsHeld, SoleHolder, Fine, Apart
  <1>3. HeldIsTimed'
    BY DEF ExpiredIsPending, ArmedIsHeld, HeldIsTimed, SoleHolder, Fine, Apart
  <1>c. ClosesItsOwn'
    BY DEF ClosesItsOwn, CapturedAlone, HeldByCallback, Apart
  <1>4. SupersededIsHeld'
    BY DEF SupersededIsHeld, HeldIsTimed, Superseded, Open, Closed, Close, SoleHolder, Fine, Apart, NothingToClose
  <1>5. ServedDuringSwap'
    BY DEF ServedDuringSwap, ServesCurrent, ExpiredIsPending
  <1>6. QED
    BY <1>1, <1>2, <1>3, <1>c, <1>4, <1>5

LEMMA CollapseStaysQuiet ==
  ASSUME ~ExpiryDuringReload, QuietInv, Collapse
  PROVE  QuietInv'
  <1> USE NoneAssumption DEF QuietInv, ReloadInv, TypeOK, Gens, GenOrNone, Collapse, Alive, MutexFree, MayExpire,
          generations, timers, fields, reloadVars, serveVars, StopSucceeds, Held, Control, Paired
  <1>1. ReloadInv'
    BY CollapseKeepsInv
  <1>2. ExpiredIsPending' /\ ArmedIsHeld'
    BY DEF ExpiredIsPending, ArmedIsHeld, SoleHolder, Fine, Apart
  <1>3. HeldIsTimed'
    BY DEF ExpiredIsPending, ArmedIsHeld, HeldIsTimed, SoleHolder, Fine, Apart
  <1>c. ClosesItsOwn'
    BY DEF ClosesItsOwn, CapturedAlone, HeldByCallback, Apart
  <1>4. SupersededIsHeld'
    <2>1. built' = built /\ empty' = empty /\ pendingFuncs' = pendingFuncs /\ takenPending' = takenPending
      OBVIOUS
    <2>2. \A h \in Gens : timer'[h] # timer[h] => h = prevFuncs
      OBVIOUS
    <2>3. \A h \in Gens : h # prevFuncs => closeCount'[h] = closeCount[h]
      BY DEF Close
    <2>4. \A h \in Gens : h = prevFuncs /\ h \notin empty => closeCount'[h] = closeCount[h] + 1 /\ closeCount[h] = 0
      <3>1. SUFFICES ASSUME NEW h \in Gens, h = prevFuncs, h \notin empty
                     PROVE  closeCount'[h] = closeCount[h] + 1 /\ closeCount[h] = 0
        OBVIOUS
      <3>2. prevTimer # None /\ timer[prevTimer] = "armed"
        BY <3>1 DEF HeldIsTimed
      <3>3. closeCount' = Close({prevFuncs})
        BY <3>2
      <3>4. closeCount[h] = 0
        BY <3>1 DEF SoleHolder, Fine
      <3>5. QED
        BY <3>1, <3>3, <3>4 DEF Close
    <2>5. prevFuncs # None => prevFuncs < built
      BY DEF SoleHolder, Fine
    <2>6. QED
      BY <2>1, <2>2, <2>3, <2>4, <2>5 DEF SupersededIsHeld, Superseded, Open, Closed
  <1>5. ServedDuringSwap'
    BY DEF ServedDuringSwap, ServesCurrent, ExpiredIsPending
  <1>6. QED
    BY <1>1, <1>2, <1>3, <1>c, <1>4, <1>5

LEMMA ExpireStaysQuiet ==
  ASSUME ~ExpiryDuringReload, NEW g \in Gens, QuietInv, Expire(g)
  PROVE  QuietInv'
  <1> USE NoneAssumption DEF QuietInv, ReloadInv, TypeOK, Gens, GenOrNone, Expire, Alive, MutexFree, MayExpire,
          generations, timers, fields, reloadVars, serveVars, StopSucceeds, Held, Control, Paired
  <1>1. ReloadInv'
    BY ExpireKeepsInv
  <1>2. ExpiredIsPending' /\ ArmedIsHeld'
    BY DEF ExpiredIsPending, ArmedIsHeld, SoleHolder, Fine, Apart
  <1>3. HeldIsTimed'
    BY DEF ExpiredIsPending, ArmedIsHeld, HeldIsTimed, SoleHolder, Fine, Apart
  <1>c. ClosesItsOwn'
    BY DEF ClosesItsOwn, CapturedAlone, HeldByCallback, Apart
  <1>4. SupersededIsHeld'
    BY DEF SupersededIsHeld, HeldIsTimed, Superseded, Open, Closed, Close, SoleHolder, Fine, Apart, NothingToClose
  <1>5. ServedDuringSwap'
    BY DEF ServedDuringSwap, ServesCurrent, ExpiredIsPending
  <1>6. QED
    BY <1>1, <1>2, <1>3, <1>c, <1>4, <1>5

LEMMA CallbackStaysQuiet ==
  ASSUME ~ExpiryDuringReload, NEW g \in Gens, QuietInv, Callback(g)
  PROVE  QuietInv'
  <1> USE NoneAssumption DEF QuietInv, ReloadInv, TypeOK, Gens, GenOrNone, Callback, Alive, MutexFree, MayExpire,
          generations, timers, fields, reloadVars, serveVars, StopSucceeds, Held, Control, Paired
  <1>1. ReloadInv'
    BY CallbackKeepsInv
  <1>2. ExpiredIsPending' /\ ArmedIsHeld'
    BY DEF ExpiredIsPending, ArmedIsHeld, SoleHolder, Fine, Apart
  <1>3. HeldIsTimed'
    BY DEF ExpiredIsPending, ArmedIsHeld, HeldIsTimed, SoleHolder, Fine, Apart
  <1>c. ClosesItsOwn'
    <2>1. g = pendingFuncs /\ pendingFuncs # None
      BY DEF ExpiredIsPending
    <2>2. timer' = [timer EXCEPT ![g] = "closing"] /\ toClose' = [toClose EXCEPT ![g] = g]
      BY <2>1
    <2>3. QED
      BY <2>2 DEF ClosesItsOwn
  <1>4. SupersededIsHeld'
    <2>1. g = pendingFuncs /\ pendingFuncs # None
      BY DEF ExpiredIsPending
    <2>2. timer'[g] = "closing" /\ \A h \in Gens : h # g => timer'[h] = timer[h]
      BY <2>1
    <2>3. \A h \in Gens : Open(h)' <=> Open(h)
      BY DEF Open, Closed
    <2>4. Superseded(g)
      BY DEF Superseded
    <2>5. QED
      BY <2>1, <2>2, <2>3, <2>4 DEF SupersededIsHeld, Superseded
  <1>5. ServedDuringSwap'
    BY DEF ServedDuringSwap, ServesCurrent, ExpiredIsPending
  <1>6. QED
    BY <1>1, <1>2, <1>3, <1>c, <1>4, <1>5

LEMMA CloseCapturedStaysQuiet ==
  ASSUME ~ExpiryDuringReload, NEW g \in Gens, QuietInv, CloseCaptured(g)
  PROVE  QuietInv'
  <1> USE NoneAssumption DEF QuietInv, ReloadInv, TypeOK, Gens, GenOrNone, CloseCaptured, Alive, MutexFree, MayExpire,
          generations, timers, fields, reloadVars, serveVars, StopSucceeds, Held, Control, Paired
  <1>1. ReloadInv'
    BY CloseCapturedKeepsInv
  <1>2. ExpiredIsPending' /\ ArmedIsHeld'
    BY DEF ExpiredIsPending, ArmedIsHeld, SoleHolder, Fine, Apart
  <1>3. HeldIsTimed'
    BY DEF ExpiredIsPending, ArmedIsHeld, HeldIsTimed, SoleHolder, Fine, Apart
  <1>c. ClosesItsOwn'
    BY DEF ClosesItsOwn, CapturedAlone, HeldByCallback, Apart
  <1>4. SupersededIsHeld'
    <2>1. toClose[g] = g
      BY DEF ClosesItsOwn
    <2>2. \A h \in Gens : Open(h)' => Open(h) /\ h # g
      <3>1. \A h \in Gens : closeCount[h] \in Nat
        OBVIOUS
      <3>2. \A h \in Gens : closeCount'[h] = IF h = g /\ h \notin empty THEN closeCount[h] + 1 ELSE closeCount[h]
        BY <2>1 DEF Close
      <3>3. built' = built /\ empty' = empty
        OBVIOUS
      <3>4. QED
        <4> HIDE DEF QuietInv, CloseCaptured
        <4>1. QED
          BY <3>1, <3>2, <3>3 DEF Open, Closed
    <2>3. \A h \in Gens : h # g => timer'[h] = timer[h]
      OBVIOUS
    <2>4. Superseded(g)
      BY DEF Superseded
    <2>5. QED
      BY <2>2, <2>3, <2>4 DEF SupersededIsHeld, Superseded
  <1>5. ServedDuringSwap'
    BY DEF ServedDuringSwap, ServesCurrent, ExpiredIsPending
  <1>6. QED
    BY <1>1, <1>2, <1>3, <1>c, <1>4, <1>5

LEMMA CancelStaysQuiet ==
  ASSUME ~ExpiryDuringReload, QuietInv, Cancel
  PROVE  QuietInv'
  <1> USE NoneAssumption DEF QuietInv, ReloadInv, TypeOK, Gens, GenOrNone, Cancel, Alive, MutexFree, MayExpire,
          generations, timers, fields, reloadVars, serveVars, StopSucceeds, Held, Control, Paired
  <1>1. ReloadInv'
    BY CancelKeepsInv
  <1>2. ExpiredIsPending' /\ ArmedIsHeld'
    BY DEF ExpiredIsPending, ArmedIsHeld, SoleHolder, Fine, Apart
  <1>3. HeldIsTimed'
    BY DEF ExpiredIsPending, ArmedIsHeld, HeldIsTimed, SoleHolder, Fine, Apart
  <1>c. ClosesItsOwn'
    BY DEF ClosesItsOwn, CapturedAlone, HeldByCallback, Apart
  <1>4. SupersededIsHeld'
    BY DEF SupersededIsHeld, HeldIsTimed, Superseded, Open, Closed, Close, SoleHolder, Fine, Apart, NothingToClose
  <1>5. ServedDuringSwap'
    BY DEF ServedDuringSwap, ServesCurrent, ExpiredIsPending
  <1>6. QED
    BY <1>1, <1>2, <1>3, <1>c, <1>4, <1>5

LEMMA TakeAllStaysQuiet ==
  ASSUME ~ExpiryDuringReload, QuietInv, TakeAll
  PROVE  QuietInv'
  <1> USE NoneAssumption DEF QuietInv, ReloadInv, TypeOK, Gens, GenOrNone, TakeAll, Alive, MutexFree, MayExpire,
          generations, timers, fields, reloadVars, serveVars, StopSucceeds, Held, Control, Paired
  <1>1. ReloadInv'
    BY TakeAllKeepsInv
  <1>2. ExpiredIsPending' /\ ArmedIsHeld'
    BY DEF ExpiredIsPending, ArmedIsHeld, SoleHolder, Fine, Apart
  <1>3. HeldIsTimed'
    BY DEF ExpiredIsPending, ArmedIsHeld, HeldIsTimed, SoleHolder, Fine, Apart
  <1>c. ClosesItsOwn'
    BY DEF ClosesItsOwn, CapturedAlone, HeldByCallback, Apart
  <1>4. SupersededIsHeld'
    BY DEF SupersededIsHeld, HeldIsTimed, Superseded, Open, Closed, Close, SoleHolder, Fine, Apart, NothingToClose
  <1>5. ServedDuringSwap'
    BY DEF ServedDuringSwap, ServesCurrent, ExpiredIsPending
  <1>6. QED
    BY <1>1, <1>2, <1>3, <1>c, <1>4, <1>5

LEMMA CloseTakenStaysQuiet ==
  ASSUME ~ExpiryDuringReload, QuietInv, CloseTaken
  PROVE  QuietInv'
  <1> USE NoneAssumption DEF QuietInv, ReloadInv, TypeOK, Gens, GenOrNone, CloseTaken, Alive, MutexFree, MayExpire,
          generations, timers, fields, reloadVars, serveVars, StopSucceeds, Held, Control, Paired
  <1>1. ReloadInv'
    BY CloseTakenKeepsInv
  <1>2. ExpiredIsPending' /\ ArmedIsHeld'
    BY DEF ExpiredIsPending, ArmedIsHeld, SoleHolder, Fine, Apart
  <1>3. HeldIsTimed'
    BY DEF ExpiredIsPending, ArmedIsHeld, HeldIsTimed, SoleHolder, Fine, Apart
  <1>c. ClosesItsOwn'
    BY DEF ClosesItsOwn, CapturedAlone, HeldByCallback, Apart
  <1>4. SupersededIsHeld'
    <2>1. built' = built /\ empty' = empty /\ pendingFuncs' = pendingFuncs /\ prevFuncs' = prevFuncs
      OBVIOUS
    <2>2. \A h \in Gens : timer'[h] # timer[h] => h = takenPending
      OBVIOUS
    <2>3. \A h \in Gens : closeCount'[h] = closeCount[h] \/ closeCount'[h] = closeCount[h] + 1
      BY DEF Close
    <2>4. \A h \in Gens : h = takenPending /\ h \notin empty => closeCount'[h] = closeCount[h] + 1
      <3>1. SUFFICES ASSUME NEW h \in Gens, h = takenPending, h \notin empty
                     PROVE  closeCount'[h] = closeCount[h] + 1
        OBVIOUS
      <3>2. takenTimer # None /\ timer[takenTimer] = "armed"
        BY <3>1 DEF HeldIsTimed
      <3>3. closeCount' = Close({takenPending, takenCurrent})
        BY <3>2
      <3>4. closeCount[h] = 0
        BY <3>1 DEF SoleHolder, Fine
      <3>5. QED
        BY <3>1, <3>3, <3>4 DEF Close
    <2>5. takenPending # None => takenPending < built
      BY DEF SoleHolder, Fine
    <2>6. \A h \in Gens : closeCount[h] \in Nat
      OBVIOUS
    <2>7. QED
      BY <2>1, <2>2, <2>3, <2>4, <2>5, <2>6 DEF SupersededIsHeld, Superseded, Open, Closed
  <1>5. ServedDuringSwap'
    BY DEF ServedDuringSwap, ServesCurrent, ExpiredIsPending
  <1>6. QED
    BY <1>1, <1>2, <1>3, <1>c, <1>4, <1>5

LEMMA NextStaysQuiet ==
  ASSUME ~ExpiryDuringReload, QuietInv, [Next]_vars
  PROVE  QuietInv'
  <1>1. CASE UNCHANGED vars
    <2>1. ReloadInv'
      BY <1>1, NextKeepsInv DEF QuietInv
    <2>2. QED
      BY <1>1, <2>1 DEF vars, generations, timers, fields, reloadVars, serveVars, QuietInv, ExpiredIsPending,
         ArmedIsHeld, HeldIsTimed, Held, ClosesItsOwn, SupersededIsHeld, Superseded, Open, Closed, ServedDuringSwap
  <1>2. CASE Next
    BY <1>2, BeginReloadStaysQuiet, BuildFailStaysQuiet, BuildOkStaysQuiet, InstallStaysQuiet,
       SwapStaysQuiet, CollapseStaysQuiet, ExpireStaysQuiet, CallbackStaysQuiet,
       CloseCapturedStaysQuiet, CancelStaysQuiet,
       TakeAllStaysQuiet, CloseTakenStaysQuiet DEF Next, Reloading
  <1>3. QED
    BY <1>1, <1>2

LEMMA QuietInvariant ==
  ASSUME ~ExpiryDuringReload
  PROVE  Spec => []QuietInv
  <1>1. QuietInv /\ [Next]_vars => QuietInv'
    BY NextStaysQuiet
  <1>2. QED
    BY <1>1, InitQuiet, PTL DEF Spec

(* Without the expiry race, new requests never get a closed generation     *)
(* while the server accepts requests.                                      *)
THEOREM ServedStaysOpen ==
  ASSUME ~ExpiryDuringReload
  PROVE  Spec => []ServedIsOpen
  <1>1. QuietInv => ServedIsOpen
    BY NoneAssumption DEF QuietInv, ReloadInv, ServedIsOpen, Closed, ServesCurrent, ServedDuringSwap,
       SoleHolder, Fine, NothingToClose, Control, TypeOK, Gens, GenOrNone
  <1>2. QED
    BY <1>1, QuietInvariant, PTL

(* Without the expiry race, a superseded generation keeps its grace period *)
(* unless a later reload collapses it or the shutdown ends it.             *)
THEOREM GraceIsHonoured ==
  ASSUME ~ExpiryDuringReload
  PROVE  Spec => []GraceHonoured
  <1>1. QuietInv => GraceHonoured
    BY NoneAssumption DEF QuietInv, ReloadInv, GraceHonoured, Closed, Superseded, ArmedIsHeld, Held,
       SoleHolder, Fine, TypeOK, Gens, GenOrNone
  <1>2. QED
    BY <1>1, QuietInvariant, PTL

(* Without the expiry race, at most one superseded generation is open at   *)
(* rest.                                                                   *)
THEOREM LeakIsBounded ==
  ASSUME ~ExpiryDuringReload
  PROVE  Spec => []LeakBound
  <1>1. QuietInv => LeakBound
    BY NoneAssumption DEF QuietInv, ReloadInv, LeakBound, SupersededIsHeld, Held, Control, TypeOK, Gens
  <1>2. QED
    BY <1>1, QuietInvariant, PTL

-----------------------------------------------------------------------------
(* What is open at exit.                                                   *)

(* Every open generation is somebody's to close: the reloader's, a running *)
(* reload's, closeCurrent's or a callback's.                               *)
OpenIsHeld ==
  \A g \in Gens : Open(g) =>
    \/ g \in {currentFuncs, pendingFuncs, Unshared, prevFuncs, takenPending, takenCurrent}
    \/ \E h \in Gens : toClose[h] = g

(* Closing S leaves nothing of S open.                                     *)
LEMMA CloseCloses ==
  ASSUME TypeOK, NEW S, closeCount' = Close(S), built' = built, empty' = empty
  PROVE  \A g \in Gens : Open(g)' => Open(g) /\ g \notin S
  BY DEF TypeOK, Close, Open, Closed

LEMMA OpenStaysHeld ==
  ASSUME ~ExpiryDuringReload, QuietInv, OpenIsHeld, [Next]_vars
  PROVE  OpenIsHeld'
  <1> USE NoneAssumption DEF QuietInv, ReloadInv, generations, timers, fields, reloadVars, serveVars
  <1>1. CASE BeginReload \/ Swap \/ Cancel \/ (\E g \in Gens : Expire(g)) \/ UNCHANGED vars
    <2>1. /\ UNCHANGED <<currentFuncs, pendingFuncs, fresh, prevFuncs, takenPending, takenCurrent,
                         toClose, built, empty, closeCount>>
          /\ Unshared' = Unshared
      BY <1>1 DEF BeginReload, Swap, Cancel, Expire, vars, Unshared, Control
    <2>2. QED
      BY <2>1 DEF OpenIsHeld, Open, Closed
  <1>2. CASE BuildFail
    <2>1. UNCHANGED <<currentFuncs, pendingFuncs, prevFuncs, takenPending, takenCurrent, toClose, empty>>
          /\ Unshared' = Unshared
      BY <1>2 DEF BuildFail, Unshared
    <2>2. \A g \in Gens : Open(g)' => Open(g)
      <3>1. CASE UNCHANGED generations
        BY <3>1 DEF Open, Closed
      <3>2. CASE built' = built + 1 /\ closeCount' = [closeCount EXCEPT ![built] = @ + 1]
        <4>1. \A g \in Gens : closeCount[g] \in Nat /\ g \in Nat /\ built \in Nat
          BY MaxGenAssumption DEF TypeOK, Gens
        <4>2. \A g \in Gens : closeCount'[g] = IF g = built THEN closeCount[g] + 1 ELSE closeCount[g]
          BY <3>2 DEF TypeOK
        <4>3. QED
          BY <3>2, <4>1, <4>2, <2>1 DEF Open, Closed
      <3>3. QED
        BY <3>1, <3>2, <1>2 DEF BuildFail
    <2>3. QED
      BY <2>1, <2>2 DEF OpenIsHeld
  <1>3. CASE BuildOk
    <2>1. /\ UNCHANGED <<currentFuncs, pendingFuncs, prevFuncs, takenPending, takenCurrent, toClose, closeCount>>
          /\ built' = built + 1 /\ empty \subseteq empty' /\ Unshared' = built /\ Unshared = None
      BY <1>3 DEF BuildOk, Unshared
    <2>2. \A g \in Gens : Open(g)' => Open(g) \/ g = built
      BY <2>1, MaxGenAssumption DEF Open, Closed, TypeOK, Gens
    <2>3. QED
      BY <2>1, <2>2 DEF OpenIsHeld, Gens
  <1>4. CASE Install
    <2>1. /\ UNCHANGED <<takenPending, takenCurrent, toClose, built, empty, closeCount>>
          /\ currentFuncs' = Unshared /\ Unshared' = None
          /\ prevFuncs' = pendingFuncs /\ prevFuncs = None
          /\ currentFuncs = None \/ currentFuncs \in empty \/ pendingFuncs' = currentFuncs
      BY <1>4 DEF Install, Unshared, Control
    <2>2. \A g \in Gens : Open(g)' => Open(g) /\ g \notin empty
      BY <2>1 DEF Open, Closed
    <2>3. QED
      BY <2>1, <2>2 DEF OpenIsHeld, Gens
  <1>5. CASE Collapse
    <2>1. /\ UNCHANGED <<currentFuncs, pendingFuncs, takenPending, takenCurrent, toClose, built, empty>>
          /\ Unshared = None
      BY <1>5 DEF Collapse, Unshared
    <2>2. \A g \in Gens : Open(g)' => Open(g) /\ g # prevFuncs
      <3>1. CASE prevFuncs = None
        <4>1. closeCount' = closeCount
          BY <3>1, <1>5 DEF Collapse, StopSucceeds, Paired
        <4>2. QED
          BY <3>1, <4>1, <2>1 DEF Open, Closed, Gens
      <3>2. CASE prevFuncs # None
        <4>1. closeCount' = Close({prevFuncs})
          BY <3>2, <1>5 DEF Collapse, StopSucceeds, Paired, HeldIsTimed
        <4>2. QED
          BY <4>1, <2>1, CloseCloses
      <3>3. QED
        BY <3>1, <3>2
    <2>3. QED
      BY <2>1, <2>2 DEF OpenIsHeld, Gens
  <1>6. ASSUME NEW h \in Gens, Callback(h) PROVE OpenIsHeld'
    <2>1. /\ UNCHANGED <<currentFuncs, prevFuncs, takenPending, takenCurrent, built, empty, closeCount>>
          /\ Unshared' = Unshared /\ toClose' = [toClose EXCEPT ![h] = pendingFuncs]
      BY <1>6 DEF Callback, Unshared
    <2>2. toClose'[h] = pendingFuncs /\ \A k \in Gens : k # h => toClose'[k] = toClose[k]
      BY <2>1 DEF TypeOK
    <2>3. toClose[h] = None
      BY <1>6 DEF Callback, ClosesItsOwn
    <2>4. \A g \in Gens : Open(g)' => Open(g) /\ g # None
      BY <2>1 DEF Open, Closed, Gens
    <2>5. QED
      BY <2>1, <2>2, <2>3, <2>4 DEF OpenIsHeld
  <1>c. ASSUME NEW h \in Gens, CloseCaptured(h) PROVE OpenIsHeld'
    <2>1. /\ UNCHANGED <<currentFuncs, pendingFuncs, prevFuncs, takenPending, takenCurrent, built, empty>>
          /\ Unshared' = Unshared /\ closeCount' = Close({toClose[h]})
          /\ \A k \in Gens : k # h => toClose'[k] = toClose[k]
      BY <1>c DEF CloseCaptured, Unshared, TypeOK
    <2>2. \A g \in Gens : Open(g)' => Open(g) /\ g # toClose[h]
      BY <2>1, CloseCloses
    <2>3. QED
      BY <2>1, <2>2 DEF OpenIsHeld
  <1>7. CASE TakeAll
    <2>1. /\ UNCHANGED <<prevFuncs, toClose, built, empty, closeCount>>
          /\ Unshared' = Unshared
          /\ takenPending' = pendingFuncs /\ takenCurrent' = currentFuncs
          /\ takenPending = None /\ takenCurrent = None
      BY <1>7 DEF TakeAll, Unshared, Control
    <2>2. \A g \in Gens : Open(g)' => Open(g)
      BY <2>1 DEF Open, Closed
    <2>3. QED
      BY <2>1, <2>2 DEF OpenIsHeld, Gens
  <1>8. CASE CloseTaken
    <2>1. /\ UNCHANGED <<currentFuncs, pendingFuncs, prevFuncs, toClose, built, empty>>
          /\ Unshared' = Unshared
      BY <1>8 DEF CloseTaken, Unshared
    <2>2. \A g \in Gens : Open(g)' => Open(g) /\ g # takenPending /\ g # takenCurrent
      <3>1. CASE takenPending = None
        <4>1. closeCount' = Close({takenCurrent})
          BY <3>1, <1>8 DEF CloseTaken, StopSucceeds, Paired
        <4>2. QED
          BY <3>1, <4>1, <2>1, CloseCloses DEF Gens
      <3>2. CASE takenPending # None
        <4>1. closeCount' = Close({takenPending, takenCurrent})
          BY <3>2, <1>8 DEF CloseTaken, StopSucceeds, Paired, HeldIsTimed
        <4>2. QED
          BY <4>1, <2>1, CloseCloses
      <3>3. QED
        BY <3>1, <3>2
    <2>3. QED
      BY <2>1, <2>2 DEF OpenIsHeld
  <1>9. QED
    BY <1>1, <1>2, <1>3, <1>4, <1>5, <1>6, <1>c, <1>7, <1>8 DEF Next, Reloading

(* Without the expiry race, nothing is open at exit but what a reload      *)
(* running at that moment owns or has installed since closeCurrent, and    *)
(* what a timer's callback has taken and not finished closing.             *)
THEOREM ExitReleasesAll ==
  ASSUME ~ExpiryDuringReload
  PROVE  Spec => []ExitReleases
  <1>1. Init => OpenIsHeld
    BY NoneAssumption, MaxGenAssumption DEF Init, OpenIsHeld, Open, Gens
  <1>2. QuietInv /\ OpenIsHeld /\ [Next]_vars => OpenIsHeld'
    BY OpenStaysHeld
  <1>3. QuietInv /\ OpenIsHeld => ExitReleases
    BY NoneAssumption DEF QuietInv, ReloadInv, Control, OpenIsHeld, Unshared, ExitReleases, Gens
  <1>4. QED
    BY <1>1, <1>2, <1>3, QuietInvariant, PTL DEF Spec

-----------------------------------------------------------------------------
(* That the reloader keeps the promise HotReload makes of it, for any      *)
(* number of reloads, without the expiry race.                             *)
(*                                                                         *)
(* QuietInv says who holds which generation.  What the promise adds is the *)
(* order of generations: serving only moves to newer ones, and a           *)
(* generation is retired early only if one between it and the one served   *)
(* is there to take its place.                                             *)

(* A generation that has superseded prevFuncs and is superseded by fresh;  *)
(* it has no functions, or is the pending one.                             *)
Between ==
  \E h \in Gens : prevFuncs < h /\ h < fresh /\ closeCount[h] = 0 /\ h \in empty \cup {pendingFuncs}

Lineage ==
  /\ snap < built
  /\ fresh # None => fresh < built
  /\ reloadPC \in {"install", "swap"} => snap < fresh
  /\ pendingFuncs # None /\ currentFuncs # None => pendingFuncs < currentFuncs
  /\ \A g \in Gens : toClose[g] # None /\ Alive => toClose[g] < snap
  /\ reloadPC = "swap" /\ Alive => fresh \in {currentFuncs, takenCurrent}
  /\ reloadPC \in {"swap", "collapse"} /\ servePC = "serving" /\ prevFuncs # None => Between

LineageInv == QuietInv /\ Lineage

LEMMA InitLineage == Init => LineageInv
<1> SUFFICES ASSUME Init PROVE LineageInv
  OBVIOUS
<1>1. QuietInv
  BY InitQuiet
<1>2. Lineage
  BY NoneAssumption DEF Init, Lineage
<1> QED
  BY <1>1, <1>2 DEF LineageInv

(* No step closes the generation that Between names but the reload's own.  *)
LEMMA BetweenStays ==
  ASSUME LineageInv, reloadPC \in {"swap", "collapse"}, servePC = "serving", prevFuncs # None,
         closeCount' = closeCount, empty' = empty, UNCHANGED <<prevFuncs, pendingFuncs, fresh>>
  PROVE  Between'
BY DEF LineageInv, Lineage, Between

LEMMA NextLineage ==
  ASSUME ~ExpiryDuringReload, LineageInv, [Next]_vars
  PROVE  LineageInv'
<1> USE NoneAssumption DEF Gens, GenOrNone, Alive, generations, timers, fields, reloadVars, serveVars
<1>0. QuietInv'
  BY NextStaysQuiet DEF LineageInv
<1>t. TypeOK /\ Control /\ ServesCurrent /\ SoleHolder /\ ExpiredIsPending
  BY DEF LineageInv, QuietInv, ReloadInv
<1>b. ASSUME reloadPC' \in {"swap", "collapse"}, reloadPC \in {"swap", "collapse"}, servePC' = "serving", servePC = "serving",
             prevFuncs' # None, closeCount' = closeCount, empty' = empty, UNCHANGED <<prevFuncs, pendingFuncs, fresh>>
      PROVE  Between'
  BY <1>b, BetweenStays
<1>1. CASE BeginReload
  BY <1>0, <1>t, <1>1 DEF BeginReload, LineageInv, Lineage, TypeOK, Control
<1>2. CASE BuildFail
  BY <1>0, <1>t, <1>2 DEF BuildFail, LineageInv, Lineage, TypeOK, Control
<1>3. CASE BuildOk
  BY <1>0, <1>t, <1>3 DEF BuildOk, LineageInv, Lineage, TypeOK, Control
<1>4. CASE Install
  <2>1. snap < fresh /\ fresh < built /\ (currentFuncs # None => currentFuncs = snap)
    BY <1>t, <1>4 DEF Install, LineageInv, Lineage, ServesCurrent, Control
  <2>2. ASSUME servePC = "serving", prevFuncs' # None PROVE Between'
    <3>1. currentFuncs \in Gens /\ closeCount[currentFuncs] = 0 /\ pendingFuncs < currentFuncs
      BY <1>t, <1>4, <2>2 DEF Install, LineageInv, Lineage, Control, TypeOK, SoleHolder, Fine
    <3>2. /\ currentFuncs < fresh /\ prevFuncs' = pendingFuncs /\ fresh' = fresh
          /\ closeCount' = closeCount /\ empty' = empty /\ currentFuncs \in empty \cup {pendingFuncs'}
      BY <1>4, <2>1, <3>1 DEF Install
    <3> QED
      BY <3>1, <3>2 DEF Between
  <2> QED
    BY <1>0, <1>t, <1>4, <2>1, <2>2 DEF Install, LineageInv, Lineage, TypeOK
<1>5. CASE Swap
  BY <1>0, <1>t, <1>b, <1>5 DEF Swap, LineageInv, Lineage, TypeOK
<1>6. CASE Collapse
  BY <1>0, <1>t, <1>6 DEF Collapse, LineageInv, Lineage, TypeOK
<1>7. ASSUME NEW g \in Gens, Expire(g) PROVE LineageInv'
  BY <1>0, <1>t, <1>b, <1>7 DEF Expire, LineageInv, Lineage, TypeOK
<1>8. ASSUME NEW g \in Gens, Callback(g) PROVE LineageInv'
  <2>1. reloadPC \notin {"swap", "collapse"}
    BY <1>t, <1>8 DEF Callback, ExpiredIsPending
  <2>2. pendingFuncs # None => pendingFuncs < snap
    <3>1. ASSUME pendingFuncs # None PROVE currentFuncs # None
      BY <1>t, <1>8, <3>1 DEF Callback, ExpiredIsPending, Control, TypeOK
    <3> QED
      BY <1>t, <2>1, <3>1 DEF LineageInv, Lineage, ServesCurrent, TypeOK
  <2>3. \A h \in Gens : toClose'[h] = IF h = g THEN pendingFuncs ELSE toClose[h]
    BY <1>t, <1>8 DEF Callback, TypeOK
  <2> QED
    BY <1>0, <1>t, <1>8, <2>1, <2>2, <2>3 DEF Callback, LineageInv, Lineage, TypeOK
<1>c. ASSUME NEW g \in Gens, CloseCaptured(g) PROVE LineageInv'
  <2>1. ASSUME reloadPC \in {"swap", "collapse"}, servePC = "serving", prevFuncs # None PROVE Between'
    <3>1. PICK h \in Gens : prevFuncs < h /\ h < fresh /\ closeCount[h] = 0 /\ h \in empty \cup {pendingFuncs}
      BY <2>1 DEF LineageInv, Lineage, Between
    <3>2. toClose[g] = g /\ Apart(toClose[g], pendingFuncs)
      BY <1>c DEF CloseCaptured, LineageInv, QuietInv, ReloadInv, ClosesItsOwn, CapturedAlone, HeldByCallback
    <3>3. h \notin {toClose[g]} \ empty
      BY <3>1, <3>2 DEF Apart
    <3>4. closeCount'[h] = closeCount[h] /\ empty' = empty /\ UNCHANGED <<prevFuncs, pendingFuncs, fresh>>
      BY <1>c, <3>3 DEF CloseCaptured, Close
    <3> QED
      BY <3>1, <3>4 DEF Between
  <2> QED
    BY <1>0, <1>t, <1>c, <2>1 DEF CloseCaptured, LineageInv, Lineage, TypeOK
<1>9. CASE Cancel
  BY <1>0, <1>t, <1>9 DEF Cancel, LineageInv, Lineage, TypeOK
<1>10. CASE TakeAll
  BY <1>0, <1>t, <1>10 DEF TakeAll, LineageInv, Lineage, TypeOK, Control
<1>11. CASE CloseTaken
  BY <1>0, <1>t, <1>11 DEF CloseTaken, LineageInv, Lineage, TypeOK
<1>12. CASE UNCHANGED vars
  BY <1>0, <1>b, <1>12 DEF vars, LineageInv, Lineage
<1> QED
  BY <1>1, <1>2, <1>3, <1>4, <1>5, <1>6, <1>7, <1>8, <1>c, <1>9, <1>10, <1>11, <1>12 DEF Next, Reloading

-----------------------------------------------------------------------------
(* The variables of HotReload.                                             *)
life == [g \in Gens |-> IF Closed(g) THEN "closed" ELSE IF g < built THEN "ready" ELSE "unborn"]
graceOver == {g \in Gens : timer[g] \in {"expired", "closing", "ran"}}
stopped == servePC # "serving"

LEMMA LifeIsTotal ==
  /\ life = [g \in Gens |-> life[g]]
  /\ life' = [g \in Gens |-> life'[g]]
BY DEF life

LEMMA LifeFollows ==
  ASSUME \A g \in Gens : closeCount'[g] = closeCount[g], built' = built
  PROVE  life' = life
<1>1. \A g \in Gens : life'[g] = life[g]
  BY DEF life, Closed
<1> QED
  BY <1>1, LifeIsTotal

(* Closing the generation h, if it has functions, is to retire it, and     *)
(* nothing else.                                                           *)
LEMMA ClosingOne ==
  ASSUME LineageInv, NEW h \in Gens, h < built, closeCount[h] = 0,
         closeCount' = Close({h}), built' = built
  PROVE  /\ life[h] = "ready"
         /\ life' = life \/ life' = [life EXCEPT ![h] = "closed"]
<1>1. \A g \in Gens : closeCount[g] \in Nat
  BY DEF LineageInv, QuietInv, ReloadInv, TypeOK
<1>2. \A g \in Gens : closeCount'[g] = IF g \in {h} \ empty THEN closeCount[g] + 1 ELSE closeCount[g]
  BY DEF Close
<1>3. life[h] = "ready"
  BY DEF life, Closed
<1>4. CASE h \in empty
  <2>1. \A g \in Gens : closeCount'[g] = closeCount[g]
    BY <1>2, <1>4
  <2> QED
    BY <1>3, <2>1, LifeFollows
<1>5. CASE h \notin empty
  <2>1. closeCount'[h] = 1 /\ \A g \in Gens : g # h => closeCount'[g] = closeCount[g]
    BY <1>2, <1>5
  <2>2. \A g \in Gens : life'[g] = IF g = h THEN "closed" ELSE life[g]
    BY <2>1 DEF life, Closed
  <2> QED
    BY <1>3, <2>2, LifeIsTotal
<1> QED
  BY <1>3, <1>4, <1>5

(* After the server has stopped, closing any held generations releases     *)
(* them.                                                                   *)
LEMMA Releasing ==
  ASSUME LineageInv, NEW S, \A h \in S : h # None => h \in Gens /\ h < built /\ closeCount[h] = 0,
         closeCount' = Close(S), built' = built, snap' = snap, graceOver' = graceOver,
         stopped, stopped'
  PROVE  Promise!Release
<1> USE NoneAssumption DEF Gens
<1> DEFINE R == {h \in Gens : h \in S \ empty}
<1>1. \A g \in Gens : closeCount[g] \in Nat
  BY DEF LineageInv, QuietInv, ReloadInv, TypeOK
<1>2. \A g \in Gens : closeCount'[g] = IF g \in R THEN closeCount[g] + 1 ELSE closeCount[g]
  BY DEF Close
<1>3. \A g \in R : life[g] = "ready"
  BY DEF life, Closed
<1>4. life' = [g \in Gens |-> IF g \in R THEN "closed" ELSE life[g]]
  BY <1>1, <1>2 DEF life, Closed
<1>5. R \in SUBSET {g \in Gens : life[g] = "ready"}
  BY <1>3
<1> QED
  BY <1>4, <1>5 DEF Promise!Release, Promise!Gens, life, graceOver, stopped

LEMMA StepKeepsPromise ==
  ASSUME ~ExpiryDuringReload, LineageInv, [Next]_vars
  PROVE  [Promise!Next]_(Promise!vars)
<1> USE NoneAssumption DEF Gens, GenOrNone, Alive, generations, timers, fields, reloadVars, serveVars
<1> DEFINE Same == life' = life /\ graceOver' = graceOver /\ snap' = snap /\ (stopped' <=> stopped)
<1>t. TypeOK /\ Control /\ ServesCurrent /\ SoleHolder /\ CapturedAlone /\ NothingToClose /\ Paired
  BY DEF LineageInv, QuietInv, ReloadInv
<1>q. ExpiredIsPending /\ HeldIsTimed /\ ClosesItsOwn /\ SupersededIsHeld
  BY DEF LineageInv, QuietInv
<1>l. Lineage
  BY DEF LineageInv
<1>p. ASSUME Same PROVE UNCHANGED Promise!vars
  BY <1>p DEF Promise!vars, life, graceOver, stopped
<1>n. closeCount' = closeCount /\ built' = built => life' = life
  BY DEF life, Closed
<1>g. timer' = timer => graceOver' = graceOver
  BY DEF graceOver
<1>1. CASE BeginReload
  BY <1>1, <1>p, <1>n, <1>g DEF BeginReload, stopped
<1>2. ASSUME reloadPC = "build", built' = built + 1, UNCHANGED <<timer, snap, servePC>>,
             closeCount' = closeCount \/ closeCount' = [closeCount EXCEPT ![built] = @ + 1]
      PROVE  \E g \in Gens : Promise!Build(g)
  <2>1. built \in Gens /\ closeCount[built] = 0 /\ \A g \in Gens : closeCount[g] \in Nat
    BY <1>t, <1>2 DEF TypeOK, Control, NothingToClose
  <2>2. life[built] = "unborn"
    BY <2>1 DEF life, Closed
  <2>3. CASE closeCount' = closeCount
    <3>1. \A g \in Gens : life'[g] = IF g = built THEN "ready" ELSE life[g]
      BY <1>2, <1>t, <2>1, <2>3 DEF life, Closed, TypeOK
    <3>2. life' = [life EXCEPT ![built] = "ready"]
      BY <3>1, <2>1, LifeIsTotal
    <3> QED
      BY <1>2, <1>g, <2>1, <2>2, <3>2 DEF Promise!Build, Promise!Gens, life, graceOver, stopped
  <2>4. CASE closeCount' = [closeCount EXCEPT ![built] = @ + 1]
    <3>1. closeCount'[built] = 1 /\ \A g \in Gens : g # built => closeCount'[g] = closeCount[g]
      BY <1>t, <2>1, <2>4 DEF TypeOK
    <3>2. \A g \in Gens : life'[g] = IF g = built THEN "closed" ELSE life[g]
      BY <1>2, <1>t, <2>1, <3>1 DEF life, Closed, TypeOK
    <3>3. life' = [life EXCEPT ![built] = "closed"]
      BY <3>2, <2>1, LifeIsTotal
    <3> QED
      BY <1>2, <1>g, <2>1, <2>2, <3>3 DEF Promise!Build, Promise!Gens, life, graceOver, stopped
  <2> QED
    BY <1>2, <2>3, <2>4
<1>3. CASE BuildFail
  <2>1. CASE UNCHANGED generations
    BY <1>3, <2>1, <1>p, <1>n, <1>g DEF BuildFail, stopped
  <2>2. CASE built' = built + 1
    BY <1>2, <1>3, <2>2 DEF BuildFail, Promise!Next, Promise!Gens
  <2> QED
    BY <1>3, <2>1, <2>2 DEF BuildFail
<1>4. CASE BuildOk
  BY <1>2, <1>4 DEF BuildOk, Promise!Next, Promise!Gens
<1>5. CASE Install
  <2>1. currentFuncs # None /\ currentFuncs \notin empty => timer[currentFuncs] = "none"
    <3>1. ASSUME currentFuncs # None, currentFuncs \notin empty, timer[currentFuncs] # "none" PROVE FALSE
      <4>1. PICK g \in Gens : g = currentFuncs
        BY <1>t, <3>1 DEF TypeOK
      <4>2. Superseded(g) /\ Open(g) /\ g \notin Held
        BY <1>t, <3>1, <4>1 DEF TypeOK, SoleHolder, Fine, Apart, Superseded, Open, Closed, Held
      <4>3. timer[g] # "closing"
        BY <1>t, <1>q, <4>1 DEF ClosesItsOwn, CapturedAlone, HeldByCallback, Apart
      <4> QED
        BY <1>q, <4>2, <4>3 DEF SupersededIsHeld
    <3> QED
      BY <3>1
  <2>2. graceOver' = graceOver
    BY <1>t, <1>5, <2>1 DEF Install, graceOver, TypeOK
  <2> QED
    BY <1>5, <2>2, <1>p, <1>n DEF Install, stopped
<1>6. CASE Swap
  <2>1. fresh \in Gens /\ snap < fresh /\ fresh < built /\ closeCount[fresh] = 0
    BY <1>t, <1>l, <1>6 DEF Swap, Lineage, Control, TypeOK, SoleHolder, Fine
  <2>2. life[fresh] = "ready"
    BY <2>1 DEF life, Closed
  <2>3. Promise!Switch(fresh)
    BY <1>6, <1>n, <1>g, <2>1, <2>2 DEF Swap, Promise!Switch, life, graceOver, stopped
  <2> QED
    BY <2>1, <2>3 DEF Promise!Next, Promise!Gens
<1>7. CASE Collapse
  <2>1. CASE ~StopSucceeds(prevTimer)
    BY <1>7, <2>1, <1>p, <1>n, <1>g DEF Collapse, stopped
  <2>2. CASE StopSucceeds(prevTimer)
    <3>1. prevFuncs \in Gens /\ prevFuncs < built /\ closeCount[prevFuncs] = 0
      BY <1>t, <2>2 DEF StopSucceeds, Paired, TypeOK, SoleHolder, Fine
    <3>2. closeCount' = Close({prevFuncs}) /\ built' = built /\ snap' = snap /\ servePC' = servePC
      BY <1>7, <2>2 DEF Collapse
    <3>3. graceOver' = graceOver
      BY <1>t, <1>7, <2>2 DEF Collapse, StopSucceeds, graceOver, TypeOK
    <3>4. CASE stopped
      <4>1. Promise!Release
        BY <3>1, <3>2, <3>3, <3>4, Releasing DEF stopped
      <4> QED
        BY <4>1 DEF Promise!Next
    <3>5. CASE ~stopped
      <4>1. PICK h \in Gens : prevFuncs < h /\ h < snap /\ closeCount[h] = 0
        BY <1>t, <1>l, <1>7, <3>1, <3>5 DEF Collapse, Control, Lineage, Between, stopped
      <4>2. h < built
        BY <1>t, <1>l, <4>1 DEF Lineage, TypeOK
      <4>3. life[h] = "ready"
        BY <4>1, <4>2 DEF life, Closed
      <4>4. PICK g \in Gens : g = prevFuncs
        BY <3>1
      <4>5. g < built /\ closeCount[g] = 0 /\ g < h /\ g < snap /\ closeCount' = Close({g})
        BY <1>t, <3>1, <3>2, <4>1, <4>4 DEF TypeOK
      <4>6. life[g] = "ready" /\ (life' = life \/ life' = [life EXCEPT ![g] = "closed"])
        BY <3>2, <4>5, ClosingOne
      <4>7. CASE life' = life
        BY <1>p, <3>2, <3>3, <4>7 DEF stopped
      <4>8. CASE life' = [life EXCEPT ![g] = "closed"]
        <5>1. Promise!Retire(g)
          BY <3>2, <3>3, <4>1, <4>3, <4>5, <4>6, <4>8
             DEF Promise!Retire, Promise!Collapsed, Promise!Gens, life, graceOver, stopped
        <5> QED
          BY <5>1 DEF Promise!Next, Promise!Gens
      <4> QED
        BY <4>6, <4>7, <4>8
    <3> QED
      BY <3>4, <3>5
  <2> QED
    BY <2>1, <2>2
<1>8. ASSUME NEW g \in Gens, Expire(g) PROVE Promise!GraceElapses(g)
  <2>1. g \notin graceOver /\ graceOver' = graceOver \cup {g}
    BY <1>t, <1>8 DEF Expire, graceOver, TypeOK
  <2> QED
    BY <1>8, <1>n, <2>1 DEF Expire, Promise!GraceElapses, life, graceOver, stopped
<1>9. ASSUME NEW g \in Gens, Callback(g) PROVE Same
  <2>1. graceOver' = graceOver
    BY <1>t, <1>9 DEF Callback, graceOver, TypeOK
  <2> QED
    BY <1>9, <1>n, <2>1 DEF Callback, stopped
<1>c. ASSUME NEW g \in Gens, CloseCaptured(g) PROVE Same \/ Promise!Retire(g)
  <2>1. toClose[g] = g
    BY <1>q, <1>c DEF CloseCaptured, ClosesItsOwn
  <2>2. g < built /\ closeCount[g] = 0 /\ g # currentFuncs /\ g # Unshared
    BY <1>t, <2>1 DEF CapturedAlone, HeldByCallback, Fine, Apart
  <2>3. g < snap
    BY <1>l, <1>c, <2>1 DEF CloseCaptured, Lineage
  <2>4. graceOver' = graceOver /\ g \in graceOver
    BY <1>t, <1>c DEF CloseCaptured, graceOver, TypeOK
  <2>5. closeCount' = Close({g}) /\ built' = built /\ snap' = snap /\ servePC' = servePC
    BY <1>c, <2>1 DEF CloseCaptured
  <2> QED
    BY <2>2, <2>3, <2>4, <2>5, ClosingOne DEF Promise!Retire, life, graceOver, stopped
<1>10. CASE Cancel
  BY <1>10, <1>n, <1>g DEF Cancel, Promise!Next, Promise!Stop, life, graceOver, stopped
<1>11. CASE TakeAll
  BY <1>11, <1>n, <1>g DEF TakeAll, Promise!Next, Promise!Stop, life, graceOver, stopped
<1>12. CASE CloseTaken
  <2>1. graceOver' = graceOver
    BY <1>t, <1>12 DEF CloseTaken, StopSucceeds, graceOver, TypeOK
  <2>2. \A h \in {takenPending, takenCurrent} : h # None => h \in Gens /\ h < built /\ closeCount[h] = 0
    BY <1>t DEF TypeOK, SoleHolder, Fine
  <2>3. stopped /\ stopped' /\ built' = built /\ snap' = snap
    BY <1>12 DEF CloseTaken, stopped
  <2>4. closeCount' = Close({takenPending, takenCurrent}) \/ closeCount' = Close({takenCurrent})
    BY <1>12 DEF CloseTaken
  <2>5. Promise!Release
    BY <2>1, <2>2, <2>3, <2>4, Releasing
  <2> QED
    BY <2>5 DEF Promise!Next
<1>13. CASE UNCHANGED vars
  BY <1>13, <1>p, <1>n, <1>g DEF vars, stopped
<1> QED
  <2>1. ASSUME NEW g \in Gens, Expire(g) PROVE Promise!Next
    BY <1>8, <2>1 DEF Promise!Next, Promise!Gens
  <2>2. ASSUME NEW g \in Gens, Callback(g) PROVE UNCHANGED Promise!vars
    BY <1>9, <1>p, <2>2
  <2>3. ASSUME NEW g \in Gens, CloseCaptured(g) PROVE Promise!Next \/ UNCHANGED Promise!vars
    BY <1>c, <1>p, <2>3 DEF Promise!Next, Promise!Gens
  <2> QED
    BY <1>1, <1>3, <1>4, <1>5, <1>6, <1>7, <1>10, <1>11, <1>12, <1>13, <2>1, <2>2, <2>3
       DEF Next, Reloading

LEMMA InitKeepsPromise == Init => Promise!Init
BY MaxGenAssumption DEF Init, Promise!Init, Promise!Gens, Gens, Closed

(* Without the expiry race the reloader implements HotReload: a generation *)
(* to serve from at any moment, ever newer, and the superseded ones closed *)
(* once, after their grace or when a later one took their place.           *)
THEOREM ReloadRefinesHotReload ==
  ASSUME ~ExpiryDuringReload
  PROVE  Spec => PromiseKept
<1>1. Init => LineageInv /\ Promise!Init
  BY InitLineage, InitKeepsPromise
<1>2. LineageInv /\ [Next]_vars => LineageInv' /\ [Promise!Next]_(Promise!vars)
  BY NextLineage, StepKeepsPromise
<1> QED
  BY <1>1, <1>2, PTL DEF Spec, PromiseKept, Promise!Spec
=============================================================================
