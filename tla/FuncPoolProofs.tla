---------------------------- MODULE FuncPoolProofs ----------------------------
(***************************************************************************)
(* Proofs about the runtime pool, for any number of callers, closers and   *)
(* runtimes and any pool size.                                             *)
(***************************************************************************)
EXTENDS FuncPool, TLAPS

(* A caller holds a runtime exactly between get and put.                   *)
HeldWhileBusy == \A c \in Callers : Holds(c) <=> pc[c] \notin {"ready", "creating"}

(* A closer has something to drain only while it drains.                   *)
DrainWhileClosing == \A k \in Closers : closer[k] # "draining" => drain[k] = {}

(* An unpublished function has no runtime and no user.                     *)
QuietBeforeCompile ==
  compile # "ok" =>
    /\ ~closed
    /\ idle = <<>>
    /\ \A c \in Callers : pc[c] = "ready"
    /\ \A k \in Closers : closer[k] = "ready"

(* Unborn runtimes are clean, and a tainted one only awaits its Close.     *)
TaintedIsDoomed ==
  \A r \in tainted :
    /\ status[r] # "unborn"
    /\ status[r] = "live" => \E c \in Callers : held[c] = r /\ pc[c] = "discarding"

Distinct == \A i, j \in DOMAIN idle : idle[i] = idle[j] => i = j

(* The inductive invariant: ownership, plus the facts that keep it so.     *)
PoolInv ==
  /\ TypeOK
  /\ HeldWhileBusy
  /\ DrainWhileClosing
  /\ QuietBeforeCompile
  /\ TaintedIsDoomed
  /\ Exclusive
  /\ OwnedAreLive
  /\ ClosedPoolIsEmpty

-----------------------------------------------------------------------------
(* The stack as a set: what popping and pushing do to it.                  *)

LEMMA PopIdle ==
  ASSUME idle \in Seq(Runtimes), idle # <<>>, Distinct, idle' = Popped
  PROVE  /\ idle' \in Seq(Runtimes)
         /\ Len(idle') = Len(idle) - 1
         /\ idle[Len(idle)] \in Runtimes
         /\ idle[Len(idle)] \in IdleSet
         /\ IdleSet' = IdleSet \ {idle[Len(idle)]}
         /\ Distinct'
  <1>1. Len(idle) \in Nat /\ Len(idle) # 0 /\ DOMAIN idle = 1 .. Len(idle)
    OBVIOUS
  <1>2. /\ idle' \in Seq(Runtimes)
        /\ Len(idle') = Len(idle) - 1
        /\ \A i \in 1 .. Len(idle) - 1 : idle'[i] = idle[i]
    BY <1>1 DEF Popped
  <1>3. DOMAIN idle' = 1 .. Len(idle) - 1
    BY <1>1, <1>2
  <1>4. idle[Len(idle)] \in Runtimes /\ idle[Len(idle)] \in IdleSet
    BY <1>1 DEF IdleSet
  <1>5. Distinct'
    BY <1>1, <1>2, <1>3 DEF Distinct
  <1>6. IdleSet' = IdleSet \ {idle[Len(idle)]}
    <2>1. ASSUME NEW r, r \in IdleSet' PROVE r \in IdleSet \ {idle[Len(idle)]}
      BY <2>1, <1>1, <1>2, <1>3 DEF IdleSet, Distinct
    <2>2. ASSUME NEW r, r \in IdleSet \ {idle[Len(idle)]} PROVE r \in IdleSet'
      <3>1. PICK i \in DOMAIN idle : idle[i] = r
        BY <2>2 DEF IdleSet
      <3>2. i \in 1 .. Len(idle) - 1
        BY <3>1, <2>2, <1>1
      <3>3. QED
        BY <3>1, <3>2, <1>2, <1>3 DEF IdleSet
    <2>3. QED
      BY <2>1, <2>2
  <1>7. QED
    BY <1>2, <1>4, <1>5, <1>6

LEMMA PushIdle ==
  ASSUME NEW r \in Runtimes, idle \in Seq(Runtimes), Distinct, r \notin IdleSet,
         idle' = Append(idle, r)
  PROVE  /\ idle' \in Seq(Runtimes)
         /\ Len(idle') = Len(idle) + 1
         /\ IdleSet' = IdleSet \cup {r}
         /\ Distinct'
  <1>1. Len(idle) \in Nat /\ DOMAIN idle = 1 .. Len(idle)
    OBVIOUS
  <1>2. /\ idle' \in Seq(Runtimes)
        /\ Len(idle') = Len(idle) + 1
        /\ \A i \in 1 .. Len(idle) : idle'[i] = idle[i]
        /\ idle'[Len(idle) + 1] = r
    OBVIOUS
  <1>3. DOMAIN idle' = 1 .. Len(idle) + 1
    BY <1>1, <1>2
  <1>4. \A i \in 1 .. Len(idle) : idle[i] # r
    BY <1>1 DEF IdleSet
  <1>5. Distinct'
    BY <1>1, <1>2, <1>3, <1>4 DEF Distinct
  <1>6. IdleSet' = IdleSet \cup {r}
    <2>1. ASSUME NEW x, x \in IdleSet' PROVE x \in IdleSet \cup {r}
      BY <2>1, <1>1, <1>2, <1>3 DEF IdleSet
    <2>2. ASSUME NEW x, x \in IdleSet \cup {r} PROVE x \in IdleSet'
      <3>1. CASE x = r
        BY <3>1, <1>1, <1>2, <1>3 DEF IdleSet
      <3>2. CASE x \in IdleSet
        <4>1. PICK i \in DOMAIN idle : idle[i] = x
          BY <3>2 DEF IdleSet
        <4>2. i \in DOMAIN idle' /\ idle'[i] = x
          BY <4>1, <1>1, <1>2, <1>3
        <4>3. QED
          BY <4>2 DEF IdleSet
      <3>3. QED
        BY <2>2, <3>1, <3>2
    <2>3. QED
      BY <2>1, <2>2
  <1>7. QED
    BY <1>2, <1>5, <1>6

LEMMA EmptyIdle ==
  ASSUME idle = <<>>
  PROVE  IdleSet = {} /\ Distinct /\ idle \in Seq(Runtimes) /\ Len(idle) = 0
  BY DEF IdleSet, Distinct
-----------------------------------------------------------------------------
(* Each step preserves the invariant.                                      *)

LEMMA InitPool == Init => PoolInv
  <1> SUFFICES ASSUME Init PROVE PoolInv
    OBVIOUS
  <1>1. IdleSet = {} /\ Distinct /\ idle \in Seq(Runtimes)
    BY EmptyIdle DEF Init
  <1>2. TypeOK
    BY <1>1 DEF Init, TypeOK
  <1>3. Exclusive
    BY <1>1 DEF Init, Exclusive, Holds, Distinct
  <1>4. OwnedAreLive
    BY <1>1, NoRuntimeAssumption DEF Init, OwnedAreLive, Owned
  <1>5. HeldWhileBusy /\ DrainWhileClosing /\ QuietBeforeCompile
    BY DEF Init, HeldWhileBusy, Holds, DrainWhileClosing, QuietBeforeCompile
  <1>6. TaintedIsDoomed /\ ClosedPoolIsEmpty
    BY DEF Init, TaintedIsDoomed, ClosedPoolIsEmpty
  <1>7. QED
    BY <1>2, <1>3, <1>4, <1>5, <1>6 DEF PoolInv

LEMMA BorrowPreserves ==
  ASSUME NEW c \in Callers, PoolInv, Borrow(c)
  PROVE  PoolInv'
  <1> DEFINE r == idle[Len(idle)]
  <1>1. /\ idle' \in Seq(Runtimes)
        /\ r \in Runtimes
        /\ r \in IdleSet
        /\ IdleSet' = IdleSet \ {r}
        /\ Distinct'
    BY PopIdle DEF PoolInv, TypeOK, Exclusive, Distinct, Borrow
  <1>2. TypeOK'
    BY <1>1 DEF PoolInv, TypeOK, Borrow, closerVars
  <1>3. HeldWhileBusy' /\ DrainWhileClosing' /\ QuietBeforeCompile'
    BY <1>1, NoRuntimeAssumption
       DEF PoolInv, TypeOK, Borrow, closerVars, HeldWhileBusy, Holds, DrainWhileClosing,
           QuietBeforeCompile
  <1>4. Exclusive'
    BY <1>1, NoRuntimeAssumption
       DEF PoolInv, TypeOK, Borrow, closerVars, Exclusive, Holds, Distinct
  <1>5. OwnedAreLive'
    BY <1>1 DEF PoolInv, TypeOK, Borrow, closerVars, OwnedAreLive, Owned
  <1>6. TaintedIsDoomed'
    BY <1>1 DEF PoolInv, TypeOK, Borrow, closerVars, TaintedIsDoomed
  <1>7. ClosedPoolIsEmpty'
    BY DEF PoolInv, Borrow, ClosedPoolIsEmpty
  <1>8. QED
    BY <1>2, <1>3, <1>4, <1>5, <1>6, <1>7 DEF PoolInv

LEMMA MissPreserves ==
  ASSUME NEW c \in Callers, PoolInv, Miss(c)
  PROVE  PoolInv'
  <1>1. idle' = idle /\ IdleSet' = IdleSet /\ Distinct'
    BY DEF PoolInv, Exclusive, Distinct, IdleSet, Miss
  <1>2. TypeOK'
    BY <1>1 DEF PoolInv, TypeOK, Miss, closerVars
  <1>3. HeldWhileBusy' /\ DrainWhileClosing' /\ QuietBeforeCompile'
    BY <1>1, NoRuntimeAssumption
       DEF PoolInv, TypeOK, Miss, closerVars, HeldWhileBusy, Holds, DrainWhileClosing,
           QuietBeforeCompile
  <1>4. Exclusive'
    BY <1>1, NoRuntimeAssumption
       DEF PoolInv, TypeOK, Miss, closerVars, Exclusive, Holds, Distinct, HeldWhileBusy
  <1>5. OwnedAreLive'
    BY <1>1, NoRuntimeAssumption
       DEF PoolInv, TypeOK, Miss, closerVars, OwnedAreLive, Owned, Exclusive, Holds, HeldWhileBusy
  <1>6. TaintedIsDoomed'
    BY <1>1, NoRuntimeAssumption
       DEF PoolInv, TypeOK, Miss, closerVars, TaintedIsDoomed, OwnedAreLive, Owned, Exclusive, Holds, HeldWhileBusy
  <1>7. ClosedPoolIsEmpty'
    BY <1>1 DEF PoolInv, TypeOK, Miss, closerVars, ClosedPoolIsEmpty
  <1>8. QED
    BY <1>2, <1>3, <1>4, <1>5, <1>6, <1>7 DEF PoolInv

LEMMA CreatePreserves ==
  ASSUME NEW c \in Callers, PoolInv, Create(c)
  PROVE  PoolInv'
  <1>1. idle' = idle /\ IdleSet' = IdleSet /\ Distinct'
    BY DEF PoolInv, Exclusive, Distinct, IdleSet, Create
  <1>2. TypeOK'
    BY <1>1 DEF PoolInv, TypeOK, Create, closerVars
  <1>3. HeldWhileBusy' /\ DrainWhileClosing' /\ QuietBeforeCompile'
    BY <1>1, NoRuntimeAssumption
       DEF PoolInv, TypeOK, Create, closerVars, HeldWhileBusy, Holds, DrainWhileClosing,
           QuietBeforeCompile
  <1>4. Exclusive'
    <2>1. PICK r \in Runtimes : status[r] = "unborn" /\ held' = [held EXCEPT ![c] = r]
      BY DEF Create
    <2>2. /\ r \notin IdleSet
          /\ \A d \in Callers : held[d] # r
          /\ \A k \in Closers : r \notin drain[k]
      BY <2>1 DEF PoolInv, OwnedAreLive, Owned
    <2>3. QED
      BY <1>1, <2>1, <2>2 DEF PoolInv, TypeOK, Create, closerVars, Exclusive, Holds, Distinct
  <1>5. OwnedAreLive'
    BY <1>1, NoRuntimeAssumption
       DEF PoolInv, TypeOK, Create, closerVars, OwnedAreLive, Owned, Exclusive, Holds, HeldWhileBusy
  <1>6. TaintedIsDoomed'
    BY <1>1, NoRuntimeAssumption
       DEF PoolInv, TypeOK, Create, closerVars, TaintedIsDoomed, OwnedAreLive, Owned, Exclusive, Holds, HeldWhileBusy
  <1>7. ClosedPoolIsEmpty'
    BY <1>1 DEF PoolInv, TypeOK, Create, closerVars, ClosedPoolIsEmpty
  <1>8. QED
    BY <1>2, <1>3, <1>4, <1>5, <1>6, <1>7 DEF PoolInv

LEMMA CreateFailPreserves ==
  ASSUME NEW c \in Callers, PoolInv, CreateFail(c)
  PROVE  PoolInv'
  <1>1. idle' = idle /\ IdleSet' = IdleSet /\ Distinct'
    BY DEF PoolInv, Exclusive, Distinct, IdleSet, CreateFail
  <1>2. TypeOK'
    BY <1>1 DEF PoolInv, TypeOK, CreateFail, closerVars
  <1>3. HeldWhileBusy' /\ DrainWhileClosing' /\ QuietBeforeCompile'
    BY <1>1, NoRuntimeAssumption
       DEF PoolInv, TypeOK, CreateFail, closerVars, HeldWhileBusy, Holds, DrainWhileClosing,
           QuietBeforeCompile
  <1>4. Exclusive'
    BY <1>1, NoRuntimeAssumption
       DEF PoolInv, TypeOK, CreateFail, closerVars, Exclusive, Holds, Distinct, HeldWhileBusy
  <1>5. OwnedAreLive'
    BY <1>1, NoRuntimeAssumption
       DEF PoolInv, TypeOK, CreateFail, closerVars, OwnedAreLive, Owned, Exclusive, Holds, HeldWhileBusy
  <1>6. TaintedIsDoomed'
    BY <1>1, NoRuntimeAssumption
       DEF PoolInv, TypeOK, CreateFail, closerVars, TaintedIsDoomed, OwnedAreLive, Owned, Exclusive, Holds, HeldWhileBusy
  <1>7. ClosedPoolIsEmpty'
    BY <1>1 DEF PoolInv, TypeOK, CreateFail, closerVars, ClosedPoolIsEmpty
  <1>8. QED
    BY <1>2, <1>3, <1>4, <1>5, <1>6, <1>7 DEF PoolInv

LEMMA RunOkPreserves ==
  ASSUME NEW c \in Callers, PoolInv, RunOk(c)
  PROVE  PoolInv'
  <1>1. idle' = idle /\ IdleSet' = IdleSet /\ Distinct'
    BY DEF PoolInv, Exclusive, Distinct, IdleSet, RunOk
  <1>2. TypeOK'
    BY <1>1 DEF PoolInv, TypeOK, RunOk, closerVars
  <1>3. HeldWhileBusy' /\ DrainWhileClosing' /\ QuietBeforeCompile'
    BY <1>1, NoRuntimeAssumption
       DEF PoolInv, TypeOK, RunOk, closerVars, HeldWhileBusy, Holds, DrainWhileClosing,
           QuietBeforeCompile
  <1>4. Exclusive'
    BY <1>1, NoRuntimeAssumption
       DEF PoolInv, TypeOK, RunOk, closerVars, Exclusive, Holds, Distinct, HeldWhileBusy
  <1>5. OwnedAreLive'
    BY <1>1, NoRuntimeAssumption
       DEF PoolInv, TypeOK, RunOk, closerVars, OwnedAreLive, Owned, Exclusive, Holds, HeldWhileBusy
  <1>6. TaintedIsDoomed'
    BY <1>1, NoRuntimeAssumption
       DEF PoolInv, TypeOK, RunOk, closerVars, TaintedIsDoomed, OwnedAreLive, Owned, Exclusive, Holds, HeldWhileBusy
  <1>7. ClosedPoolIsEmpty'
    BY <1>1 DEF PoolInv, TypeOK, RunOk, closerVars, ClosedPoolIsEmpty
  <1>8. QED
    BY <1>2, <1>3, <1>4, <1>5, <1>6, <1>7 DEF PoolInv

LEMMA RunErrorPreserves ==
  ASSUME NEW c \in Callers, PoolInv, RunError(c)
  PROVE  PoolInv'
  <1>1. idle' = idle /\ IdleSet' = IdleSet /\ Distinct'
    BY DEF PoolInv, Exclusive, Distinct, IdleSet, RunError
  <1>2. TypeOK'
    <2>1. held[c] \in Runtimes
      BY DEF PoolInv, TypeOK, RunError, HeldWhileBusy, Holds
    <2>2. QED
      BY <1>1, <2>1 DEF PoolInv, TypeOK, RunError, closerVars
  <1>3. HeldWhileBusy' /\ DrainWhileClosing' /\ QuietBeforeCompile'
    BY <1>1, NoRuntimeAssumption
       DEF PoolInv, TypeOK, RunError, closerVars, HeldWhileBusy, Holds, DrainWhileClosing,
           QuietBeforeCompile
  <1>4. Exclusive'
    BY <1>1, NoRuntimeAssumption
       DEF PoolInv, TypeOK, RunError, closerVars, Exclusive, Holds, Distinct, HeldWhileBusy
  <1>5. OwnedAreLive'
    BY <1>1, NoRuntimeAssumption
       DEF PoolInv, TypeOK, RunError, closerVars, OwnedAreLive, Owned, Exclusive, Holds, HeldWhileBusy
  <1>6. TaintedIsDoomed'
    BY <1>1, NoRuntimeAssumption
       DEF PoolInv, TypeOK, RunError, closerVars, TaintedIsDoomed, OwnedAreLive, Owned, Exclusive, Holds, HeldWhileBusy
  <1>7. ClosedPoolIsEmpty'
    BY <1>1 DEF PoolInv, TypeOK, RunError, closerVars, ClosedPoolIsEmpty
  <1>8. QED
    BY <1>2, <1>3, <1>4, <1>5, <1>6, <1>7 DEF PoolInv

LEMMA PutDropPreserves ==
  ASSUME NEW c \in Callers, PoolInv, PutDrop(c)
  PROVE  PoolInv'
  <1>1. idle' = idle /\ IdleSet' = IdleSet /\ Distinct'
    BY DEF PoolInv, Exclusive, Distinct, IdleSet, PutDrop
  <1>2. TypeOK'
    BY <1>1 DEF PoolInv, TypeOK, PutDrop, closerVars
  <1>3. HeldWhileBusy' /\ DrainWhileClosing' /\ QuietBeforeCompile'
    BY <1>1, NoRuntimeAssumption
       DEF PoolInv, TypeOK, PutDrop, closerVars, HeldWhileBusy, Holds, DrainWhileClosing,
           QuietBeforeCompile
  <1>4. Exclusive'
    BY <1>1, NoRuntimeAssumption
       DEF PoolInv, TypeOK, PutDrop, closerVars, Exclusive, Holds, Distinct, HeldWhileBusy
  <1>5. OwnedAreLive'
    BY <1>1, NoRuntimeAssumption
       DEF PoolInv, TypeOK, PutDrop, closerVars, OwnedAreLive, Owned, Exclusive, Holds, HeldWhileBusy
  <1>6. TaintedIsDoomed'
    BY <1>1, NoRuntimeAssumption
       DEF PoolInv, TypeOK, PutDrop, closerVars, TaintedIsDoomed, OwnedAreLive, Owned, Exclusive, Holds, HeldWhileBusy
  <1>7. ClosedPoolIsEmpty'
    BY <1>1 DEF PoolInv, TypeOK, PutDrop, closerVars, ClosedPoolIsEmpty
  <1>8. QED
    BY <1>2, <1>3, <1>4, <1>5, <1>6, <1>7 DEF PoolInv

LEMMA DiscardPreserves ==
  ASSUME NEW c \in Callers, PoolInv, Discard(c)
  PROVE  PoolInv'
  <1>1. idle' = idle /\ IdleSet' = IdleSet /\ Distinct'
    BY DEF PoolInv, Exclusive, Distinct, IdleSet, Discard
  <1>2. TypeOK'
    BY <1>1 DEF PoolInv, TypeOK, Discard, closerVars
  <1>3. HeldWhileBusy' /\ DrainWhileClosing' /\ QuietBeforeCompile'
    BY <1>1, NoRuntimeAssumption
       DEF PoolInv, TypeOK, Discard, closerVars, HeldWhileBusy, Holds, DrainWhileClosing,
           QuietBeforeCompile
  <1>4. Exclusive'
    <2>1. NoRuntime \notin IdleSet /\ \A k \in Closers : NoRuntime \notin drain[k]
      BY NoRuntimeAssumption DEF PoolInv, TypeOK, IdleSet
    <2>2. QED
      BY <1>1, <2>1 DEF PoolInv, TypeOK, Discard, closerVars, Exclusive, Holds, Distinct
  <1>5. OwnedAreLive'
    BY <1>1, NoRuntimeAssumption
       DEF PoolInv, TypeOK, Discard, closerVars, OwnedAreLive, Owned, Exclusive, Holds, HeldWhileBusy
  <1>6. TaintedIsDoomed'
    BY <1>1, NoRuntimeAssumption
       DEF PoolInv, TypeOK, Discard, closerVars, TaintedIsDoomed, OwnedAreLive, Owned, Exclusive, Holds, HeldWhileBusy
  <1>7. ClosedPoolIsEmpty'
    BY <1>1 DEF PoolInv, TypeOK, Discard, closerVars, ClosedPoolIsEmpty
  <1>8. QED
    BY <1>2, <1>3, <1>4, <1>5, <1>6, <1>7 DEF PoolInv

LEMMA CloseIdlePreserves ==
  ASSUME NEW k \in Closers, PoolInv, CloseIdle(k)
  PROVE  PoolInv'
  <1>1. idle' = idle /\ IdleSet' = IdleSet /\ Distinct'
    BY DEF PoolInv, Exclusive, Distinct, IdleSet, CloseIdle
  <1>2. TypeOK'
    BY <1>1 DEF PoolInv, TypeOK, CloseIdle, callerVars
  <1>3. HeldWhileBusy' /\ DrainWhileClosing' /\ QuietBeforeCompile'
    BY <1>1, NoRuntimeAssumption
       DEF PoolInv, TypeOK, CloseIdle, callerVars, HeldWhileBusy, Holds, DrainWhileClosing,
           QuietBeforeCompile
  <1>4. Exclusive'
    BY <1>1, NoRuntimeAssumption
       DEF PoolInv, TypeOK, CloseIdle, callerVars, Exclusive, Holds, Distinct, HeldWhileBusy
  <1>5. OwnedAreLive'
    BY <1>1, NoRuntimeAssumption
       DEF PoolInv, TypeOK, CloseIdle, callerVars, OwnedAreLive, Owned, Exclusive, Holds, HeldWhileBusy
  <1>6. TaintedIsDoomed'
    BY <1>1, NoRuntimeAssumption
       DEF PoolInv, TypeOK, CloseIdle, callerVars, TaintedIsDoomed, OwnedAreLive, Owned, Exclusive, Holds, HeldWhileBusy
  <1>7. ClosedPoolIsEmpty'
    BY <1>1 DEF PoolInv, TypeOK, CloseIdle, callerVars, ClosedPoolIsEmpty
  <1>8. QED
    BY <1>2, <1>3, <1>4, <1>5, <1>6, <1>7 DEF PoolInv

LEMMA RemoveSandboxPreserves ==
  ASSUME NEW k \in Closers, PoolInv, RemoveSandbox(k)
  PROVE  PoolInv'
  <1>1. idle' = idle /\ IdleSet' = IdleSet /\ Distinct'
    BY DEF PoolInv, Exclusive, Distinct, IdleSet, RemoveSandbox
  <1>2. TypeOK'
    BY <1>1 DEF PoolInv, TypeOK, RemoveSandbox, callerVars
  <1>3. HeldWhileBusy' /\ DrainWhileClosing' /\ QuietBeforeCompile'
    BY <1>1, NoRuntimeAssumption
       DEF PoolInv, TypeOK, RemoveSandbox, callerVars, HeldWhileBusy, Holds, DrainWhileClosing,
           QuietBeforeCompile
  <1>4. Exclusive'
    BY <1>1, NoRuntimeAssumption
       DEF PoolInv, TypeOK, RemoveSandbox, callerVars, Exclusive, Holds, Distinct, HeldWhileBusy
  <1>5. OwnedAreLive'
    BY <1>1, NoRuntimeAssumption
       DEF PoolInv, TypeOK, RemoveSandbox, callerVars, OwnedAreLive, Owned, Exclusive, Holds, HeldWhileBusy
  <1>6. TaintedIsDoomed'
    BY <1>1, NoRuntimeAssumption
       DEF PoolInv, TypeOK, RemoveSandbox, callerVars, TaintedIsDoomed, OwnedAreLive, Owned, Exclusive, Holds, HeldWhileBusy
  <1>7. ClosedPoolIsEmpty'
    BY <1>1 DEF PoolInv, TypeOK, RemoveSandbox, callerVars, ClosedPoolIsEmpty
  <1>8. QED
    BY <1>2, <1>3, <1>4, <1>5, <1>6, <1>7 DEF PoolInv

LEMMA CompileFailPreserves ==
  ASSUME PoolInv, CompileFail
  PROVE  PoolInv'
  <1>1. idle' = idle /\ IdleSet' = IdleSet /\ Distinct'
    BY DEF PoolInv, Exclusive, Distinct, IdleSet, CompileFail
  <1>2. TypeOK'
    BY <1>1 DEF PoolInv, TypeOK, CompileFail, callerVars, closerVars
  <1>3. HeldWhileBusy' /\ DrainWhileClosing' /\ QuietBeforeCompile'
    BY <1>1, NoRuntimeAssumption
       DEF PoolInv, TypeOK, CompileFail, callerVars, closerVars, HeldWhileBusy, Holds, DrainWhileClosing,
           QuietBeforeCompile
  <1>4. Exclusive'
    BY <1>1, NoRuntimeAssumption
       DEF PoolInv, TypeOK, CompileFail, callerVars, closerVars, Exclusive, Holds, Distinct, HeldWhileBusy
  <1>5. OwnedAreLive'
    BY <1>1, NoRuntimeAssumption
       DEF PoolInv, TypeOK, CompileFail, callerVars, closerVars, OwnedAreLive, Owned, Exclusive, Holds, HeldWhileBusy
  <1>6. TaintedIsDoomed'
    BY <1>1, NoRuntimeAssumption
       DEF PoolInv, TypeOK, CompileFail, callerVars, closerVars, TaintedIsDoomed, OwnedAreLive, Owned, Exclusive, Holds, HeldWhileBusy
  <1>7. ClosedPoolIsEmpty'
    BY <1>1 DEF PoolInv, TypeOK, CompileFail, callerVars, closerVars, ClosedPoolIsEmpty
  <1>8. QED
    BY <1>2, <1>3, <1>4, <1>5, <1>6, <1>7 DEF PoolInv

LEMMA PutKeepPreserves ==
  ASSUME NEW c \in Callers, PoolInv, PutKeep(c)
  PROVE  PoolInv'
  <1>1. /\ idle' \in Seq(Runtimes)
        /\ IdleSet' = IdleSet \cup {held[c]}
        /\ Distinct'
        /\ held[c] \in Runtimes
    <2>1. held[c] \in Runtimes /\ held[c] \notin IdleSet
      BY DEF PoolInv, TypeOK, PutKeep, HeldWhileBusy, Holds, Exclusive
    <2>2. QED
      BY <2>1, PushIdle DEF PoolInv, TypeOK, Exclusive, Distinct, PutKeep
  <1>2. TypeOK'
    BY <1>1 DEF PoolInv, TypeOK, PutKeep, closerVars
  <1>3. HeldWhileBusy' /\ DrainWhileClosing' /\ QuietBeforeCompile'
    BY <1>1, NoRuntimeAssumption
       DEF PoolInv, TypeOK, PutKeep, closerVars, HeldWhileBusy, Holds, DrainWhileClosing,
           QuietBeforeCompile
  <1>4. Exclusive'
    <2>1. NoRuntime \notin IdleSet' /\ \A k \in Closers : NoRuntime \notin drain[k]
      BY <1>1, NoRuntimeAssumption DEF PoolInv, TypeOK, IdleSet
    <2>2. QED
      BY <1>1, <2>1, NoRuntimeAssumption
         DEF PoolInv, TypeOK, PutKeep, closerVars, Exclusive, Holds, Distinct
  <1>5. OwnedAreLive'
    BY <1>1, NoRuntimeAssumption
       DEF PoolInv, TypeOK, PutKeep, closerVars, OwnedAreLive, Owned, Exclusive, Holds, HeldWhileBusy
  <1>6. TaintedIsDoomed'
    BY <1>1, NoRuntimeAssumption
       DEF PoolInv, TypeOK, PutKeep, closerVars, TaintedIsDoomed, OwnedAreLive, Owned, Exclusive, Holds, HeldWhileBusy
  <1>7. ClosedPoolIsEmpty'
    BY <1>1 DEF MayKeep, PoolInv, TypeOK, PutKeep, closerVars, ClosedPoolIsEmpty
  <1>8. QED
    BY <1>2, <1>3, <1>4, <1>5, <1>6, <1>7 DEF PoolInv

LEMMA BeginClosePreserves ==
  ASSUME NEW k \in Closers, PoolInv, BeginClose(k)
  PROVE  PoolInv'
  <1>1. /\ idle' \in Seq(Runtimes)
        /\ IdleSet' = {}
        /\ IdleSet \subseteq Runtimes
        /\ Distinct'
    BY DEF PoolInv, TypeOK, BeginClose, IdleSet, Distinct
  <1>2. TypeOK'
    BY <1>1 DEF PoolInv, TypeOK, BeginClose, callerVars
  <1>3. HeldWhileBusy' /\ DrainWhileClosing' /\ QuietBeforeCompile'
    BY <1>1, NoRuntimeAssumption
       DEF PoolInv, TypeOK, BeginClose, callerVars, HeldWhileBusy, Holds, DrainWhileClosing,
           QuietBeforeCompile
  <1>4. Exclusive'
    BY <1>1, NoRuntimeAssumption
       DEF PoolInv, TypeOK, BeginClose, callerVars, Exclusive, Holds, Distinct, HeldWhileBusy
  <1>5. OwnedAreLive'
    BY <1>1, NoRuntimeAssumption
       DEF PoolInv, TypeOK, BeginClose, callerVars, OwnedAreLive, Owned, Exclusive, Holds, HeldWhileBusy
  <1>6. TaintedIsDoomed'
    BY <1>1, NoRuntimeAssumption
       DEF PoolInv, TypeOK, BeginClose, callerVars, TaintedIsDoomed, OwnedAreLive, Owned, Exclusive, Holds, HeldWhileBusy
  <1>7. ClosedPoolIsEmpty'
    BY <1>1 DEF PoolInv, TypeOK, BeginClose, callerVars, ClosedPoolIsEmpty
  <1>8. QED
    BY <1>2, <1>3, <1>4, <1>5, <1>6, <1>7 DEF PoolInv

LEMMA CompileOkPreserves ==
  ASSUME PoolInv, CompileOk
  PROVE  PoolInv'
  <1>1. PICK r \in Runtimes :
          /\ status[r] = "unborn"
          /\ status' = [status EXCEPT ![r] = "live"]
          /\ idle' = <<r>>
          /\ idle' \in Seq(Runtimes)
          /\ IdleSet' = {r}
          /\ Distinct'
    <2>1. PICK r \in Runtimes :
            /\ status[r] = "unborn"
            /\ status' = [status EXCEPT ![r] = "live"]
            /\ idle' = Append(idle, r)
      BY DEF CompileOk
    <2>2. idle = <<>>
      BY DEF PoolInv, QuietBeforeCompile, CompileOk
    <2>3. IdleSet = {} /\ Distinct
      BY <2>2, EmptyIdle
    <2>4. idle' = <<r>>
      BY <2>1, <2>2
    <2>5. idle' \in Seq(Runtimes) /\ IdleSet' = {r} /\ Distinct'
      BY <2>1, <2>2, <2>3, PushIdle DEF PoolInv, TypeOK
    <2>6. QED
      BY <2>1, <2>4, <2>5
  <1>2. TypeOK'
    BY <1>1 DEF PoolInv, TypeOK, CompileOk, callerVars, closerVars
  <1>3. HeldWhileBusy' /\ DrainWhileClosing' /\ QuietBeforeCompile'
    BY <1>1, NoRuntimeAssumption
       DEF PoolInv, TypeOK, CompileOk, callerVars, closerVars, HeldWhileBusy, Holds, DrainWhileClosing,
           QuietBeforeCompile
  <1>4. Exclusive'
    <2>1. /\ \A d \in Callers : held[d] # r
          /\ \A k \in Closers : r \notin drain[k]
      BY <1>1 DEF PoolInv, OwnedAreLive, Owned
    <2>2. QED
      BY <1>1, <2>1
         DEF PoolInv, TypeOK, CompileOk, callerVars, closerVars, Exclusive, Holds, Distinct
  <1>5. OwnedAreLive'
    BY <1>1, NoRuntimeAssumption
       DEF PoolInv, TypeOK, CompileOk, callerVars, closerVars, OwnedAreLive, Owned, Exclusive, Holds, HeldWhileBusy
  <1>6. TaintedIsDoomed'
    BY <1>1, NoRuntimeAssumption
       DEF PoolInv, TypeOK, CompileOk, callerVars, closerVars, TaintedIsDoomed, OwnedAreLive, Owned, Exclusive, Holds, HeldWhileBusy
  <1>7. ClosedPoolIsEmpty'
    BY <1>1 DEF PoolInv, QuietBeforeCompile, TypeOK, CompileOk, callerVars, closerVars, ClosedPoolIsEmpty
  <1>8. QED
    BY <1>2, <1>3, <1>4, <1>5, <1>6, <1>7 DEF PoolInv

-----------------------------------------------------------------------------
(* The invariant holds of every reachable state.                           *)

LEMMA NextPreserves == PoolInv /\ [Next]_vars => PoolInv'
  <1> SUFFICES ASSUME PoolInv, [Next]_vars PROVE PoolInv'
    OBVIOUS
  <1>1. CASE CompileOk \/ CompileFail
    BY <1>1, CompileOkPreserves, CompileFailPreserves
  <1>2. CASE \E c \in Callers : Borrow(c) \/ Miss(c) \/ Executing(c)
    BY <1>2, BorrowPreserves, MissPreserves, CreatePreserves, CreateFailPreserves,
       RunOkPreserves, RunErrorPreserves, PutKeepPreserves, PutDropPreserves,
       DiscardPreserves DEF Executing
  <1>3. CASE \E k \in Closers : BeginClose(k) \/ Closing(k)
    BY <1>3, BeginClosePreserves, CloseIdlePreserves, RemoveSandboxPreserves DEF Closing
  <1>4. CASE UNCHANGED vars
    BY <1>4 DEF vars, callerVars, closerVars, PoolInv, TypeOK, HeldWhileBusy, Holds,
       DrainWhileClosing, QuietBeforeCompile, TaintedIsDoomed, Exclusive, OwnedAreLive,
       Owned, IdleSet, ClosedPoolIsEmpty
  <1>5. QED
    BY <1>1, <1>2, <1>3, <1>4 DEF Next

LEMMA PoolInvHolds == Spec => []PoolInv
  <1>1. QED
    BY InitPool, NextPreserves, PTL DEF Spec

(***************************************************************************)
(* Every variable keeps its type.                                          *)
(***************************************************************************)
THEOREM TypeCorrect == Spec => []TypeOK
  <1>1. PoolInv => TypeOK
    BY DEF PoolInv
  <1>2. QED
    BY <1>1, PoolInvHolds, PTL

(***************************************************************************)
(* A runtime has a single owner, whatever the interleaving of Execute and  *)
(* Close (pool.go: each concurrent Execute borrows one exclusively).       *)
(***************************************************************************)
THEOREM ExclusiveBorrowing == Spec => []Exclusive
  <1>1. PoolInv => Exclusive
    BY DEF PoolInv
  <1>2. QED
    BY <1>1, PoolInvHolds, PTL

(***************************************************************************)
(* Nothing runs in a closed runtime and nothing closes a runtime twice.    *)
(***************************************************************************)
THEOREM NoUseAfterClose == Spec => []OwnedAreLive
  <1>1. PoolInv => OwnedAreLive
    BY DEF PoolInv
  <1>2. QED
    BY <1>1, PoolInvHolds, PTL

(***************************************************************************)
(* A put that loses the race with close does not refill the pool.          *)
(***************************************************************************)
THEOREM ClosedStaysEmpty == Spec => []ClosedPoolIsEmpty
  <1>1. PoolInv => ClosedPoolIsEmpty
    BY DEF PoolInv
  <1>2. QED
    BY <1>1, PoolInvHolds, PTL

(***************************************************************************)
(* A runtime in which an execution failed never serves another request:    *)
(* its only owner is the caller about to close it.                         *)
(***************************************************************************)
THEOREM FailedRuntimesAreNotReused == Spec => []NoTaintedReuse
  <1>1. PoolInv => NoTaintedReuse
    <2> SUFFICES ASSUME PoolInv, NEW r \in tainted
                 PROVE  /\ r \notin IdleSet
                        /\ \A c \in Callers : pc[c] \in {"running", "returning"} => held[c] # r
      BY DEF NoTaintedReuse
    <2>1. CASE status[r] = "live"
      <3>1. PICK c \in Callers : held[c] = r /\ pc[c] = "discarding"
        BY <2>1 DEF PoolInv, TaintedIsDoomed
      <3>2. Holds(c)
        BY <3>1 DEF PoolInv, HeldWhileBusy
      <3>3. QED
        BY <3>1, <3>2 DEF PoolInv, Exclusive
    <2>2. CASE status[r] # "live"
      BY <2>2 DEF PoolInv, TypeOK, OwnedAreLive, Owned
    <2>3. QED
      BY <2>1, <2>2
  <1>2. QED
    BY <1>1, PoolInvHolds, PTL

-----------------------------------------------------------------------------
(***************************************************************************)
(* The pool never keeps more than max runtimes warm.                       *)
(***************************************************************************)
THEOREM WarmPoolIsBounded == Spec => []WarmBound
  <1>1. Init => WarmBound
    BY EmptyIdle, MaxIdleAssumption DEF Init, WarmBound
  <1>2. PoolInv /\ WarmBound /\ [Next]_vars => WarmBound'
    <2> SUFFICES ASSUME PoolInv, WarmBound, [Next]_vars PROVE WarmBound'
      OBVIOUS
    <2> USE MaxIdleAssumption
    <2>1. idle \in Seq(Runtimes) /\ Len(idle) \in Nat /\ Distinct
      BY DEF PoolInv, TypeOK, Exclusive, Distinct
    <2>2. CASE CompileOk
      <3>1. idle = <<>>
        BY <2>2 DEF CompileOk, PoolInv, QuietBeforeCompile
      <3>2. PICK r \in Runtimes : idle' = Append(idle, r)
        BY <2>2 DEF CompileOk
      <3>3. Len(idle') = 1
        BY <3>1, <3>2
      <3>4. QED
        BY <3>3 DEF WarmBound
    <2>3. ASSUME NEW c \in Callers, Borrow(c) PROVE WarmBound'
      <3>1. Len(idle') = Len(idle) - 1
        BY <2>1, <2>3, PopIdle DEF Borrow
      <3>2. QED
        BY <2>1, <3>1 DEF WarmBound
    <2>4. ASSUME NEW c \in Callers, PutKeep(c) PROVE WarmBound'
      <3>1. Len(idle') = Len(idle) + 1 /\ Len(idle) < MaxIdle
        BY <2>1, <2>4 DEF PutKeep, MayKeep
      <3>2. QED
        BY <2>1, <3>1 DEF WarmBound
    <2>5. ASSUME NEW k \in Closers, BeginClose(k) PROVE WarmBound'
      BY <2>5 DEF BeginClose, WarmBound
    <2>6. ASSUME idle' = idle PROVE WarmBound'
      BY <2>6 DEF WarmBound
    <2>7. QED
      BY <2>2, <2>3, <2>4, <2>5, <2>6
         DEF Next, vars, CompileFail, Miss, Executing, Create, CreateFail, RunOk, RunError,
             PutDrop, Discard, Closing, CloseIdle, RemoveSandbox
  <1>3. QED
    BY <1>1, <1>2, PoolInvHolds, PTL DEF Spec

(***************************************************************************)
(* No runtime is leaked: a live one is idle, borrowed or being drained.    *)
(***************************************************************************)
THEOREM NoRuntimeIsLeaked == Spec => []NoOrphan
  <1>1. Init => NoOrphan
    BY DEF Init, NoOrphan
  <1>2. PoolInv /\ NoOrphan /\ [Next]_vars => NoOrphan'
    <2> SUFFICES ASSUME PoolInv, NoOrphan, [Next]_vars,
                        NEW r \in Runtimes, status'[r] = "live"
                 PROVE  Owned(r)'
      BY DEF NoOrphan
    <2>1. status[r] = "live" => Owned(r)
      BY DEF NoOrphan
    <2>2. ASSUME idle' = idle, held' = held, drain' = drain, status' = status PROVE Owned(r)'
      BY <2>1, <2>2 DEF Owned, IdleSet
    <2>3. CASE CompileOk
      <3>1. PICK x \in Runtimes : status' = [status EXCEPT ![x] = "live"] /\ idle' = Append(idle, x)
        BY <2>3 DEF CompileOk
      <3>2. IdleSet' = IdleSet \cup {x}
        <4>1. idle = <<>> /\ IdleSet = {} /\ Distinct
          BY <2>3, EmptyIdle DEF CompileOk, PoolInv, QuietBeforeCompile
        <4>2. QED
          BY <3>1, <4>1, PushIdle DEF PoolInv, TypeOK
      <3>3. QED
        BY <2>1, <2>3, <3>1, <3>2 DEF CompileOk, callerVars, closerVars, Owned, PoolInv, TypeOK
    <2>4. CASE CompileFail
      BY <2>1, <2>4 DEF CompileFail, callerVars, closerVars, Owned, IdleSet, PoolInv, TypeOK
    <2>5. ASSUME NEW c \in Callers, Borrow(c) PROVE Owned(r)'
      <3>1. IdleSet' = IdleSet \ {idle[Len(idle)]}
        BY <2>5, PopIdle DEF Borrow, PoolInv, TypeOK, Exclusive, Distinct
      <3>2. held[c] = NoRuntime
        BY <2>5 DEF Borrow, PoolInv, HeldWhileBusy, Holds
      <3>3. QED
        BY <2>1, <2>5, <3>1, <3>2, NoRuntimeAssumption
           DEF Borrow, closerVars, Owned, PoolInv, TypeOK
    <2>6. ASSUME NEW c \in Callers, Create(c) PROVE Owned(r)'
      <3>1. held[c] = NoRuntime
        BY <2>6 DEF Create, PoolInv, HeldWhileBusy, Holds
      <3>2. QED
        BY <2>1, <2>6, <3>1, NoRuntimeAssumption
           DEF Create, closerVars, Owned, IdleSet, PoolInv, TypeOK
    <2>7. ASSUME NEW c \in Callers, CreateFail(c) PROVE Owned(r)'
      BY <2>1, <2>7 DEF CreateFail, closerVars, Owned, IdleSet, PoolInv, TypeOK
    <2>8. ASSUME NEW c \in Callers, PutKeep(c) PROVE Owned(r)'
      <3>1. held[c] \in Runtimes /\ held[c] \notin IdleSet
        BY <2>8 DEF PutKeep, PoolInv, TypeOK, HeldWhileBusy, Holds, Exclusive
      <3>2. IdleSet' = IdleSet \cup {held[c]}
        BY <2>8, <3>1, PushIdle DEF PutKeep, PoolInv, TypeOK, Exclusive, Distinct
      <3>3. QED
        BY <2>1, <2>8, <3>2 DEF PutKeep, closerVars, Owned, PoolInv, TypeOK
    <2>9. ASSUME NEW c \in Callers, Discard(c) PROVE Owned(r)'
      BY <2>1, <2>9 DEF Discard, closerVars, Owned, IdleSet, PoolInv, TypeOK
    <2>10. ASSUME NEW k \in Closers, BeginClose(k) PROVE Owned(r)'
      <3>1. drain[k] = {}
        BY <2>10 DEF BeginClose, PoolInv, DrainWhileClosing
      <3>2. drain' = [drain EXCEPT ![k] = IdleSet] /\ held' = held /\ status' = status
        BY <2>10 DEF BeginClose, callerVars
      <3>3. QED
        BY <2>1, <3>1, <3>2 DEF Owned, PoolInv, TypeOK
    <2>11. ASSUME NEW k \in Closers, CloseIdle(k) PROVE Owned(r)'
      BY <2>1, <2>11 DEF CloseIdle, callerVars, Owned, IdleSet, PoolInv, TypeOK
    <2>12. QED
      BY <2>2, <2>3, <2>4, <2>5, <2>6, <2>7, <2>8, <2>9, <2>10, <2>11
         DEF Next, vars, callerVars, closerVars, Miss, Executing, RunOk, RunError, PutDrop,
             Closing, RemoveSandbox
  <1>3. QED
    BY <1>1, <1>2, PoolInvHolds, PTL DEF Spec
=============================================================================
