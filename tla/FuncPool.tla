------------------------------- MODULE FuncPool -------------------------------
(***************************************************************************)
(* The pool of QuickJS runtimes behind one compiled CloudFront Function    *)
(* (internal/cffunc/pool.go) together with the operations that use it      *)
(* (Compile, Execute and Close in internal/cffunc/runtime.go).             *)
(*                                                                         *)
(* A QuickJS runtime is not goroutine-safe, so every Execute borrows one   *)
(* exclusively.  Function.Close may run while requests of an older         *)
(* generation still execute.  The pool's mutex is held only for a few      *)
(* assignments, so a critical section is one step; creating, running and   *)
(* closing a runtime happen outside the mutex and are steps of their own.  *)
(*                                                                         *)
(* Runtimes is the pool of identities new runtimes are drawn from: it      *)
(* bounds how many runtimes a checked behaviour creates, never reusing one.*)
(***************************************************************************)
EXTENDS Naturals, Sequences

CONSTANTS
  Callers,    \* goroutines that call Function.Execute
  Closers,    \* goroutines that call Function.Close
  Runtimes,   \* identities of QuickJS runtimes
  MaxIdle,    \* pool.max: runtimes kept warm
  NoRuntime   \* what a caller that holds no runtime holds

ASSUME MaxIdleAssumption == MaxIdle \in Nat \ {0}
ASSUME NoRuntimeAssumption == NoRuntime \notin Runtimes

VARIABLES
  compile,    \* "pending", then "ok" or "failed": the outcome of Compile
  idle,       \* pool.idle, used as a stack
  closed,     \* pool.closed
  sandbox,    \* does the function's sandbox directory exist
  status,     \* status[r]: "unborn", "live" or "closed"
  tainted,    \* runtimes in which a handler threw or the engine failed
  pc,         \* pc[c]: where the caller c is in Execute
  held,       \* held[c]: the runtime caller c has borrowed
  closer,     \* closer[k]: where the closer k is in Close
  drain       \* drain[k]: idle runtimes the closer k has still to close

vars == <<compile, idle, closed, sandbox, status, tainted, pc, held, closer, drain>>
callerVars == <<pc, held>>
closerVars == <<closer, drain>>

IdleSet == {idle[i] : i \in DOMAIN idle}

TypeOK ==
  /\ compile \in {"pending", "ok", "failed"}
  /\ idle \in Seq(Runtimes)
  /\ closed \in BOOLEAN
  /\ sandbox \in BOOLEAN
  /\ status \in [Runtimes -> {"unborn", "live", "closed"}]
  /\ tainted \in SUBSET Runtimes
  /\ pc \in [Callers -> {"ready", "creating", "running", "returning", "discarding"}]
  /\ held \in [Callers -> Runtimes \cup {NoRuntime}]
  /\ closer \in [Closers -> {"ready", "draining", "done"}]
  /\ drain \in [Closers -> SUBSET Runtimes]

Init ==
  /\ compile = "pending"
  /\ idle = <<>>
  /\ closed = FALSE
  /\ sandbox = TRUE
  /\ status = [r \in Runtimes |-> "unborn"]
  /\ tainted = {}
  /\ pc = [c \in Callers |-> "ready"]
  /\ held = [c \in Callers |-> NoRuntime]
  /\ closer = [k \in Closers |-> "ready"]
  /\ drain = [k \in Closers |-> {}]

-----------------------------------------------------------------------------
(* Compile: one runtime is pushed through setup to validate the code.  The *)
(* function is not shared yet, so get and put run without interference.    *)

CompileOk ==
  /\ compile = "pending"
  /\ \E r \in Runtimes :
       /\ status[r] = "unborn"
       /\ status' = [status EXCEPT ![r] = "live"]
       /\ idle' = Append(idle, r)
  /\ compile' = "ok"
  /\ UNCHANGED <<closed, sandbox, tainted, callerVars, closerVars>>

(* qjs.New failed, or setup rejected the code and the runtime was closed.  *)
CompileFail ==
  /\ compile = "pending"
  /\ \/ UNCHANGED status
     \/ \E r \in Runtimes :
          /\ status[r] = "unborn"
          /\ status' = [status EXCEPT ![r] = "closed"]
  /\ sandbox' = FALSE
  /\ compile' = "failed"
  /\ UNCHANGED <<idle, closed, tainted, callerVars, closerVars>>

-----------------------------------------------------------------------------
(* Execute: pool.get, the handler, then pool.put or a direct rt.Close().   *)

(* The idle stack without its top.                                         *)
Popped_Kept == idle   \* mutant: the runtime stays in the stack
Popped == SubSeq(idle, 1, Len(idle) - 1)

(* get, a warm runtime is available: the last one returned is popped.      *)
Borrow(c) ==
  /\ compile = "ok"
  /\ pc[c] = "ready"
  /\ idle # <<>>
  /\ held' = [held EXCEPT ![c] = idle[Len(idle)]]
  /\ idle' = Popped
  /\ pc' = [pc EXCEPT ![c] = "running"]
  /\ UNCHANGED <<compile, closed, sandbox, status, tainted, closerVars>>

(* get, nothing is idle: the mutex is released before qjs.New.  get does   *)
(* not look at closed.                                                     *)
Miss(c) ==
  /\ compile = "ok"
  /\ pc[c] = "ready"
  /\ idle = <<>>
  /\ pc' = [pc EXCEPT ![c] = "creating"]
  /\ UNCHANGED <<compile, idle, closed, sandbox, status, tainted, held, closerVars>>

Create(c) ==
  /\ pc[c] = "creating"
  /\ \E r \in Runtimes :
       /\ status[r] = "unborn"
       /\ status' = [status EXCEPT ![r] = "live"]
       /\ held' = [held EXCEPT ![c] = r]
  /\ pc' = [pc EXCEPT ![c] = "running"]
  /\ UNCHANGED <<compile, idle, closed, sandbox, tainted, closerVars>>

(* qjs.New failed (it may once the sandbox is gone), or setup failed and   *)
(* get closed the fresh runtime: Execute returns an error.                 *)
CreateFail(c) ==
  /\ pc[c] = "creating"
  /\ \/ UNCHANGED status
     \/ \E r \in Runtimes :
          /\ status[r] = "unborn"
          /\ status' = [status EXCEPT ![r] = "closed"]
  /\ pc' = [pc EXCEPT ![c] = "ready"]
  /\ UNCHANGED <<compile, idle, closed, sandbox, tainted, held, closerVars>>

(* The handler settled: reusable is set, whatever parseResult then says.   *)
RunOk(c) ==
  /\ pc[c] = "running"
  /\ pc' = [pc EXCEPT ![c] = "returning"]
  /\ UNCHANGED <<compile, idle, closed, sandbox, status, tainted, held, closerVars>>

(* Mutant: a failed execution counts as reusable.                          *)
RunError_Reusable(c) ==
  /\ pc[c] = "running"
  /\ tainted' = tainted \cup {held[c]}
  /\ pc' = [pc EXCEPT ![c] = "returning"]
  /\ UNCHANGED <<compile, idle, closed, sandbox, status, held, closerVars>>

(* Invoke or Await returned an error: reusable stays false.                *)
RunError(c) ==
  /\ pc[c] = "running"
  /\ tainted' = tainted \cup {held[c]}
  /\ pc' = [pc EXCEPT ![c] = "discarding"]
  /\ UNCHANGED <<compile, idle, closed, sandbox, status, held, closerVars>>

(* Mutant: a runtime returned to a closed pool is kept.                    *)
MayKeep_IgnoresClosed == Len(idle) < MaxIdle

(* put keeps the runtime unless the pool is closed or full.                *)
MayKeep == ~closed /\ Len(idle) < MaxIdle

(* put, the runtime is kept for reuse.                                     *)
PutKeep(c) ==
  /\ pc[c] = "returning"
  /\ MayKeep
  /\ idle' = Append(idle, held[c])
  /\ held' = [held EXCEPT ![c] = NoRuntime]
  /\ pc' = [pc EXCEPT ![c] = "ready"]
  /\ UNCHANGED <<compile, closed, sandbox, status, tainted, closerVars>>

(* put, the pool is closed or full: closed after the mutex is released.    *)
PutDrop(c) ==
  /\ pc[c] = "returning"
  /\ ~MayKeep
  /\ pc' = [pc EXCEPT ![c] = "discarding"]
  /\ UNCHANGED <<compile, idle, closed, sandbox, status, tainted, held, closerVars>>

(* Mutant: the runtime is dropped without being closed.                    *)
Discard_NoClose(c) ==
  /\ pc[c] = "discarding"
  /\ held' = [held EXCEPT ![c] = NoRuntime]
  /\ pc' = [pc EXCEPT ![c] = "ready"]
  /\ UNCHANGED <<compile, idle, closed, sandbox, status, tainted, closerVars>>

(* rt.Close(), from put or from Execute's deferred function.               *)
Discard(c) ==
  /\ pc[c] = "discarding"
  /\ status' = [status EXCEPT ![held[c]] = "closed"]
  /\ held' = [held EXCEPT ![c] = NoRuntime]
  /\ pc' = [pc EXCEPT ![c] = "ready"]
  /\ UNCHANGED <<compile, idle, closed, sandbox, tainted, closerVars>>

-----------------------------------------------------------------------------
(* Function.Close: pool.close, then the sandbox directory is removed.      *)

BeginClose(k) ==
  /\ compile = "ok"
  /\ closer[k] = "ready"
  /\ closed' = TRUE
  /\ drain' = [drain EXCEPT ![k] = IdleSet]
  /\ idle' = <<>>
  /\ closer' = [closer EXCEPT ![k] = "draining"]
  /\ UNCHANGED <<compile, sandbox, status, tainted, callerVars>>

CloseIdle(k) ==
  /\ closer[k] = "draining"
  /\ \E r \in drain[k] :
       /\ status' = [status EXCEPT ![r] = "closed"]
       /\ drain' = [drain EXCEPT ![k] = @ \ {r}]
  /\ UNCHANGED <<compile, idle, closed, sandbox, tainted, callerVars, closer>>

RemoveSandbox(k) ==
  /\ closer[k] = "draining"
  /\ drain[k] = {}
  /\ sandbox' = FALSE
  /\ closer' = [closer EXCEPT ![k] = "done"]
  /\ UNCHANGED <<compile, idle, closed, status, tainted, callerVars, drain>>

-----------------------------------------------------------------------------
Executing(c) ==
  \/ Create(c) \/ CreateFail(c)
  \/ RunOk(c) \/ RunError(c)
  \/ PutKeep(c) \/ PutDrop(c) \/ Discard(c)

Closing(k) == CloseIdle(k) \/ RemoveSandbox(k)

Next ==
  \/ CompileOk \/ CompileFail
  \/ \E c \in Callers : Borrow(c) \/ Miss(c) \/ Executing(c)
  \/ \E k \in Closers : BeginClose(k) \/ Closing(k)

Spec == Init /\ [][Next]_vars

(***************************************************************************)
(* Fairness.  A started Execute finishes: qjs.New, the handler and rt.Close *)
(* return (localfront sets no time limit on a handler, so this assumes that *)
(* handlers terminate).  A started Close finishes.  Nothing forces a new    *)
(* request to arrive or Close to be called.                                 *)
(***************************************************************************)
FairSpec ==
  /\ Spec
  /\ \A c \in Callers : WF_vars(Executing(c))
  /\ \A k \in Closers : WF_vars(Closing(k))

-----------------------------------------------------------------------------
(* Properties.                                                             *)

Holds(c) == held[c] # NoRuntime
Owned(r) ==
  \/ r \in IdleSet
  \/ \E c \in Callers : held[c] = r
  \/ \E k \in Closers : r \in drain[k]

(***************************************************************************)
(* A runtime has one owner: an idle slot, one Execute or one Close.  This  *)
(* is the exclusive borrowing pool.go:9-11 asks for, across get and put    *)
(* racing with close.                                                      *)
(***************************************************************************)
Exclusive ==
  /\ \A i, j \in DOMAIN idle : idle[i] = idle[j] => i = j
  /\ \A c, d \in Callers : Holds(c) /\ held[c] = held[d] => c = d
  /\ \A k, l \in Closers : k # l => drain[k] \cap drain[l] = {}
  /\ \A c \in Callers : held[c] \notin IdleSet
  /\ \A k \in Closers : drain[k] \cap IdleSet = {}
  /\ \A c \in Callers, k \in Closers : held[c] \notin drain[k]

(***************************************************************************)
(* Whatever still refers to a runtime refers to a live one: no handler     *)
(* runs in a closed runtime and no runtime is closed a second time.        *)
(***************************************************************************)
OwnedAreLive == \A r \in Runtimes : Owned(r) => status[r] = "live"

(***************************************************************************)
(* No wasm instance is leaked: each live runtime is idle, borrowed, or     *)
(* about to be closed by a Close in progress ("drained on Close, which     *)
(* template hot reload relies on to avoid leaking wasm instances").        *)
(***************************************************************************)
NoOrphan == \A r \in Runtimes : status[r] = "live" => Owned(r)

(***************************************************************************)
(* A closed pool keeps nothing: a put that loses the race with close does  *)
(* not park its runtime where nobody will ever close it.                   *)
(***************************************************************************)
ClosedPoolIsEmpty == closed => idle = <<>>

(***************************************************************************)
(* Concurrent puts never keep more than max runtimes warm.                 *)
(***************************************************************************)
WarmBound == Len(idle) <= MaxIdle

(***************************************************************************)
(* A runtime in which an execution failed is never handed to another       *)
(* request.                                                                *)
(***************************************************************************)
NoTaintedReuse ==
  /\ IdleSet \cap tainted = {}
  /\ \A c \in Callers : pc[c] \in {"running", "returning"} => held[c] \notin tainted

(***************************************************************************)
(* Once Close was called every runtime is eventually closed, the borrowed  *)
(* ones and the ones created after Close included.                         *)
(***************************************************************************)
ClosedPoolDrains ==
  \A r \in Runtimes : (closed /\ status[r] = "live") ~> (status[r] = "closed")
=====================================================================================================================================================
