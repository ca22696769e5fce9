------------------------------- MODULE Bridge -------------------------------
(***************************************************************************)
(* The life of a bridge to QuickJS: who executes JavaScript, the goroutines*)
(* that JavaScript starts and the bridge tracks, the queue of jobs by which*)
(* goroutines get at the JavaScript thread, and the close that frees it.   *)
(* Jobs are alike and counted.                                             *)
(***************************************************************************)
EXTENDS Naturals

CONSTANTS Workers,     \* goroutines that JavaScript may start
          QueueSize    \* defaultJobQueueSize

VARIABLES kernelClosed,  \* Kernel.closed, which the pump asks
          closing, closed,
          cancelled,   \* goCtx is done
          freed,       \* the context and its queue are closed
          mu,          \* who holds Bridge.mu
          queue,       \* the number of jobs in jobQueue
          pump,        \* the goroutine of startJobPump
          worker,      \* the tracked goroutines
          closer       \* the goroutine of CloseContext

vars == <<kernelClosed, closing, closed, cancelled, freed, mu, queue, pump, worker, closer>>

Pumps   == {"idle", "locking", "running", "exited"}
Runs    == {"none", "busy", "sending", "exited"}
Closers == {"none", "waiting", "locking", "freeing", "freed", "reset", "done"}
Holders == {"nobody", "pump", "eval", "closer"}

TypeOK ==
  /\ {kernelClosed, closing, closed, cancelled, freed} \subseteq BOOLEAN
  /\ mu \in Holders /\ queue \in Nat
  /\ pump \in Pumps /\ worker \in [Workers -> Runs] /\ closer \in Closers

Init ==
  /\ kernelClosed = FALSE /\ closing = FALSE /\ closed = FALSE
  /\ cancelled = FALSE /\ freed = FALSE
  /\ mu = "nobody" /\ queue = 0
  /\ pump = "idle" /\ worker = [w \in Workers |-> "none"] /\ closer = "none"

(* Whoever holds mu executes JavaScript, in between the jobs it runs.      *)
JavaScriptRuns == mu # "nobody"
-----------------------------------------------------------------------------
(* Tracked goroutines *)

Accepts == ~closing /\ ~closed

(* TryGo is called by JavaScript or by a goroutine it started, under       *)
(* lifecycleMu; a call that is refused changes nothing.                    *)
TryGo(w) ==
  /\ worker[w] = "none" /\ Accepts
  /\ JavaScriptRuns \/ \E v \in Workers : worker[v] = "busy"
  /\ worker' = [worker EXCEPT ![w] = "busy"]
  /\ UNCHANGED <<kernelClosed, closing, closed, cancelled, freed, mu, queue, pump, closer>>

(* A result or an event for JavaScript: Schedule is called.                *)
Send(w) ==
  /\ worker[w] = "busy"
  /\ worker' = [worker EXCEPT ![w] = "sending"]
  /\ UNCHANGED <<kernelClosed, closing, closed, cancelled, freed, mu, queue, pump, closer>>

(* Schedule waits for room in the queue or for the end of the context, and *)
(* for nothing else.                                                       *)
Sent(w) ==
  /\ worker[w] = "sending"
  /\ \/ freed /\ UNCHANGED queue
     \/ ~freed /\ queue < QueueSize /\ queue' = queue + 1
  /\ worker' = [worker EXCEPT ![w] = "busy"]
  /\ UNCHANGED <<kernelClosed, closing, closed, cancelled, freed, mu, pump, closer>>

Exit(w) ==
  /\ worker[w] = "busy"
  /\ worker' = [worker EXCEPT ![w] = "exited"]
  /\ UNCHANGED <<kernelClosed, closing, closed, cancelled, freed, mu, queue, pump, closer>>

(* A subscription's callback, or EvalOnJSThread outside of the JavaScript  *)
(* thread, in a goroutine that the bridge does not track.                  *)
Deliver ==
  /\ ~freed /\ queue < QueueSize
  /\ queue' = queue + 1
  /\ UNCHANGED <<kernelClosed, closing, closed, cancelled, freed, mu, pump, worker, closer>>
-----------------------------------------------------------------------------
(* JavaScript *)

(* processScheduledJobs does nothing in a kernel that closes; then         *)
(* ProcessScheduledJobs locks mu.                                          *)
PumpWakes ==
  /\ pump = "idle" /\ ~kernelClosed
  /\ pump' = "locking"
  /\ UNCHANGED <<kernelClosed, closing, closed, cancelled, freed, mu, queue, worker, closer>>

PumpLocks ==
  /\ pump = "locking" /\ mu = "nobody"
  /\ pump' = "running" /\ mu' = "pump"
  /\ UNCHANGED <<kernelClosed, closing, closed, cancelled, freed, queue, worker, closer>>

(* Somebody evaluates already, and runs the jobs as it waits.              *)
PumpSkips ==
  /\ pump = "locking" /\ mu = "eval"
  /\ pump' = "idle"
  /\ UNCHANGED <<kernelClosed, closing, closed, cancelled, freed, mu, queue, worker, closer>>

(* A turn of ProcessJobs or Await.                                         *)
RunJob ==
  /\ JavaScriptRuns /\ queue > 0
  /\ queue' = queue - 1
  /\ UNCHANGED <<kernelClosed, closing, closed, cancelled, freed, mu, pump, worker, closer>>

(* Loop has found the queue empty.                                         *)
PumpRests ==
  /\ pump = "running" /\ queue = 0
  /\ pump' = "idle" /\ mu' = "nobody"
  /\ UNCHANGED <<kernelClosed, closing, closed, cancelled, freed, queue, worker, closer>>

PumpExits ==
  /\ pump = "idle" /\ cancelled
  /\ pump' = "exited"
  /\ UNCHANGED <<kernelClosed, closing, closed, cancelled, freed, mu, queue, worker, closer>>

(* Eval, EvalAsync.  Of a context that is freed they fail.                 *)
EvalBegins ==
  /\ mu = "nobody" /\ ~freed
  /\ mu' = "eval"
  /\ UNCHANGED <<kernelClosed, closing, closed, cancelled, freed, queue, pump, worker, closer>>

EvalEnds ==
  /\ mu = "eval"
  /\ mu' = "nobody"
  /\ UNCHANGED <<kernelClosed, closing, closed, cancelled, freed, queue, pump, worker, closer>>
-----------------------------------------------------------------------------
(* Closing *)

KernelCloses ==
  /\ kernelClosed' = TRUE
  /\ UNCHANGED <<closing, closed, cancelled, freed, mu, queue, pump, worker, closer>>

(* Whoever closes a kernel or a runtime interrupts first, or again.        *)
Interrupt ==
  /\ closing' = TRUE /\ cancelled' = TRUE
  /\ UNCHANGED <<kernelClosed, closed, freed, mu, queue, pump, worker, closer>>

CloseContext ==
  /\ closer = "none" /\ closer' = "waiting"
  /\ closing' = TRUE /\ cancelled' = TRUE
  /\ UNCHANGED <<kernelClosed, closed, freed, mu, queue, pump, worker>>

Gone == /\ pump = "exited"
        /\ \A w \in Workers : worker[w] \in {"none", "exited"}

(* wg.Wait                                                                 *)
Waited ==
  /\ closer = "waiting" /\ Gone
  /\ closer' = "locking"
  /\ UNCHANGED <<kernelClosed, closing, closed, cancelled, freed, mu, queue, pump, worker>>

CloserLocksReset ==
  /\ closer = "locking" /\ mu = "nobody"
  /\ closer' = "freeing" /\ mu' = "closer" /\ closing' = FALSE
  /\ UNCHANGED <<kernelClosed, closed, cancelled, freed, queue, pump, worker>>

CloserLocks ==
  /\ closer = "locking" /\ mu = "nobody"
  /\ closer' = "freeing" /\ mu' = "closer"
  /\ UNCHANGED <<kernelClosed, closing, closed, cancelled, freed, queue, pump, worker>>

(* freeRuntime, after the jobs that were left.                             *)
Free ==
  /\ closer = "freeing" /\ queue = 0
  /\ freed' = TRUE /\ mu' = "nobody" /\ closer' = "freed"
  /\ UNCHANGED <<kernelClosed, closing, closed, cancelled, queue, pump, worker>>

Reset ==
  /\ closer = "freed"
  /\ closing' = FALSE /\ closer' = "reset"
  /\ UNCHANGED <<kernelClosed, closed, cancelled, freed, mu, queue, pump, worker>>

MarkClosed ==
  /\ closer = "reset"
  /\ closed' = TRUE /\ closer' = "done"
  /\ UNCHANGED <<kernelClosed, closing, cancelled, freed, mu, queue, pump, worker>>

Next ==
  \/ \E w \in Workers : TryGo(w) \/ Send(w) \/ Sent(w) \/ Exit(w)
  \/ Deliver
  \/ PumpWakes \/ PumpLocks \/ PumpSkips \/ RunJob \/ PumpRests \/ PumpExits
  \/ EvalBegins \/ EvalEnds
  \/ KernelCloses \/ Interrupt \/ CloseContext
  \/ Waited \/ CloserLocks \/ Free \/ Reset \/ MarkClosed

Spec == Init /\ [][Next]_vars
-----------------------------------------------------------------------------
(* QuickJS is freed when no goroutine that the bridge tracks is left and   *)
(* nobody executes JavaScript, and none starts afterwards: not in the jobs *)
(* that freeRuntime runs, and not between the two flags that follow it.    *)
FreedAlone == freed => Gone /\ mu = "nobody"
=============================================================================
