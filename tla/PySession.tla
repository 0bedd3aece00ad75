----------------------------- MODULE PySession -----------------------------
(***************************************************************************)
(* A session in Python (crates/morphit-py/src/session.rs): several threads *)
(* of an interpreter iterate, step, run, finalize, cancel and read one     *)
(* Session object.  As behind the C API the optimizer sits behind a mutex  *)
(* and readers copy a snapshot; but every call that changes the session    *)
(* claims it first, exceptions end calls anywhere, and the interpreter's   *)
(* lock is released while an iteration runs and needed to go on after it.  *)
(*                                                                         *)
(* What a thread does between getting the interpreter's lock and releasing *)
(* it is one step: nothing it touches changes without that lock.           *)
(***************************************************************************)
EXTENDS Session

CONSTANTS
  Threads,    \* threads of the interpreter
  NoThread,   \* a lock is free
  MaxCalls,   \* bound: calls the threads make
  CanPanic    \* whether an iteration or a finalize may panic

ASSUME PyAssumption ==
  /\ NoThread \notin Threads
  /\ MaxCalls \in Nat
  /\ CanPanic \in BOOLEAN

VARIABLES
  inner,     \* Core::session
  snapshot,  \* Core::snapshot
  torn,      \* a panic left `inner' half updated
  poisoned,  \* the mutex was poisoned by a panic
  lock,      \* the thread that holds the mutex, or NoThread
  gil,       \* the thread that holds the interpreter's lock, or NoThread
  cancel,    \* Core::cancel
  running,   \* Core::running: the session is claimed
  pc,        \* where each thread is
  op,        \* the call each thread is in
  outcome,   \* what the detached part of each thread's call ended with
  result,    \* what each thread's last call returned or raised
  calls,     \* calls made so far
  fresh      \* history: the session was running when the run claimed it

core == <<inner, snapshot, torn, poisoned>>
vars == <<core, lock, gil, cancel, running, pc, op, outcome, result, calls, fresh>>

\* Snapshot::of: what the getters copy.
SnapshotOf(s) == ViewOf(s)

Init ==
  /\ inner \in {NewSession(n) : n \in StartCounts}
  /\ snapshot = SnapshotOf(inner)
  /\ torn = FALSE /\ poisoned = FALSE
  /\ lock = NoThread /\ gil = NoThread
  /\ cancel = FALSE /\ running = FALSE
  /\ pc = [t \in Threads |-> "idle"]
  /\ op = [t \in Threads |-> "none"]
  /\ outcome = [t \in Threads |-> "none"]
  /\ result = [t \in Threads |-> "none"]
  /\ calls = 0
  /\ fresh = FALSE
-----------------------------------------------------------------------------
Goto(t, label) == pc' = [pc EXCEPT ![t] = label]

Claimants == {"run", "step", "next", "finalize"}

\* Return or raise: the guard of a claim is dropped on every way out.
\* A bug for the checks to find: an exception skips the guard.
ReturnsKeepingClaim(t, value) ==
  /\ Goto(t, "idle")
  /\ op' = [op EXCEPT ![t] = "none"]
  /\ result' = [result EXCEPT ![t] = value]
  /\ gil' = NoThread
  /\ running' = (running /\ (op[t] \notin Claimants \/ value = "raised"))
Returns(t, value) ==
  /\ Goto(t, "idle")
  /\ op' = [op EXCEPT ![t] = "none"]
  /\ result' = [result EXCEPT ![t] = value]
  /\ gil' = NoThread
  /\ running' = (running /\ op[t] \notin Claimants)

Call(t) ==
  /\ pc[t] = "idle"
  /\ gil = NoThread
  /\ calls < MaxCalls
  /\ calls' = calls + 1
  /\ UNCHANGED <<core, lock, outcome>>

Answers(t, value) ==
  /\ result' = [result EXCEPT ![t] = value]
  /\ UNCHANGED <<gil, running, pc, op, fresh>>

Cancel(t) == Call(t) /\ cancel' = TRUE /\ Answers(t, "ok")

(***************************************************************************)
(* claim(): a compare-and-exchange on `running'.  `run' goes on with the   *)
(* interpreter's lock, the others release it at once.                      *)
(***************************************************************************)
\* A bug for the checks to find: a finalize does not mind a run.
ConflictsUnlessFinalize(name) == running /\ name # "finalize"
Conflicts(name) == running

EntryPoint == [run |-> "loop", step |-> "lock", next |-> "lock", finalize |-> "finalLock"]

Claim(t, name) ==
  /\ Call(t)
  /\ \/ Conflicts(name) /\ Answers(t, "BusyError")
     \/ /\ ~Conflicts(name)
        /\ running' = TRUE
        /\ op' = [op EXCEPT ![t] = name]
        /\ Goto(t, EntryPoint[name])
        /\ gil' = IF name = "run" THEN t ELSE NoThread
        /\ fresh' = IF name = "run" THEN inner.state = "running" ELSE fresh
        /\ UNCHANGED result
     \/ name = "next" /\ Answers(t, "raised")   \* check_signals
  /\ UNCHANGED cancel

\* history() and samples() lock the session without a claim.
Read(t) ==
  /\ Call(t)
  /\ op' = [op EXCEPT ![t] = "history"]
  /\ Goto(t, "readLock")
  /\ UNCHANGED <<gil, cancel, running, result, fresh>>

(***************************************************************************)
(* The top of run_with's loop: a pending cancel request or a signal ends   *)
(* the run before its next iteration.                                      *)
(***************************************************************************)
Loop(t) ==
  /\ pc[t] = "loop"
  /\ \/ cancel /\ cancel' = FALSE /\ Returns(t, "cancelled")
     \/ ~cancel /\ Returns(t, "raised") /\ UNCHANGED cancel
     \/ /\ ~cancel
        /\ Goto(t, "lock")
        /\ gil' = NoThread
        /\ UNCHANGED <<cancel, running, op, result>>
  /\ UNCHANGED <<core, lock, outcome, calls, fresh>>
-----------------------------------------------------------------------------
(* Without the interpreter's lock: step_once, finalize, history. *)

Ends(t, what) ==
  /\ outcome' = [outcome EXCEPT ![t] = what]
  /\ Goto(t, "attach")

HeldPlace == [lock |-> "train", finalLock |-> "prune", readLock |-> "read"]

\* A bug for the checks to find: who meets a poisoned mutex waits for it.
LockUnlessPoisoned(t) ==
  /\ pc[t] \in DOMAIN HeldPlace
  /\ lock = NoThread
  /\ ~poisoned
  /\ \/ pc[t] = "lock" /\ IsDone(inner) /\ Ends(t, "exhausted") /\ UNCHANGED lock
     \/ /\ ~(pc[t] = "lock" /\ IsDone(inner))
        /\ lock' = t
        /\ Goto(t, HeldPlace[pc[t]])
        /\ UNCHANGED outcome
  /\ UNCHANGED <<core, gil, cancel, running, op, result, calls, fresh>>
Lock(t) ==
  /\ pc[t] \in DOMAIN HeldPlace
  /\ lock = NoThread
  /\ \/ poisoned /\ Ends(t, "failed") /\ UNCHANGED lock
     \/ ~poisoned /\ pc[t] = "lock" /\ IsDone(inner) /\ Ends(t, "exhausted") /\ UNCHANGED lock
     \/ /\ ~poisoned
        /\ ~(pc[t] = "lock" /\ IsDone(inner))
        /\ lock' = t
        /\ Goto(t, HeldPlace[pc[t]])
        /\ UNCHANGED outcome
  /\ UNCHANGED <<core, gil, cancel, running, op, result, calls, fresh>>

Detached == <<gil, cancel, running, op, result, calls, fresh>>

Train(t) ==
  /\ pc[t] = "train"
  /\ inner' \in StepResults(inner)
  /\ outcome' = [outcome EXCEPT ![t] = "stepped"]
  /\ Goto(t, "publish")
  /\ UNCHANGED <<snapshot, torn, poisoned, lock, Detached>>

\* run_with looks at the state before it finalizes.
Prune(t) ==
  /\ pc[t] = "prune"
  /\ inner' \in FinalizeResults(inner)
  /\ outcome' = [outcome EXCEPT ![t] =
                   IF inner.state = "converged" THEN "converged" ELSE "completed"]
  /\ Goto(t, "publish")
  /\ UNCHANGED <<snapshot, torn, poisoned, lock, Detached>>

\* The mutex is released at the end of the detached closure.
\* Bugs for the checks to find: the guard lives until the thread is attached
\* again, and a step that is not published.
PublishKeepingLock(t) ==
  /\ pc[t] = "publish"
  /\ snapshot' = SnapshotOf(inner)
  /\ Goto(t, "attach")
  /\ UNCHANGED <<inner, torn, poisoned, lock, outcome, Detached>>
PublishNothing(t) ==
  /\ pc[t] = "publish"
  /\ lock' = NoThread
  /\ Goto(t, "attach")
  /\ UNCHANGED <<core, outcome, Detached>>
Publish(t) ==
  /\ pc[t] = "publish"
  /\ snapshot' = SnapshotOf(inner)
  /\ lock' = NoThread
  /\ Goto(t, "attach")
  /\ UNCHANGED <<inner, torn, poisoned, outcome, Detached>>

ReadDone(t) ==
  /\ pc[t] = "read"
  /\ lock' = NoThread
  /\ Ends(t, "ok")
  /\ UNCHANGED <<core, Detached>>

Panic(t) ==
  /\ CanPanic
  /\ pc[t] \in {"train", "prune"}
  /\ torn' = TRUE
  /\ poisoned' = TRUE
  /\ lock' = NoThread
  /\ Ends(t, "failed")
  /\ UNCHANGED <<inner, snapshot, Detached>>
-----------------------------------------------------------------------------
(***************************************************************************)
(* Attached again.  A run calls back (every N iterations), goes on, prunes *)
(* or forgets pending cancel requests and returns; the others return.      *)
(***************************************************************************)
Value(t) ==
  CASE outcome[t] = "failed" -> "raised"
    [] outcome[t] = "exhausted" /\ op[t] = "step" -> "raised"
    [] outcome[t] = "exhausted" /\ op[t] = "next" -> "stop"
    [] outcome[t] # "failed" /\ op[t] = "run" -> outcome[t]
    [] OTHER -> "ok"

Attach(t) ==
  /\ pc[t] = "attach"
  /\ gil = NoThread
  /\ \/ /\ op[t] = "run" /\ outcome[t] = "stepped"
        /\ gil' = t
        /\ Goto(t, "callback") \/ Goto(t, "loop")
        /\ UNCHANGED <<cancel, running, op, result>>
     \/ /\ op[t] = "run" /\ outcome[t] = "exhausted"
        /\ Goto(t, "finalLock")
        /\ UNCHANGED <<gil, cancel, running, op, result>>
     \/ /\ ~(op[t] = "run" /\ outcome[t] \in {"stepped", "exhausted"})
        /\ cancel' = (cancel /\ ~(op[t] = "run" /\ outcome[t] # "failed"))
        /\ Returns(t, Value(t))
  /\ UNCHANGED <<core, lock, outcome, calls, fresh>>

(***************************************************************************)
(* The callback: it may cancel its session, let other threads run, go on,  *)
(* return False or raise.  Other calls on its session are refused as busy. *)
(***************************************************************************)
CallbackCancels(t) ==
  /\ pc[t] = "callback"
  /\ cancel' = TRUE
  /\ UNCHANGED <<core, lock, gil, running, pc, op, outcome, result, calls, fresh>>

CallbackYields(t) ==
  /\ pc[t] = "callback"
  /\ gil' = NoThread
  /\ Goto(t, "yielded")
  /\ UNCHANGED <<core, lock, cancel, running, op, outcome, result, calls, fresh>>

CallbackResumes(t) ==
  /\ pc[t] = "yielded"
  /\ gil = NoThread
  /\ gil' = t
  /\ Goto(t, "callback")
  /\ UNCHANGED <<core, lock, cancel, running, op, outcome, result, calls, fresh>>

CallbackReturns(t) ==
  /\ pc[t] = "callback"
  /\ \/ Goto(t, "loop") /\ UNCHANGED <<gil, running, op, result>>
     \/ \E value \in {"cancelled", "raised"} : Returns(t, value)
  /\ UNCHANGED <<core, lock, cancel, outcome, calls, fresh>>

HostCalls(t) ==
  Cancel(t) \/ Read(t) \/ \E name \in Claimants : Claim(t, name)

Continues(t) ==
  \/ Loop(t) \/ Lock(t) \/ Train(t) \/ Prune(t) \/ Publish(t) \/ ReadDone(t)
  \/ Attach(t) \/ CallbackResumes(t) \/ CallbackReturns(t)

Next ==
  \E t \in Threads :
    HostCalls(t) \/ Continues(t) \/ Panic(t) \/ CallbackCancels(t) \/ CallbackYields(t)

Spec == Init /\ [][Next]_vars

(***************************************************************************)
(* A thread inside a call goes on, gets a lock that keeps being free, and  *)
(* its callback returns even if it lets others run now and then.           *)
(***************************************************************************)
Fairness ==
  \A t \in Threads :
    /\ WF_vars(Continues(t))
    /\ SF_vars(Attach(t) \/ CallbackResumes(t))
    /\ SF_vars(CallbackReturns(t))
-----------------------------------------------------------------------------
(* Properties. *)

(***************************************************************************)
(* `running' is set exactly while one thread is inside a claiming call:    *)
(* every way out of a call, exceptions and panics included, gives it up.   *)
(***************************************************************************)
ClaimIsExclusive ==
  /\ running <=> \E t \in Threads : op[t] \in Claimants
  /\ \A t, u \in Threads : {op[t], op[u]} \subseteq Claimants => t = u

(***************************************************************************)
(* Nobody holds the session's mutex while running Python code or waiting   *)
(* for the interpreter's lock: no two threads can wait for each other.     *)
(***************************************************************************)
NoLockAcrossGil ==
  \A t \in Threads :
    lock = t => gil # t /\ pc[t] \in {"train", "prune", "publish", "read"}

(***************************************************************************)
(* What `run' says is so ("a cancelled session can be run again",          *)
(* session.rs:329): completed and converged runs saw every iteration       *)
(* through or convergence, a cancelled one leaves its session unpruned.    *)
(***************************************************************************)
RunsEndTruthfully ==
  [][\A t \in Threads :
       op[t] = "run" /\ op'[t] = "none" /\ fresh =>
         /\ result'[t] \in {"completed", "converged"} =>
              /\ inner.state = "finalized"
              /\ inner.iteration = Iterations \/ inner.last.converged
              /\ result'[t] = "converged" => inner.last.converged
         /\ result'[t] = "cancelled" => inner.state # "finalized"]_vars

(***************************************************************************)
(* Getters watch the session make progress one iteration at a time, up to  *)
(* date whenever nobody is inside the mutex.                               *)
(***************************************************************************)
Observed == INSTANCE SessionProgress WITH view <- snapshot

ImplementsProgress ==
  /\ Observed!Spec
  /\ [](lock = NoThread /\ ~poisoned => snapshot = ViewOf(inner))

\* Every call returns.
CallsReturn == \A t \in Threads : pc[t] # "idle" ~> pc[t] = "idle"
=============================================================================
