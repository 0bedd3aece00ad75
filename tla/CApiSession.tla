---------------------------- MODULE CApiSession ----------------------------
(***************************************************************************)
(* A session behind the C API (crates/morphit-capi/src/lib.rs and          *)
(* handles.rs): several threads of the host call morphit_run, _step,       *)
(* _finalize, _cancel and _session_free on one handle.                     *)
(*                                                                         *)
(* The optimizer state `inner' sits behind a mutex held for one iteration  *)
(* at a time; readers copy `snapshot', republished before the mutex is     *)
(* released; `running' marks an active run and `cancel' asks it to stop.   *)
(* Every step below is one atomic access to one of these.  Pure reads      *)
(* (morphit_state, morphit_get_*, morphit_history_json) change nothing and *)
(* are not actions: what they can see is `snapshot' in some state.         *)
(***************************************************************************)
EXTENDS Session

CONSTANTS
  Threads,    \* threads of the host
  NoThread,   \* the mutex is free
  MaxCalls,   \* bound: calls one thread makes
  CanPanic,   \* whether an iteration or a finalize may panic
  Mutators    \* the calls besides run and cancel the host makes

ASSUME ApiAssumption ==
  /\ NoThread \notin Threads
  /\ MaxCalls \in Nat
  /\ CanPanic \in BOOLEAN
  /\ Mutators \subseteq {"step", "finalize", "free"}

VARIABLES
  inner,      \* the session behind the mutex
  torn,       \* a panic left `inner' half updated
  lock,       \* the thread that holds the mutex, or NoThread
  poisoned,   \* the mutex was poisoned by a panic
  snapshot,   \* the snapshot readers copy
  cancel,     \* the cancel request flag
  running,    \* the flag that marks an active run
  freed,      \* the handle was released
  pc,         \* where each thread is
  op,         \* the call each thread is in
  status,     \* what each thread's last call returned (or is about to)
  calls,      \* calls each thread has made
  fresh,      \* history: the session was not finalized when the run began
  overrun     \* history: iterations a run trained since the flag was set

control == <<pc, op, status, calls>>
shared  == <<inner, torn, lock, poisoned, snapshot, cancel, running, freed>>
history == <<fresh, overrun>>
vars    == <<shared, control, history>>

\* Snapshot::of, as far as an observer of the session's progress cares.
SnapshotOf(s) == ViewOf(s)

Init ==
  /\ inner \in { NewSession(n) : n \in StartCounts }
  /\ torn = FALSE
  /\ lock = NoThread
  /\ poisoned = FALSE
  /\ snapshot = SnapshotOf(inner)
  /\ cancel = FALSE
  /\ running = FALSE
  /\ freed = FALSE
  /\ pc = [t \in Threads |-> "idle"]
  /\ op = [t \in Threads |-> "none"]
  /\ status = [t \in Threads |-> "none"]
  /\ calls = [t \in Threads |-> 0]
  /\ fresh = FALSE
  /\ overrun = 0
-----------------------------------------------------------------------------
Goto(t, label) == pc' = [pc EXCEPT ![t] = label]

\* A thread inside morphit_run, from its claim to its last access.
Running(t) == op[t] \in {"run", "ending"}

Returns(t, result) ==
  /\ pc' = [pc EXCEPT ![t] = "idle"]
  /\ op' = [op EXCEPT ![t] = "none"]
  /\ status' = [status EXCEPT ![t] = result]

\* A thread of the host makes a call.  No call may overlap the release of
\* the handle (the contract of morphit_session_free).
Call(t) ==
  /\ pc[t] = "idle"
  /\ calls[t] < MaxCalls
  /\ ~freed
  /\ \A u \in Threads : op[u] # "free"
  /\ calls' = [calls EXCEPT ![t] = @ + 1]

Enters(t, name, label) ==
  /\ op' = [op EXCEPT ![t] = name]
  /\ Goto(t, label)
  /\ UNCHANGED status

(***************************************************************************)
(* morphit_cancel, from any thread and from inside a progress callback.    *)
(***************************************************************************)
RequestCancel ==
  /\ cancel' = TRUE
  /\ overrun' = IF cancel THEN overrun ELSE 0

Cancel(t) ==
  /\ Call(t)
  /\ RequestCancel
  /\ status' = [status EXCEPT ![t] = "ok"]
  /\ UNCHANGED <<inner, torn, lock, poisoned, snapshot, running, freed,
                 pc, op, fresh>>

(***************************************************************************)
(* morphit_run claims the session with a compare-and-exchange.             *)
(***************************************************************************)
\* A bug for the checks to find: the guard that clears `running' is made
\* before the session is claimed, so a refused run clears it too.
RunGuardedTooEarly(t) ==
  /\ Call(t)
  /\ \/ running /\ Returns(t, "busy") /\ running' = FALSE /\ UNCHANGED fresh
     \/ /\ ~running
        /\ running' = TRUE
        /\ fresh' = (inner.state # "finalized")
        /\ Enters(t, "run", "check")
  /\ UNCHANGED <<inner, torn, lock, poisoned, snapshot, cancel, freed, overrun>>

Run(t) ==
  /\ Call(t)
  /\ \/ running /\ Returns(t, "busy") /\ UNCHANGED <<running, fresh>>
     \/ /\ ~running
        /\ running' = TRUE
        /\ fresh' = (inner.state # "finalized")
        /\ Enters(t, "run", "check")
  /\ UNCHANGED <<inner, torn, lock, poisoned, snapshot, cancel, freed, overrun>>

(***************************************************************************)
(* morphit_step, morphit_finalize and morphit_session_free look at         *)
(* `running' once, before they take the mutex (or release the handle).     *)
(***************************************************************************)
EntryPoint == [step |-> "lock", finalize |-> "finalLock", free |-> "release"]

Mutate(t, name) ==
  /\ name \in Mutators
  /\ Call(t)
  /\ \/ running /\ Returns(t, "busy")
     \/ ~running /\ Enters(t, name, EntryPoint[name])
  /\ UNCHANGED <<shared, history>>

\* The host frees a handle only while no other call is in flight, save for
\* a run that already claimed the session (then the answer is BUSY or the
\* run is over).
Free(t) ==
  /\ \A u \in Threads \ {t} : op[u] \in {"none", "run", "ending"}
  /\ Mutate(t, "free")

Release(t) ==
  /\ pc[t] = "release"
  /\ freed' = TRUE
  /\ Returns(t, "ok")
  /\ UNCHANGED <<inner, torn, lock, poisoned, snapshot, cancel, running, calls, history>>
-----------------------------------------------------------------------------
(***************************************************************************)
(* The loop of morphit_run: consume a cancel request, or go on.            *)
(***************************************************************************)
CheckCancel(t) ==
  /\ pc[t] = "check"
  /\ \/ /\ cancel
        /\ cancel' = FALSE
        /\ overrun' = 0
        /\ status' = [status EXCEPT ![t] = "cancelled"]
        /\ Goto(t, "clear")
     \/ ~cancel /\ Goto(t, "lock") /\ UNCHANGED <<cancel, overrun, status>>
  /\ UNCHANGED <<inner, torn, lock, poisoned, snapshot, running, freed, op, calls, fresh>>

\* Bugs for the checks to find: a poisoned mutex is taken all the same (as
\* the mutex of the configuration is), or a run tries again.
LockIgnoringPoison(t) ==
  /\ poisoned
  /\ lock' = t
  /\ Goto(t, IF pc[t] = "lock" THEN "train" ELSE "prune")
  /\ UNCHANGED <<op, status>>

LockRetrying(t) ==
  /\ poisoned
  /\ \/ op[t] = "run" /\ Goto(t, "check") /\ UNCHANGED <<op, status>>
     \/ op[t] # "run" /\ Returns(t, "errState")
  /\ UNCHANGED lock

\* lock() fails on a poisoned mutex; a run still has to clean up after itself.
LockFails(t) ==
  /\ poisoned
  /\ \/ /\ Running(t)
        /\ status' = [status EXCEPT ![t] = "errState"]
        /\ Goto(t, "clear")
        /\ UNCHANGED op
     \/ ~Running(t) /\ Returns(t, "errState")
  /\ UNCHANGED lock

(***************************************************************************)
(* Take the mutex for one iteration.  A run that finds the session done    *)
(* leaves the loop, a step returns MORPHIT_DONE.                           *)
(***************************************************************************)
LockForStep(t) ==
  /\ pc[t] = "lock"
  /\ lock = NoThread
  /\ \/ LockFails(t)
     \/ /\ ~poisoned /\ IsDone(inner)
        /\ \/ op[t] = "run" /\ Enters(t, "ending", "finalLock")
           \/ op[t] # "run" /\ Returns(t, "done")
        /\ UNCHANGED lock
     \/ /\ ~poisoned /\ ~IsDone(inner)
        /\ lock' = t
        /\ Goto(t, "train")
        /\ UNCHANGED <<op, status>>
  /\ UNCHANGED <<inner, torn, poisoned, snapshot, cancel, running, freed, calls, history>>

LockForFinalize(t) ==
  /\ pc[t] = "finalLock"
  /\ lock = NoThread
  /\ \/ LockFails(t)
     \/ ~poisoned /\ lock' = t /\ Goto(t, "prune") /\ UNCHANGED <<op, status>>
  /\ UNCHANGED <<inner, torn, poisoned, snapshot, cancel, running, freed, calls, history>>

\* A bug for the checks to find: an iteration is not published.
TrainUnpublished(t) ==
  /\ pc[t] = "train"
  /\ inner' \in StepResults(inner)
  /\ overrun' = IF op[t] = "run" /\ cancel THEN overrun + 1 ELSE overrun
  /\ Goto(t, "unlock")
  /\ UNCHANGED <<torn, lock, poisoned, snapshot, cancel, running, freed,
                 op, status, calls, fresh>>

Train(t) ==
  /\ pc[t] = "train"
  /\ inner' \in StepResults(inner)
  /\ overrun' = IF op[t] = "run" /\ cancel THEN overrun + 1 ELSE overrun
  /\ Goto(t, "publish")
  /\ UNCHANGED <<torn, lock, poisoned, snapshot, cancel, running, freed,
                 op, status, calls, fresh>>

\* A bug for the checks to find: a finalize is not published.
PruneUnpublished(t) ==
  /\ pc[t] = "prune"
  /\ inner' \in FinalizeResults(inner)
  /\ Goto(t, "unlock")
  /\ UNCHANGED <<torn, lock, poisoned, snapshot, cancel, running, freed,
                 op, status, calls, history>>

Prune(t) ==
  /\ pc[t] = "prune"
  /\ inner' \in FinalizeResults(inner)
  /\ Goto(t, "publish")
  /\ UNCHANGED <<torn, lock, poisoned, snapshot, cancel, running, freed,
                 op, status, calls, history>>

\* publish(): still under the mutex.
Publish(t) ==
  /\ pc[t] = "publish"
  /\ snapshot' = SnapshotOf(inner)
  /\ Goto(t, "unlock")
  /\ UNCHANGED <<inner, torn, lock, poisoned, cancel, running, freed,
                 op, status, calls, history>>

\* A bug for the checks to find: the callback runs inside the guard's scope.
UnlockAfterCallback(t) ==
  /\ pc[t] = "unlock"
  /\ lock' = IF op[t] = "run" THEN lock ELSE NoThread
  /\ \/ op[t] = "run" /\ Goto(t, "callback") /\ UNCHANGED <<op, status>>
     \/ /\ op[t] = "ending"
        /\ Goto(t, "clear")
        /\ status' = [status EXCEPT ![t] = "ok"]
        /\ UNCHANGED op
     \/ ~Running(t) /\ Returns(t, "ok")
  /\ UNCHANGED <<inner, torn, poisoned, snapshot, cancel, running, freed, calls, history>>

\* The guard goes out of scope; only then does a run call the host back.
Unlock(t) ==
  /\ pc[t] = "unlock"
  /\ lock' = NoThread
  /\ \/ op[t] = "run" /\ Goto(t, "callback") /\ UNCHANGED <<op, status>>
     \/ /\ op[t] = "ending"
        /\ Goto(t, "clear")
        /\ status' = [status EXCEPT ![t] = "ok"]
        /\ UNCHANGED op
     \/ ~Running(t) /\ Returns(t, "ok")
  /\ UNCHANGED <<inner, torn, poisoned, snapshot, cancel, running, freed, calls, history>>

(***************************************************************************)
(* A panic while the mutex is held: the guard poisons the mutex while it   *)
(* unwinds, a run's guard then clears `running', and the API reports       *)
(* MORPHIT_ERR_PANIC.                                                      *)
(***************************************************************************)
Panic(t) ==
  /\ CanPanic
  /\ pc[t] \in {"train", "prune"}
  /\ torn' = TRUE
  /\ poisoned' = TRUE
  /\ lock' = NoThread
  /\ \/ /\ Running(t)
        /\ status' = [status EXCEPT ![t] = "panic"]
        /\ Goto(t, "leave")
        /\ UNCHANGED op
     \/ ~Running(t) /\ Returns(t, "panic")
  /\ UNCHANGED <<inner, snapshot, cancel, running, freed, calls, history>>
-----------------------------------------------------------------------------
(***************************************************************************)
(* The progress callback (a NULL callback is one that returns 0 at once).  *)
(* It may ask for a cancel; the other calls it may make on its own session *)
(* are refused as BUSY, because `running' is set, and change nothing.      *)
(***************************************************************************)
CallbackCancels(t) ==
  /\ pc[t] = "callback"
  /\ RequestCancel
  /\ UNCHANGED <<inner, torn, lock, poisoned, snapshot, running, freed, control, fresh>>

\* A bug for the checks to find: the loop forgets to look at the flag.
CallbackReturnsToLock(t) ==
  /\ pc[t] = "callback"
  /\ \/ Goto(t, "lock") /\ UNCHANGED status
     \/ /\ status' = [status EXCEPT ![t] = "cancelled"]
        /\ Goto(t, "clear")
  /\ UNCHANGED <<shared, op, calls, history>>

CallbackReturns(t) ==
  /\ pc[t] = "callback"
  /\ \/ Goto(t, "check") /\ UNCHANGED status
     \/ /\ status' = [status EXCEPT ![t] = "cancelled"]
        /\ Goto(t, "clear")
  /\ UNCHANGED <<shared, op, calls, history>>

(***************************************************************************)
(* The end of a run: forget pending cancel requests, then (the guard is    *)
(* dropped last) give the session up.                                      *)
(***************************************************************************)
\* A bug for the checks to find: the guard is dropped before the cancel
\* requests are forgotten.
ClearCancelTooLate(t) ==
  /\ pc[t] = "clear"
  /\ running' = FALSE
  /\ Goto(t, "leave")
  /\ UNCHANGED <<inner, torn, lock, poisoned, snapshot, cancel, freed,
                 op, status, calls, history>>

ClearCancel(t) ==
  /\ pc[t] = "clear"
  /\ cancel' = FALSE
  /\ overrun' = 0
  /\ Goto(t, "leave")
  /\ UNCHANGED <<inner, torn, lock, poisoned, snapshot, running, freed,
                 op, status, calls, fresh>>

LeaveRun(t) ==
  /\ pc[t] = "leave"
  /\ running' = FALSE
  /\ Returns(t, status[t])
  /\ UNCHANGED <<inner, torn, lock, poisoned, snapshot, cancel, freed, calls, history>>
-----------------------------------------------------------------------------
HostCalls(t) ==
  \/ Cancel(t)
  \/ Run(t)
  \/ \E name \in {"step", "finalize"} : Mutate(t, name)
  \/ Free(t)

\* What a thread does once it is inside a call.
Continues(t) ==
  \/ CheckCancel(t)
  \/ LockForStep(t)
  \/ LockForFinalize(t)
  \/ Train(t)
  \/ Prune(t)
  \/ Publish(t)
  \/ Unlock(t)
  \/ CallbackReturns(t)
  \/ ClearCancel(t)
  \/ LeaveRun(t)
  \/ Release(t)

Next ==
  \E t \in Threads : HostCalls(t) \/ Continues(t) \/ Panic(t) \/ CallbackCancels(t)

Spec == Init /\ [][Next]_vars

(***************************************************************************)
(* A thread inside a call keeps running, gets the mutex when it stays      *)
(* free, and its callback returns.  Nothing obliges the host to make a     *)
(* call or the code to panic.                                              *)
(***************************************************************************)
FairSpec == Spec /\ \A t \in Threads : WF_vars(Continues(t))
-----------------------------------------------------------------------------
(***************************************************************************)
(* Properties.                                                             *)
(***************************************************************************)
Labels == {"idle", "check", "lock", "finalLock", "train", "prune", "publish",
           "unlock", "callback", "clear", "leave", "release"}

Snapshots == [state : States, iteration : Nat, count : Nat, passes : Nat, pruned : Nat]

\* Every variable has its type.
TypeOK ==
  /\ inner \in Sessions
  /\ lock \in Threads \cup {NoThread}
  /\ torn \in BOOLEAN /\ poisoned \in BOOLEAN /\ cancel \in BOOLEAN
  /\ running \in BOOLEAN /\ freed \in BOOLEAN /\ fresh \in BOOLEAN
  /\ snapshot \in Snapshots
  /\ pc \in [Threads -> Labels]
  /\ op \in [Threads -> {"none", "run", "ending", "step", "finalize", "free"}]
  /\ status \in [Threads -> {"none", "ok", "done", "busy", "cancelled", "errState", "panic"}]
  /\ calls \in [Threads -> 0..MaxCalls]
  /\ overrun \in Nat

Locked(t) == pc[t] \in {"train", "prune", "publish", "unlock"}

(***************************************************************************)
(* The mutex is held for one iteration or one finalize and never while a   *)
(* callback executes, so a callback that reads or locks its own session    *)
(* cannot deadlock; and while one executes `running' is set, so that every *)
(* conflicting call it makes is refused instead of entering the session.   *)
(***************************************************************************)
CallbackHoldsNoLock ==
  /\ \A t \in Threads : Locked(t) <=> lock = t
  /\ \A t \in Threads : pc[t] = "callback" => running /\ lock # t

(***************************************************************************)
(* At most one run is active, and `running' says so until its very last    *)
(* access to the handle.                                                   *)
(***************************************************************************)
OneRun ==
  /\ running <=> \E t \in Threads : Running(t)
  /\ \A t, u \in Threads : Running(t) /\ Running(u) => t = u

(***************************************************************************)
(* Whenever nobody is inside the mutex, readers see exactly the session    *)
(* as the last completed call left it, and a session left half updated by  *)
(* a panic is never reachable again.                                       *)
(***************************************************************************)
SnapshotIsCurrent ==
  /\ lock = NoThread /\ ~poisoned => snapshot = SnapshotOf(inner)
  /\ torn => poisoned /\ lock = NoThread

(***************************************************************************)
(* Once a panic poisoned the session, what readers see is frozen at the    *)
(* last published iteration.                                               *)
(***************************************************************************)
PoisonFreezesSnapshot == [][poisoned => snapshot' = snapshot]_vars

(***************************************************************************)
(* After a cancel request a run trains at most one more iteration: the one *)
(* it may already have started when the request arrived.                   *)
(***************************************************************************)
CancelStopsRun == overrun <= 1

(***************************************************************************)
(* A handle that is freed while a run is active is released only after the *)
(* run's last access to it.                                                *)
(***************************************************************************)
NoUseAfterRelease == freed => \A t \in Threads : pc[t] = "idle"

(***************************************************************************)
(* Every call returns: runs end, nobody waits for the mutex for ever.      *)
(***************************************************************************)
CallsReturn == \A t \in Threads : pc[t] # "idle" ~> pc[t] = "idle"

(***************************************************************************)
(* Readers watch a session make progress the way a session should, panics, *)
(* cancels and conflicting calls notwithstanding.                          *)
(***************************************************************************)
Observed == INSTANCE SessionProgress WITH view <- snapshot

ImplementsProgress == Observed!Spec

(***************************************************************************)
(* morphit_run: "Run all remaining iterations, then finalize": a run that  *)
(* found an unfinalized session and returns MORPHIT_OK has seen every      *)
(* iteration through, or convergence.                                      *)
(***************************************************************************)
RunOkRanEverything ==
  \A t \in Threads :
    (op[t] = "ending" /\ status[t] = "ok" /\ pc[t] \in {"clear", "leave"} /\ fresh) =>
      \/ inner.iteration = Iterations
      \/ inner.last # NoStep /\ inner.last.converged

(***************************************************************************)
(* "Cancels that arrived during this run are consumed by it": when a run   *)
(* ends, no cancel request is left for the next one.                       *)
(***************************************************************************)
RunConsumesCancels == [][running /\ ~running' => ~cancel']_vars
=============================================================================
