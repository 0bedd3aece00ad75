---------------------------- MODULE WasmSession ----------------------------
(***************************************************************************)
(* A session in a web page (crates/morphit-wasm/src/session.rs).  There is *)
(* one thread, but step and stepMany return promises: the session is taken *)
(* out of its object when a promise is first polled, which is later than   *)
(* the call, and put back when its last step is done.  On WebGPU a step    *)
(* gives the event loop its turn, and the page calls the object meanwhile. *)
(***************************************************************************)
EXTENDS Session

CONSTANT MaxPromises   \* bound: promises asked for

VARIABLES
  sess,    \* the session, wherever it is
  holder,  \* 0: in JsSession::inner; p: taken out by promise p
  snap,    \* JsSession::snap
  async,   \* Session::needs_async
  task,    \* the promises, in the order of the calls
  turn     \* the promise whose code runs now, 0: the page or nobody

wvars == <<sess, holder, snap, async, task, turn>>

Object == 0

\* Snapshot::of: what the page reads.
SnapshotOf(s) == ViewOf(s)

WInit ==
  /\ sess \in {NewSession(n) : n \in StartCounts}
  /\ holder = Object
  /\ snap = SnapshotOf(sess)
  /\ async \in BOOLEAN
  /\ task = << >>
  /\ turn = 0
-----------------------------------------------------------------------------
(* The page's calls. *)

(***************************************************************************)
(* run(max, budget): nothing happens before the promise is polled.         *)
(***************************************************************************)
AskSteps ==
  /\ turn = 0
  /\ Len(task) < MaxPromises
  /\ \E max \in {1, Iterations}, budget \in BOOLEAN :
       task' = Append(task, [phase |-> "queued", left |-> max, budget |-> budget, ran |-> FALSE])
  /\ UNCHANGED <<sess, holder, snap, async, turn>>

\* stepSync and finalize throw `busy' while a promise holds the session.
StepSync ==
  /\ turn = 0
  /\ holder = Object
  /\ ~async
  /\ ~IsDone(sess)
  /\ sess' \in StepResults(sess)
  /\ snap' = SnapshotOf(sess')
  /\ UNCHANGED <<holder, async, task, turn>>

\* A bug for the checks to find: the copy for the page is not refreshed.
FinalizeUnseen ==
  /\ turn = 0
  /\ holder = Object
  /\ sess' \in FinalizeResults(sess)
  /\ UNCHANGED <<holder, snap, async, task, turn>>
Finalize ==
  /\ turn = 0
  /\ holder = Object
  /\ sess' \in FinalizeResults(sess)
  /\ snap' = SnapshotOf(sess')
  /\ UNCHANGED <<holder, async, task, turn>>
-----------------------------------------------------------------------------
(* The promises' code. *)

\* Promises are first polled in the order they were asked for.
TakeSession(p) ==
  /\ turn = 0
  /\ task[p].phase = "queued"
  /\ \A q \in 1..p - 1 : task[q].phase # "queued"
  /\ \/ /\ holder # Object
        /\ task' = [task EXCEPT ![p].phase = "busy"]
        /\ UNCHANGED <<holder, turn>>
     \/ /\ holder = Object
        /\ task' = [task EXCEPT ![p].phase = "looping"]
        /\ holder' = p
        /\ turn' = p
  /\ UNCHANGED <<sess, snap, async>>

Stepped(p) ==
  /\ sess' \in StepResults(sess)
  /\ task' = [task EXCEPT ![p].phase = "looping", ![p].left = @ - 1, ![p].ran = TRUE]

(***************************************************************************)
(* One step_async.  Without WebGPU, or once WebGPU failed, it runs to its  *)
(* end; else it waits for the GPU while the page goes on.                  *)
(***************************************************************************)
StepAsync(p) ==
  /\ turn = p
  /\ task[p].left > 0
  /\ ~IsDone(sess)
  /\ \/ Stepped(p) /\ UNCHANGED turn
     \/ /\ async
        /\ task' = [task EXCEPT ![p].phase = "awaiting"]
        /\ turn' = 0
        /\ UNCHANGED sess
  /\ UNCHANGED <<holder, snap, async>>

Wake(p) ==
  /\ turn = 0
  /\ task[p].phase = "awaiting"
  /\ turn' = p
  /\ Stepped(p)
  /\ UNCHANGED <<holder, snap, async>>

(***************************************************************************)
(* The loop ends: max steps made, no iteration left, or, after a step, the *)
(* budget used up.  (A step never fails here: it is only taken while the   *)
(* session is running.)                                                    *)
(***************************************************************************)
EndsLoop(p) ==
  task[p].left = 0 \/ IsDone(sess) \/ (task[p].budget /\ task[p].ran)

\* A bug for the checks to find: a promise without a step is not resolved.
PutBackAfterStep(p) ==
  /\ turn = p
  /\ EndsLoop(p) /\ task[p].ran
  /\ snap' = SnapshotOf(sess)
  /\ holder' = Object
  /\ task' = [task EXCEPT ![p].phase = "resolved"]
  /\ turn' = 0
  /\ UNCHANGED <<sess, async>>
PutBack(p) ==
  /\ turn = p
  /\ EndsLoop(p)
  /\ snap' = SnapshotOf(sess)
  /\ holder' = Object
  /\ task' = [task EXCEPT ![p].phase = "resolved"]
  /\ turn' = 0
  /\ UNCHANGED <<sess, async>>

Runs(p) == TakeSession(p) \/ StepAsync(p) \/ Wake(p) \/ PutBack(p)

WNext ==
  \/ AskSteps \/ StepSync \/ Finalize
  \/ \E p \in DOMAIN task : Runs(p)

WSpec == WInit /\ [][WNext]_wvars

\* The event loop polls queued promises, and the GPU answers.
WFairness == \A p \in 1..MaxPromises : WF_wvars(p \in DOMAIN task /\ Runs(p))
-----------------------------------------------------------------------------
(* Properties. *)

(***************************************************************************)
(* The session is in its object or in exactly one unfinished promise, and  *)
(* whenever it is in its object the copy the page reads is up to date      *)
(* ("the sphere arrays and counters still read the last completed step").  *)
(***************************************************************************)
SessionComesBack ==
  /\ holder = Object => snap = ViewOf(sess)
  /\ \A p \in DOMAIN task : task[p].phase \in {"looping", "awaiting"} <=> holder = p
  /\ turn # 0 => turn = holder

\* Every promise settles.
PromisesSettle ==
  \A p \in 1..MaxPromises :
    p \in DOMAIN task ~> (p \in DOMAIN task /\ task[p].phase \in {"resolved", "busy"})
=============================================================================
