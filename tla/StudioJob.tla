----------------------------- MODULE StudioJob -----------------------------
(***************************************************************************)
(* A packing job of the studio (apps/morphit-studio/src/job.rs): it packs  *)
(* one object mesh, or the items of a robot one after another, on a thread *)
(* of its own.  The user interface reads `status' when `version' moved,    *)
(* and steers the job with three flags.                                    *)
(*                                                                         *)
(* JobShared::update changes the status under its mutex and bumps the      *)
(* version afterwards: two steps, `behind' is TRUE between them.           *)
(* Everything the job does with a session between two looks at the shared  *)
(* state is one step.  Of the status, the phase and the finished packs are *)
(* kept; what is only drawn (spheres, losses, progress) is left out.       *)
(***************************************************************************)
EXTENDS Integers, Sequences

CONSTANTS
  Iterations,   \* training.iterations of every item
  CanConverge,  \* whether a session may stop before its last iteration
  CanFail       \* whether loading a mesh or creating a session may fail

ASSUME JobAssumption ==
  /\ Iterations \in Nat
  /\ {CanConverge, CanFail} \subseteq BOOLEAN

VARIABLES
  kind,       \* "object" or "robot"
  items,      \* the keys of the items to pack
  thread,     \* the job's thread: where it is, its item and its session
  status,     \* the status the user interface copies
  version,    \* bumped after every change of the status
  behind,     \* the status changed, the version did not yet
  cancel,     \* steering flags: stop the job,
  pause,      \*   hold it,
  finishNow,  \*   finalize the current item
  late,       \* history: iterations trained while a cancel or pause stood
  asked       \* history: the user asked to finish the current item

spec    == <<kind, items>>
steer   == <<cancel, pause, finishNow>>
past    == <<late, asked>>
jobVars == <<spec, thread, status, version, behind, steer, past>>

(***************************************************************************)
(* JobShared::default and the thread that `start' spawns.  An object job   *)
(* has one item, a robot job takes its first one from the loop over items. *)
(***************************************************************************)
NewStatus == [phase |-> "preparing", finished |-> <<>>]

NewThread(k) ==
  [pc |-> "begin", at |-> IF k = "object" THEN 1 ELSE 0,
   trained |-> 0, done |-> FALSE, failed |-> FALSE]

Start(k, keys) ==
  /\ kind' = k
  /\ items' = keys
  /\ thread' = NewThread(k)
  /\ status' = NewStatus
  /\ version' = 0
  /\ behind' = FALSE
  /\ cancel' = FALSE /\ pause' = FALSE /\ finishNow' = FALSE
  /\ late' = 0 /\ asked' = FALSE

Ended     == {"done", "cancelled", "failed"}
IsRunning == status.phase \notin Ended
-----------------------------------------------------------------------------
At(label)   == thread.pc = label /\ ~behind
Goto(label) == thread' = [thread EXCEPT !.pc = label]
Update(st)  == status' = st /\ behind' = TRUE /\ UNCHANGED version

\* An update that changes nothing the model keeps: only its version counts.
Touch == version' = version + 1 /\ UNCHANGED <<status, behind>>

Quiet == UNCHANGED <<status, version, behind>>

\* The session of an item is gone.
DropSession(label) ==
  thread' = [thread EXCEPT !.pc = label, !.trained = 0, !.done = FALSE]

Bump ==
  /\ behind
  /\ behind' = FALSE
  /\ version' = version + 1
  /\ UNCHANGED <<spec, thread, status, steer, past>>

Fail ==
  /\ CanFail
  /\ thread' = [thread EXCEPT !.pc = "end", !.failed = TRUE]
  /\ Quiet

\* run: announce the number of items.
Begin ==
  /\ At("begin")
  /\ Touch
  /\ Goto(IF kind = "robot" THEN "next" ELSE "prepare")
  /\ UNCHANGED <<spec, steer, past>>

(***************************************************************************)
(* The loop over a robot's items: stop when cancelled, else announce the   *)
(* next item and load its mesh.                                            *)
(***************************************************************************)
\* A bug for the checks to find: one item too many.
NextItemPastLast ==
  /\ At("next")
  /\ \/ /\ cancel \/ thread.at > Len(items)
        /\ Goto("end")
        /\ Quiet /\ UNCHANGED asked
     \/ /\ ~cancel /\ thread.at <= Len(items)
        /\ thread' = [thread EXCEPT !.pc = "load", !.at = @ + 1]
        /\ Update([status EXCEPT !.phase = "preparing"])
        /\ asked' = FALSE
  /\ UNCHANGED <<spec, steer, late>>

NextItem ==
  /\ At("next")
  /\ \/ /\ cancel \/ thread.at = Len(items)
        /\ Goto("end")
        /\ Quiet /\ UNCHANGED asked
     \/ /\ ~cancel /\ thread.at < Len(items)
        /\ thread' = [thread EXCEPT !.pc = "load", !.at = @ + 1]
        /\ Update([status EXCEPT !.phase = "preparing"])
        /\ asked' = FALSE
  /\ UNCHANGED <<spec, steer, late>>

LoadMesh ==
  /\ At("load")
  /\ Fail \/ (Goto("prepare") /\ Quiet)
  /\ UNCHANGED <<spec, steer, past>>

Prepare ==
  /\ At("prepare")
  /\ Touch
  /\ Goto("create")
  /\ UNCHANGED <<spec, steer, past>>

\* Session::new, then the status of the new session.
Create ==
  /\ At("create")
  /\ \/ Fail
     \/ /\ thread' = [thread EXCEPT !.pc = "created", !.done = Iterations = 0]
        /\ Update([status EXCEPT !.phase = "running"])
  /\ UNCHANGED <<spec, steer, past>>

\* Requests to finish that were made before this point are dropped.
ForgetFinish ==
  /\ At("created")
  /\ finishNow' = FALSE
  /\ Goto("loop")
  /\ Quiet /\ UNCHANGED <<spec, cancel, pause, past>>
-----------------------------------------------------------------------------
(***************************************************************************)
(* The training loop of pack_one.                                          *)
(***************************************************************************)
\* A bug for the checks to find: a pause is noticed only before an item.
LoopIgnoringPause ==
  /\ At("loop")
  /\ \/ thread.done /\ Goto("finalize") /\ Quiet
     \/ /\ ~thread.done /\ pause /\ thread.trained = 0
        /\ Update([status EXCEPT !.phase = "paused"])
        /\ Goto("idle")
     \/ ~thread.done /\ (~pause \/ thread.trained > 0) /\ Goto("cancelled?") /\ Quiet
  /\ UNCHANGED <<spec, steer, past>>

Loop ==
  /\ At("loop")
  /\ \/ thread.done /\ Goto("finalize") /\ Quiet
     \/ /\ ~thread.done /\ pause
        /\ Update([status EXCEPT !.phase = "paused"])
        /\ Goto("idle")
     \/ ~thread.done /\ ~pause /\ Goto("cancelled?") /\ Quiet
  /\ UNCHANGED <<spec, steer, past>>

\* A bug for the checks to find: a paused job does not look at `cancel'.
ResumeOnlyUnpaused ==
  /\ At("idle")
  /\ ~pause
  /\ Update([status EXCEPT !.phase = "running"])
  /\ Goto("cancelled?")
  /\ UNCHANGED <<spec, steer, past>>

\* The idle loop of a paused job ends.
Resume ==
  /\ At("idle")
  /\ ~pause \/ cancel
  /\ Update([status EXCEPT !.phase = "running"])
  /\ Goto("cancelled?")
  /\ UNCHANGED <<spec, steer, past>>

\* pack_one returns None: the object is over, a robot looks at its next item.
CheckCancel ==
  /\ At("cancelled?")
  /\ \/ cancel /\ DropSession(IF kind = "robot" THEN "next" ELSE "end")
     \/ ~cancel /\ Goto("finish?")
  /\ Quiet /\ UNCHANGED <<spec, steer, past>>

\* The user asked to finish this item.
FinishNow ==
  /\ At("finish?")
  /\ finishNow
  /\ finishNow' = FALSE
  /\ Goto("finalize")
  /\ Quiet /\ UNCHANGED <<spec, cancel, pause, past>>

\* One iteration, which may be the last or converge.
Train ==
  /\ At("finish?")
  /\ ~finishNow
  /\ \E done \in {thread.trained + 1 = Iterations} \cup (IF CanConverge THEN {TRUE} ELSE {}) :
       thread' = [thread EXCEPT !.pc = "loop", !.trained = @ + 1, !.done = done]
  /\ Touch
  /\ late' = IF cancel \/ pause THEN late + 1 ELSE 0
  /\ UNCHANGED <<spec, steer, asked>>

Finalize ==
  /\ At("finalize")
  /\ Touch
  /\ DropSession("push")
  /\ asked' = FALSE
  /\ UNCHANGED <<spec, steer, late>>

\* The finished pack of the item joins the status.
Push ==
  /\ At("push")
  /\ Update([status EXCEPT !.finished = Append(@, items[thread.at])])
  /\ Goto(IF kind = "robot" THEN "next" ELSE "end")
  /\ UNCHANGED <<spec, steer, past>>

\* The outcome.
End ==
  /\ At("end")
  /\ Update([status EXCEPT !.phase = IF thread.failed THEN "failed"
                                     ELSE IF cancel THEN "cancelled" ELSE "done"])
  /\ Goto("over")
  /\ UNCHANGED <<spec, steer, past>>

Work ==
  \/ Bump \/ Begin \/ NextItem \/ LoadMesh \/ Prepare \/ Create \/ ForgetFinish
  \/ Loop \/ Resume \/ CheckCancel \/ FinishNow \/ Train \/ Finalize \/ Push \/ End
-----------------------------------------------------------------------------
(***************************************************************************)
(* The steering actions of the user interface.                             *)
(***************************************************************************)
TogglePause ==
  /\ pause' = ~pause
  /\ late' = IF cancel THEN late ELSE 0
  /\ UNCHANGED <<spec, thread, status, version, behind, cancel, finishNow, asked>>

\* Two stores, in this order: the job may run in between.
RequestCancel ==
  /\ cancel' = TRUE
  /\ late' = IF cancel \/ pause THEN late ELSE 0
  /\ UNCHANGED <<spec, thread, status, version, behind, pause, finishNow, asked>>

ReleasePause ==
  /\ pause' = FALSE
  /\ UNCHANGED <<spec, thread, status, version, behind, cancel, finishNow, past>>

RequestFinish ==
  /\ finishNow' = TRUE
  /\ asked' = TRUE
  /\ UNCHANGED <<spec, thread, status, version, behind, cancel, pause, late>>
=============================================================================
