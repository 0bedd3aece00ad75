------------------------------- MODULE Studio -------------------------------
(***************************************************************************)
(* The studio's user interface (apps/morphit-studio/src/state.rs, ui.rs,   *)
(* lib.rs) beside the packing job it starts (StudioJob).  Every frame      *)
(* first polls the background work and then draws the panels, where the    *)
(* user may click; the job runs at its own pace in between.  A job that    *)
(* ended is replaced by the next one: nothing observes it any more.        *)
(*                                                                         *)
(* The mode and the selected row are set by clicks of their own at any     *)
(* time, and matter only to the click that uses them: they are chosen      *)
(* there.  Bounds: one click a frame, MaxJobs jobs, MaxDocs documents a  *)
(* mode, no resume once the version is past MaxVersion.                    *)
(***************************************************************************)
EXTENDS StudioJob, RobotTable

CONSTANTS
  ObjectKey,   \* the key of the object's result
  RobotKeys,   \* the keys of the robot's collision meshes, in order
  NoKey,       \* no row of the collision table is selected
  NotPolled,   \* the user interface has no snapshot of the job
  MaxJobs,     \* bound: jobs started
  MaxDocs,     \* bound: documents opened in one mode
  MaxVersion   \* bound: status changes after which the user no longer pauses

Modes    == {"object", "robot"}
LinkKeys == Range(RobotKeys)
Keys     == {ObjectKey} \cup LinkKeys

ASSUME StudioAssumption ==
  /\ RobotKeys \in Seq(LinkKeys) /\ IsInjective(RobotKeys) /\ RobotKeys # <<>>
  /\ ObjectKey \notin LinkKeys /\ NoKey \notin LinkKeys /\ NotPolled \notin Ended
  /\ {MaxJobs, MaxDocs, MaxVersion} \subseteq Nat

VARIABLES
  frame,       \* where in the frame the user interface is
  doc,         \* the document open in each mode (0 for none)
  packed,      \* the keys that have a result
  loading,     \* the mode of the document being loaded, or "no"
  packNext,    \* pack_after_load
  jobs,        \* jobs started so far
  jobDoc,      \* history: the document the current job packs
  jobVersion,  \* the version of the status polled last
  seen,        \* finished packs of the current job already picked up
  live,        \* the phase of the latest snapshot of the job
  picked,      \* history: the keys picked up from the current job
  told         \* history: the end of the current job was shown

docs    == <<doc, packed, loading, packNext>>
started == <<jobs, jobDoc>>
polling == <<jobVersion, seen, live, picked, told>>
vars    == <<jobVars, frame, docs, started, polling>>

Init ==
  /\ kind = "object" /\ items = <<>>
  /\ thread = [NewThread("object") EXCEPT !.pc = "none"]
  /\ status = NewStatus
  /\ version = 0 /\ behind = FALSE
  /\ cancel = FALSE /\ pause = FALSE /\ finishNow = FALSE
  /\ late = 0 /\ asked = FALSE
  /\ frame = "tasks"
  /\ doc = [m \in Modes |-> 0]
  /\ packed = {}
  /\ loading \in Modes \cup {"no"}
  /\ packNext \in BOOLEAN
  /\ jobs = 0 /\ jobDoc = 0
  /\ jobVersion = 0 /\ seen = 0 /\ live = NotPolled
  /\ picked = <<>> /\ told = FALSE
-----------------------------------------------------------------------------
JobRunning == jobs > 0 /\ IsRunning
Busy       == loading # "no" \/ JobRunning

(***************************************************************************)
(* start_pack: the object; or the selected collision mesh, or all that     *)
(* have no result yet.  Nothing happens when a parameter is invalid,       *)
(* without a document and without anything to pack; the snapshot is then   *)
(* the one `shown' before.  An object loses its result.  The version       *)
(* polled last is not reset.                                               *)
(***************************************************************************)
ToPack(m, chosen, have) ==
  IF m = "object" THEN <<ObjectKey>>
  ELSE IF chosen # NoKey THEN <<chosen>>
  ELSE Rows(RobotKeys, {i \in DOMAIN RobotKeys : RobotKeys[i] \notin have})

\* A bug for the checks to find: the count of picked-up packs is not reset.
StartPackKeepingSeen(m, opened, chosen, have, shown) ==
  \/ /\ packed' = have /\ live' = shown
     /\ UNCHANGED <<jobVars, started, seen, picked, told>>
  \/ LET todo == ToPack(m, chosen, have) IN
     /\ opened # 0 /\ todo # <<>> /\ jobs < MaxJobs
     /\ packed' = IF m = "object" THEN have \ {ObjectKey} ELSE have
     /\ Start(m, todo)
     /\ jobs' = jobs + 1 /\ jobDoc' = opened
     /\ UNCHANGED seen
     /\ live' = NotPolled /\ picked' = <<>> /\ told' = FALSE

StartPack(m, opened, chosen, have, shown) ==
  \/ /\ packed' = have /\ live' = shown
     /\ UNCHANGED <<jobVars, started, seen, picked, told>>
  \/ LET todo == ToPack(m, chosen, have) IN
     /\ opened # 0 /\ todo # <<>> /\ jobs < MaxJobs
     /\ packed' = IF m = "object" THEN have \ {ObjectKey} ELSE have
     /\ Start(m, todo)
     /\ jobs' = jobs + 1 /\ jobDoc' = opened
     /\ seen' = 0
     /\ live' = NotPolled /\ picked' = <<>> /\ told' = FALSE
-----------------------------------------------------------------------------
(***************************************************************************)
(* poll: pick up a document that has loaded (opened), and pack it at once  *)
(* when the command line asked for it.                                     *)
(***************************************************************************)
ResultsOf(m) == IF m = "object" THEN {ObjectKey} ELSE LinkKeys

PackIfAsked(m, opened, chosen, have) ==
  \/ packNext /\ StartPack(m, opened, chosen, have, NotPolled)
  \/ /\ ~packNext
     /\ packed' = have /\ live' = NotPolled
     /\ UNCHANGED <<jobVars, started, seen, picked, told>>

\* The loaded document replaces the one of its mode, without results and
\* with no row selected.
Opens(m) ==
  /\ doc[m] < MaxDocs
  /\ doc' = [doc EXCEPT ![m] = @ + 1]
  /\ PackIfAsked(m, doc[m] + 1, NoKey, packed \ ResultsOf(m))

\* An error, or a dialog that was dismissed: the mode and its document stay.
OpensNothing ==
  /\ UNCHANGED doc
  /\ \E m \in Modes, chosen \in LinkKeys \cup {NoKey} :
       PackIfAsked(m, doc[m], chosen, packed)

PickUpLoaded ==
  /\ frame \in {"tasks", "click"}
  /\ loading # "no"
  /\ Opens(loading) \/ OpensNothing
  /\ loading' = "no" /\ packNext' = FALSE
  /\ frame' = "version"
  /\ UNCHANGED jobVersion
-----------------------------------------------------------------------------
(***************************************************************************)
(* poll_job: look at the version, then copy the status, then pick up the   *)
(* packs that finished since.  (In a frame without a click or a document   *)
(* this is all that happens.)                                              *)
(***************************************************************************)
PollVersion ==
  /\ frame \in {"tasks", "version", "click"}
  /\ \/ /\ jobs > 0 /\ version # jobVersion
        /\ jobVersion' = version
        /\ frame' = "status"
     \/ /\ jobs = 0 \/ version = jobVersion
        /\ frame' = "click"
        /\ UNCHANGED jobVersion
  /\ UNCHANGED <<jobVars, docs, started, seen, live, picked, told>>

PollStatus ==
  /\ frame = "status"
  /\ LET news == SubSeq(status.finished, seen + 1, Len(status.finished)) IN
     /\ packed' = packed \cup Range(news)
     /\ picked' = picked \o news
  /\ seen' = Len(status.finished)
  /\ live' = status.phase
  /\ told' = (told \/ status.phase \in Ended)
  /\ frame' = "click"
  /\ UNCHANGED <<jobVars, doc, loading, packNext, started, jobVersion>>
-----------------------------------------------------------------------------
(***************************************************************************)
(* The panels: at most one click.                                          *)
(***************************************************************************)
Click == frame = "click" /\ frame' = "tasks"

\* A bug for the checks to find: a document may be opened beside a job.
OpenWhilePacking ==
  /\ Click
  /\ loading = "no"
  /\ loading' \in Modes
  /\ UNCHANGED <<jobVars, doc, packed, packNext, started, polling>>

\* Open, Examples, a URDF of the package, and files dropped on the window.
Open ==
  /\ Click
  /\ ~Busy
  /\ loading' \in Modes
  /\ UNCHANGED <<jobVars, doc, packed, packNext, started, polling>>

Pack ==
  /\ Click
  /\ ~JobRunning /\ loading = "no"
  /\ \E m \in Modes, chosen \in LinkKeys \cup {NoKey} :
       doc[m] # 0 /\ StartPack(m, doc[m], chosen, packed, live)
  /\ UNCHANGED <<doc, loading, packNext, jobVersion>>

Clear ==
  /\ Click
  /\ ~JobRunning
  /\ \E gone \in {ResultsOf(m) : m \in Modes} \cup {{k} : k \in LinkKeys} :
       packed' = packed \ gone
  /\ UNCHANGED <<jobVars, doc, loading, packNext, started, polling>>

\* Pause or Resume, Finish now, and Cancel (below) are there while a job runs.
Steer ==
  /\ Click
  /\ JobRunning
  /\ \/ (pause \/ version < MaxVersion) /\ TogglePause
     \/ RequestFinish
  /\ UNCHANGED <<docs, started, polling>>

Cancel ==
  /\ frame = "click" /\ frame' = "cancel"
  /\ JobRunning
  /\ RequestCancel
  /\ UNCHANGED <<docs, started, polling>>

Unpause ==
  /\ frame = "cancel" /\ frame' = "tasks"
  /\ ReleasePause
  /\ UNCHANGED <<docs, started, polling>>

JobWorks == jobs > 0 /\ Work /\ UNCHANGED <<frame, docs, started, polling>>

\* What the user interface does in every frame, whatever the user does.
Polls == PickUpLoaded \/ PollVersion \/ PollStatus \/ Unpause

Next == Polls \/ JobWorks \/ Open \/ Pack \/ Clear \/ Steer \/ Cancel

Spec == Init /\ [][Next]_vars

(***************************************************************************)
(* The job's thread and the frames go on; nothing obliges the user to      *)
(* click or a load to end.                                                 *)
(***************************************************************************)
FairSpec == Spec /\ WF_vars(JobWorks) /\ WF_vars(Polls)
-----------------------------------------------------------------------------
(***************************************************************************)
(* Properties.                                                             *)
(***************************************************************************)
Phases == {"preparing", "running", "paused"} \cup Ended

\* Every variable has its type.
TypeOK ==
  /\ kind \in Modes /\ items \in Seq(Keys)
  /\ thread.pc \in {"none", "begin", "next", "load", "prepare", "create", "created", "loop",
                    "idle", "cancelled?", "finish?", "finalize", "push", "end", "over"}
  /\ thread.at \in 0..Len(items) \cup {1} /\ thread.trained \in 0..Iterations
  /\ status \in [phase : Phases, finished : Seq(Keys)]
  /\ version \in Nat /\ behind \in BOOLEAN
  /\ {cancel, pause, finishNow, packNext, asked, told} \subseteq BOOLEAN
  /\ frame \in {"tasks", "version", "status", "click", "cancel"}
  /\ doc \in [Modes -> 0..MaxDocs] /\ loading \in Modes \cup {"no"}
  /\ packed \subseteq Keys
  /\ jobs \in 0..MaxJobs /\ jobVersion \in Nat /\ seen \in Nat
  /\ live \in Phases \cup {NotPolled} /\ picked \in Seq(Keys)

(***************************************************************************)
(* While a job runs nobody replaces the document it packs: `busy' keeps    *)
(* the user from opening one, a pending load keeps a job from starting.    *)
(***************************************************************************)
DocumentStaysUnderJob == JobRunning => jobDoc = doc[kind] /\ loading = "no"

(***************************************************************************)
(* The user interface picks up every finished pack once and in the order   *)
(* of the items, however polls and updates of the status interleave; a job *)
(* shown as done has had all its packs picked up.                          *)
(***************************************************************************)
PicksUpEachPackOnce ==
  /\ IsPrefix(status.finished, items) /\ IsPrefix(picked, status.finished)
  /\ status.phase = "done" => status.finished = items
  /\ live = "done" => picked = items

(***************************************************************************)
(* After a request to cancel or to pause, the job trains at most the one   *)
(* iteration it had already decided on.                                    *)
(***************************************************************************)
StopsPromptly == late <= 1

(***************************************************************************)
(* A cancelled job ends, also when it is paused, or paused again later.    *)
(***************************************************************************)
CancelEndsJob == (JobRunning /\ cancel) ~> ~JobRunning

(***************************************************************************)
(* "Stop iterating the current item and finalize it now": a request to     *)
(* finish the current item stands until the job turns to finalizing it.    *)
(***************************************************************************)
FinishIsKept == asked /\ thread.pc # "finalize" => finishNow

(***************************************************************************)
(* "The UI reads the latest JobStatus snapshot each frame": the end of a   *)
(* job is shown, unless the next job was started meanwhile.                *)
(***************************************************************************)
EndIsShown == (thread.pc = "over" /\ ~behind) ~> (told \/ thread.pc # "over")
=============================================================================
