----------------------------- MODULE StudioDesk -----------------------------
(***************************************************************************)
(* What the studio keeps on the desk around a packing job                  *)
(* (apps/morphit-studio/src/state.rs, ui.rs, io.rs, scene.rs, task.rs):    *)
(* the open documents and their results, the spherical URDF and the scores *)
(* derived from them, background tasks that load, prepare and analyze, and *)
(* the scene, which is rebuilt only when a dirty flag asks for it.         *)
(*                                                                         *)
(* `studio' is the resource all systems share; the code that changes it is *)
(* a function from studio to studio.  A task delivers to a slot whenever   *)
(* it likes, and every frame polls all slots, lets the user click, and     *)
(* draws.  The job is known here by what it delivers (StudioJob has its    *)
(* steps and Studio the races of its version); `news' stands for a version *)
(* that moved.  Parameters that only the optimizer sees, the status line,  *)
(* save dialogs and the camera are left out.                               *)
(*                                                                         *)
(* Bounds: MaxLoads loads, MaxPacks finished packs, a results version up   *)
(* to MaxVersion, one click a frame.                                       *)
(***************************************************************************)
EXTENDS RobotTable

CONSTANTS
  ObjectKey,   \* the sphere group of the object
  RobotKeys,   \* the sphere groups of a robot, in the order of its table
  NoKey,       \* no row of the table is selected
  None,        \* an option without value
  PrepOptions, \* the mesh preparations one may ask for
  MaxLoads, MaxPacks, MaxVersion

LinkKeys == Range(RobotKeys)
Keys     == {ObjectKey} \cup LinkKeys
Modes    == {"object", "robot"}

VARIABLES
  studio,   \* the Studio resource
  screen,   \* the entities of the scene
  frame,    \* "poll", "click" or "draw"
  loads,    \* documents asked for so far; a document is known by its number
  packs     \* packs finished so far; a pack is known by its number

vars == <<studio, screen, frame, loads, packs>>

KeysOf(mode) == IF mode = "object" THEN {ObjectKey} ELSE LinkKeys
Nothing      == [k \in Keys |-> 0]

Default ==
  [mode |-> "object", doc |-> [m \in Modes |-> 0], broken |-> {}, row |-> NoKey,
   results |-> Nothing, version |-> 1, assembled |-> None, quality |-> [m \in Modes |-> None],
   loading |-> None, packNext |-> FALSE, analysis |-> None,
   options |-> CHOOSE o \in PrepOptions : TRUE, showPrepared |-> FALSE,
   prepared |-> None, preparing |-> None, saving |-> None,
   job |-> None, seen |-> 0, live |-> None,
   sceneDirty |-> FALSE, spheresDirty |-> FALSE]

JobRunning(s) == s.job # None /\ s.job.running
Busy(s)       == s.loading # None \/ JobRunning(s)
Preparing(s)  == s.preparing # None \/ s.saving # None
HasDoc(s)     == s.doc[s.mode] # 0
Shown(s)      == [mode |-> s.mode, doc |-> s.doc[s.mode]]
Ready(task)   == task # None /\ task.ready
-----------------------------------------------------------------------------
(***************************************************************************)
(* Prepared meshes: those of the document on show, computed by a task when *)
(* they are shown and the options are not those of the ones at hand.       *)
(***************************************************************************)
\* A bug for the checks to find: the task of the last document goes on.
ClearPreparedButTask(s) == [s EXCEPT !.prepared = None]

ClearPrepared(s) == [s EXCEPT !.prepared = None, !.preparing = None]

TakePrepared(s) ==
  IF Ready(s.preparing)
  THEN [s EXCEPT !.prepared = [of |-> s.preparing.of, options |-> s.preparing.options],
                 !.preparing = None, !.sceneDirty = @ \/ s.showPrepared]
  ELSE s

Wanted(s, work) == work # None /\ work.options = s.options

PollPrepared(old) ==
  LET s == TakePrepared(old)
      t == IF /\ s.showPrepared /\ HasDoc(s)
              /\ ~Wanted(s, s.prepared) /\ ~Wanted(s, s.preparing)
           THEN [s EXCEPT !.preparing = [of |-> Shown(s), options |-> s.options, ready |-> FALSE]]
           ELSE s
  IN IF Ready(t.saving) THEN [t EXCEPT !.saving = None] ELSE t

\* The mesh drawn: `None' is the one that was loaded.
ShownMesh(s) == IF s.showPrepared THEN s.prepared ELSE None
-----------------------------------------------------------------------------
(***************************************************************************)
(* Documents.  A robot's table has a row per collision mesh; those of      *)
(* `broken' could not be loaded.  An error or a dismissed dialog still     *)
(* drops the prepared meshes and the snapshot of the job.                  *)
(***************************************************************************)
Opened(s, loaded) ==
  LET m == loaded.mode
      t == IF m = None THEN s
           ELSE [s EXCEPT !.mode = m, !.doc[m] = loaded.doc,
                          !.results = [k \in Keys |-> IF k \in KeysOf(m) THEN 0 ELSE @[k]],
                          !.quality[m] = None,
                          !.broken = IF m = "robot" THEN loaded.broken ELSE @,
                          !.row = IF m = "robot" THEN NoKey ELSE @,
                          !.assembled = IF m = "robot" THEN None ELSE @]
  IN [ClearPrepared(t) EXCEPT !.live = None, !.sceneDirty = TRUE]

SetMode(s, m) ==
  IF s.mode = m THEN s ELSE [ClearPrepared([s EXCEPT !.mode = m]) EXCEPT !.sceneDirty = TRUE]

(***************************************************************************)
(* start_pack: the object; the selected row; or the rows with a mesh and   *)
(* without a result.  Parameters may be invalid.                           *)
(***************************************************************************)
ToPack(s) ==
  IF s.mode = "object" THEN <<ObjectKey>>
  ELSE IF s.row # NoKey THEN <<s.row>>
  ELSE Rows(RobotKeys, {i \in DOMAIN RobotKeys :
               RobotKeys[i] \notin s.broken /\ s.results[RobotKeys[i]] = 0})

StartPack(s, valid) ==
  IF ~valid \/ ~HasDoc(s) \/ ToPack(s) = <<>> THEN s
  ELSE [s EXCEPT !.results[ObjectKey] = IF s.mode = "object" THEN 0 ELSE @,
                 !.quality[s.mode] = None,
                 !.assembled = IF s.mode = "robot" THEN None ELSE @,
                 !.job = [mode |-> s.mode, items |-> ToPack(s), finished |-> <<>>,
                          working |-> FALSE, running |-> TRUE, news |-> TRUE],
                 !.seen = 0, !.live = None]

\* A bug for the checks to find: the spherical URDF outlives its spheres.
ClearResultsButAssembled(s) ==
  LET gone == IF s.mode = "robot" /\ s.row # NoKey THEN {s.row} ELSE KeysOf(s.mode) IN
  [s EXCEPT !.results = [k \in Keys |-> IF k \in gone THEN 0 ELSE @[k]],
            !.quality[s.mode] = None,
            !.version = @ + 1, !.spheresDirty = TRUE]

ClearResults(s) ==
  LET gone == IF s.mode = "robot" /\ s.row # NoKey THEN {s.row} ELSE KeysOf(s.mode) IN
  [s EXCEPT !.results = [k \in Keys |-> IF k \in gone THEN 0 ELSE @[k]],
            !.quality[s.mode] = None,
            !.assembled = IF s.mode = "robot" THEN None ELSE @,
            !.version = @ + 1, !.spheresDirty = TRUE]

(***************************************************************************)
(* What is derived from results keeps them; `early' is a history of        *)
(* whether the job had then delivered more than was picked up.             *)
(***************************************************************************)
Restricted(s, m) == [k \in KeysOf(m) |-> s.results[k]]
Unseen(s)        == s.job # None /\ s.job.news

Assembled(s) ==
  [s EXCEPT !.assembled = [of |-> Restricted(s, "robot"), early |-> Unseen(s)]]

Scored(s) == {k \in KeysOf(s.mode) \ s.broken : s.results[k] # 0}

Analyzing(s) ==
  IF Scored(s) = {} THEN s
  ELSE [s EXCEPT !.analysis = [mode |-> s.mode, of |-> Restricted(s, s.mode),
                               early |-> Unseen(s), ready |-> FALSE]]
-----------------------------------------------------------------------------
(***************************************************************************)
(* poll: the slots in the order of the code.  Scores go to the document    *)
(* that is open when they arrive; `late' is a history of whether its       *)
(* results were others by then, or were being replaced.                    *)
(***************************************************************************)
PollLoading(s, valid) ==
  IF ~Ready(s.loading) THEN s
  ELSE LET t == [Opened(s, s.loading) EXCEPT !.loading = None, !.packNext = FALSE]
       IN IF s.packNext THEN StartPack(t, valid) ELSE t

PollQuality(s) ==
  IF ~Ready(s.analysis) THEN s
  ELSE LET a == s.analysis
           out == [of |-> a.of, early |-> a.early,
                   late |-> a.of # Restricted(s, a.mode) \/ JobRunning(s) \/ Unseen(s)]
       IN [s EXCEPT !.analysis = None, !.quality[a.mode] = out]

PollJob(s) ==
  IF ~Unseen(s) THEN s
  ELSE LET new == SubSeq(s.job.finished, s.seen + 1, Len(s.job.finished))
           of(k) == {i \in DOMAIN new : new[i].key = k}
       IN [s EXCEPT !.results = [k \in Keys |-> IF of(k) = {} THEN @[k]
                                                ELSE new[CHOOSE i \in of(k) : TRUE].pack],
                    !.version = @ + Len(new), !.seen = Len(s.job.finished),
                    !.live = [item |-> Len(s.job.finished) + 1, working |-> s.job.working],
                    !.spheresDirty = TRUE, !.job.news = FALSE]

Poll ==
  /\ frame = "poll"
  /\ \E valid \in BOOLEAN :
       studio' = PollJob(PollQuality(PollLoading(PollPrepared(studio), valid)))
  /\ frame' = "click"
  /\ UNCHANGED <<screen, loads, packs>>
-----------------------------------------------------------------------------
(***************************************************************************)
(* The panels: one click, or none (Draw).                                  *)
(***************************************************************************)
Click(new) ==
  /\ frame = "click" /\ frame' = "draw"
  /\ studio' = new
  /\ UNCHANGED <<screen, packs>>

PickMode == \E m \in Modes : m # studio.mode /\ Click(SetMode(studio, m)) /\ UNCHANGED loads

\* Open, Examples, another URDF of the package, a file dropped on the window.
Open ==
  /\ ~Busy(studio) /\ loads < MaxLoads
  /\ Click([studio EXCEPT !.loading = [ready |-> FALSE]])
  /\ loads' = loads + 1

SetOptions ==
  /\ ~JobRunning(studio)
  /\ \E o \in PrepOptions \ {studio.options} : Click([studio EXCEPT !.options = o])
  /\ UNCHANGED loads

ShowPrepared ==
  /\ Click([studio EXCEPT !.showPrepared = ~@, !.sceneDirty = TRUE])
  /\ UNCHANGED loads

SelectRow ==
  /\ studio.mode = "robot" /\ HasDoc(studio)
  /\ \E k \in LinkKeys \cup {NoKey} : k # studio.row /\ Click([studio EXCEPT !.row = k])
  /\ UNCHANGED loads

Pack ==
  /\ ~Busy(studio) /\ HasDoc(studio)
  /\ Click(StartPack(studio, TRUE))
  /\ UNCHANGED loads

Clear ==
  /\ ~JobRunning(studio) /\ HasDoc(studio) /\ studio.version < MaxVersion
  /\ Click(ClearResults(studio))
  /\ UNCHANGED loads

Packed(s) == \E k \in KeysOf(s.mode) : s.results[k] # 0

Assemble ==
  /\ studio.mode = "robot" /\ Packed(studio) /\ ~JobRunning(studio)
  /\ \/ Click(Assembled(studio))
     \/ Click(studio)                   \* the URDF cannot be rewritten
  /\ UNCHANGED loads

Analyze ==
  /\ Packed(studio) /\ ~JobRunning(studio) /\ studio.analysis = None
  /\ Click(Analyzing(studio))
  /\ UNCHANGED loads

SavePrepared ==
  /\ HasDoc(studio) /\ ~Preparing(studio)
  /\ studio.mode = "object" \/ studio.row \in LinkKeys \ studio.broken
  /\ Click([studio EXCEPT !.saving = [ready |-> FALSE]])
  /\ UNCHANGED loads
-----------------------------------------------------------------------------
(***************************************************************************)
(* Tasks deliver, at any time.                                             *)
(***************************************************************************)
LoadEnds ==
  /\ studio.loading # None /\ ~studio.loading.ready
  /\ \E m \in Modes \cup {None}, broken \in {{}} \cup {{k} : k \in LinkKeys} :
       /\ m # "robot" => broken = {}
       /\ studio' = [studio EXCEPT !.loading =
                       [mode |-> m, doc |-> loads, broken |-> broken, ready |-> TRUE]]
  /\ UNCHANGED <<screen, frame, loads, packs>>

TaskEnds(task) ==
  /\ studio[task] # None /\ ~studio[task].ready
  /\ studio' = [studio EXCEPT ![task].ready = TRUE]
  /\ UNCHANGED <<screen, frame, loads, packs>>

\* The job's status: it iterates, finishes an item, or ends.
JobDelivers ==
  /\ JobRunning(studio)
  /\ LET job  == studio.job
         next == Len(job.finished) + 1
         Becomes(j) == studio' = [studio EXCEPT !.job = [j EXCEPT !.news = TRUE]]
     IN \/ /\ next <= Len(job.items) /\ ~job.working
           /\ Becomes([job EXCEPT !.working = TRUE]) /\ UNCHANGED packs
        \/ /\ next <= Len(job.items) /\ job.working /\ packs < MaxPacks
           /\ packs' = packs + 1
           /\ Becomes([job EXCEPT !.working = FALSE,
                         !.finished = Append(@, [key |-> job.items[next], pack |-> packs'])])
        \/ Becomes([job EXCEPT !.running = FALSE]) /\ UNCHANGED packs
  /\ UNCHANGED <<screen, frame, loads>>
-----------------------------------------------------------------------------
(***************************************************************************)
(* The scene.  rebuild draws the meshes of the document and a group of     *)
(* spheres per mesh; update_spheres fills the groups whose source has      *)
(* another signature than what they show.  A live job's signature moves    *)
(* with every poll, here it is -1; a new group shows nothing yet (-2).     *)
(***************************************************************************)
Empty == [shown |-> Shown(Default), mesh |-> None, groups |-> <<>>]

Groups(s) ==
  IF ~HasDoc(s) THEN {} ELSE IF s.mode = "object" THEN {ObjectKey} ELSE LinkKeys \ s.broken

Rebuilt(s) ==
  [shown |-> Shown(s), mesh |-> ShownMesh(s),
   groups |-> [k \in Groups(s) |-> [signature |-> -2, spheres |-> 0]]]

IsLive(s, k) ==
  /\ s.live # None /\ JobRunning(s) /\ s.job.mode = s.mode
  /\ s.live.working /\ s.live.item \in DOMAIN s.job.items /\ s.job.items[s.live.item] = k

SpheresFor(s, k) ==
  IF IsLive(s, k) THEN [signature |-> -1, spheres |-> -1]
  ELSE [signature |-> IF s.results[k] = 0 THEN 0 ELSE s.version, spheres |-> s.results[k]]

UpdatedGroup(s, k, group) ==
  IF SpheresFor(s, k).signature = group.signature THEN group ELSE SpheresFor(s, k)

Draw ==
  /\ frame \in {"click", "draw"}
  /\ LET s     == studio
         scene == IF s.sceneDirty THEN Rebuilt(s) ELSE screen
     IN screen' = IF s.sceneDirty \/ s.spheresDirty
                  THEN [scene EXCEPT !.groups =
                          [k \in DOMAIN @ |-> UpdatedGroup(s, k, @[k])]]
                  ELSE scene
  /\ studio' = [studio EXCEPT !.sceneDirty = FALSE, !.spheresDirty = FALSE]
  /\ frame' = "poll"
  /\ UNCHANGED <<loads, packs>>
-----------------------------------------------------------------------------
\* startup_options: an example or a file may be loading, perhaps to be packed.
Init ==
  /\ \E example \in Modes \cup {None}, packNext \in BOOLEAN :
       LET s == IF example = "robot" THEN SetMode(Default, "robot") ELSE Default IN
       /\ studio = [s EXCEPT !.packNext = packNext,
                             !.loading = IF example = None THEN None ELSE [ready |-> FALSE]]
       /\ loads = IF example = None THEN 0 ELSE 1
  /\ screen = Empty
  /\ frame = "poll"
  /\ packs = 0

\* What changes what is looked at, and what changes what has been packed.
LookClicks == PickMode \/ Open \/ SelectRow \/ SetOptions \/ ShowPrepared \/ SavePrepared
WorkClicks == Open \/ SelectRow \/ Pack \/ Clear \/ Assemble \/ Analyze

Frames == Poll \/ Draw
Tasks  == LoadEnds \/ JobDelivers \/ \E task \in {"preparing", "saving", "analysis"} : TaskEnds(task)

Next == Frames \/ LookClicks \/ WorkClicks \/ Tasks
-----------------------------------------------------------------------------
(***************************************************************************)
(* Properties.                                                             *)
(***************************************************************************)

(***************************************************************************)
(* Unless a dirty flag promises a redraw, the scene shows the document of  *)
(* the current mode: its own meshes, or its own prepared ones once they    *)
(* are shown and ready.  And once a job is over and polled, every group    *)
(* shows the spheres of its result: the flags, the tasks that arrive after *)
(* their document and the signatures of the groups fit together.           *)
(***************************************************************************)
ScreenIsCurrent ==
  /\ ~studio.sceneDirty =>
       /\ screen.shown = Shown(studio)
       /\ screen.mesh # None => studio.showPrepared /\ screen.mesh.of = Shown(studio)
       /\ studio.showPrepared => screen.mesh = studio.prepared
  /\ ~(studio.sceneDirty \/ studio.spheresDirty \/ JobRunning(studio) \/ Unseen(studio)) =>
       \A k \in DOMAIN screen.groups : screen.groups[k].spheres = studio.results[k]

(***************************************************************************)
(* The spherical URDF on offer holds the results shown, and scores are of  *)
(* the results shown: whatever changes results drops both.  Not covered,   *)
(* as the code does not prevent it: what was asked for when a job had      *)
(* ended but its last packs were not picked up, and scores that arrive     *)
(* after Clear, Pack or another document replaced what they scored.        *)
(***************************************************************************)
OffersAreCurrent ==
  /\ LET a == studio.assembled IN a # None /\ ~a.early => a.of = Restricted(studio, "robot")
  /\ \A m \in Modes :
       LET q == studio.quality[m] IN
       q # None /\ ~q.early /\ ~q.late => q.of = Restricted(studio, m)
=============================================================================
