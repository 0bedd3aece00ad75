---------------------------- MODULE StudioProofs ----------------------------
(***************************************************************************)
(* What the studio promises, for every robot and every number of jobs,     *)
(* documents, loads and packs.  Of a job beside the frames (Spec): the     *)
(* document under it stays, it stops promptly, and its packs are picked up *)
(* once; from StudioInv, in layers: JobInv (the place of the thread),      *)
(* PollInv (what is picked up), DocInv and LateInv.  Of the desk around    *)
(* jobs (StudioSpec): the screen and what is offered are current; from     *)
(* DeskInv, which every function of the code on the studio's state keeps   *)
(* (Fits), also between two functions of one poll.                         *)
(***************************************************************************)
EXTENDS MCStudioDesk, FiniteSetTheorems, SequenceTheorems, WellFoundedInduction, TLAPS

\* Where the thread works on the item numbered thread.at.
Working ==
  {"load", "prepare", "create", "created", "loop", "idle", "cancelled?", "finish?", "finalize", "push"}

Elements == {items[i] : i \in 1..Len(items)}

\* The job's variables have their types.
JobShape ==
  /\ kind \in Modes
  /\ items \in Seq(Elements)
  /\ DOMAIN thread = {"pc", "at", "trained", "done", "failed"} /\ thread.at \in Nat
  /\ DOMAIN status = {"phase", "finished"} /\ status.finished \in Seq(Elements)

(***************************************************************************)
(* What the place of the thread says of the packs that are finished: they  *)
(* are the items before the one at work, all items at the end, and fewer   *)
(* only when the job was cancelled or failed.                              *)
(***************************************************************************)
Place ==
  LET n == Len(status.finished) IN
  /\ \A i \in 1..n : status.finished[i] = items[i]
  /\ n <= Len(items)
  /\ thread.pc # "none" /\ kind = "object" => Len(items) = 1
  /\ thread.pc \in {"none", "begin"} => n = 0 /\ thread.at = IF kind = "object" THEN 1 ELSE 0
  /\ thread.pc = "next" => /\ kind = "robot" /\ thread.at <= Len(items)
                           /\ n = thread.at \/ (cancel /\ n <= thread.at)
  /\ thread.pc \in Working => thread.at <= Len(items) /\ n = thread.at - 1
  /\ thread.pc = "end" => thread.failed \/ cancel \/ n = Len(items)
  /\ status.phase = "done" => n = Len(items)
  /\ status.phase \in Ended => thread.pc = "over"

JobInv == JobShape /\ Place

LEMMA StartMakesJob ==
  ASSUME NEW m \in Modes, NEW S, NEW todo \in Seq(S), m = "object" => Len(todo) = 1, Start(m, todo)
  PROVE  JobInv'
<1>1. todo \in Seq({todo[i] : i \in 1..Len(todo)})
  OBVIOUS
<1>2. JobShape'
  BY <1>1 DEF Start, JobShape, Elements, NewThread, NewStatus
<1>3. Place'
  BY DEF Start, Place, NewThread, NewStatus, Working, Ended
<1> QED
  BY <1>2, <1>3 DEF JobInv

\* The thread moves, and what is finished stays.
LEMMA MoveKeeps ==
  ASSUME JobInv, UNCHANGED spec, status'.finished = status.finished, status'.phase \notin Ended,
         DOMAIN thread' = DOMAIN thread, DOMAIN status' = DOMAIN status, thread'.at \in Nat,
         thread'.pc # "none", thread.pc # "none", thread'.pc \notin {"none", "begin"},
         LET n == Len(status.finished) IN
           /\ thread'.pc = "next" => /\ kind = "robot" /\ thread'.at <= Len(items)
                                     /\ n = thread'.at \/ (cancel' /\ n <= thread'.at)
           /\ thread'.pc \in Working => thread'.at <= Len(items) /\ n = thread'.at - 1
           /\ thread'.pc = "end" => thread'.failed \/ cancel' \/ n = Len(items)
  PROVE  JobInv'
<1>1. JobShape'
  BY DEF JobInv, JobShape, Elements, spec
<1>2. Place'
  BY DEF JobInv, Place, spec, Ended
<1> QED
  BY <1>1, <1>2 DEF JobInv

LEMMA WorkKeepsJob ==
  ASSUME JobInv, Work
  PROVE  JobInv' /\ UNCHANGED spec
<1> USE DEF At, Goto, Update, Touch, Quiet, steer
<1>1. UNCHANGED spec /\ cancel' = cancel
  BY DEF Work, Bump, Begin, NextItem, LoadMesh, Prepare, Create, ForgetFinish, Loop, Resume, CheckCancel,
         FinishNow, Train, Finalize, Push, End, Fail, DropSession
<1>2. CASE Bump
  BY <1>1, <1>2, SMTT(30) DEF Bump, JobInv, JobShape, Place, Elements, spec
<1>3. CASE End
  <2>1. JobShape'
    BY <1>1, <1>3 DEF End, JobInv, JobShape, Elements, spec
  <2>2. Place'
    BY <1>1, <1>3 DEF End, JobInv, JobShape, Place, spec, Working, Ended
  <2> QED
    BY <1>1, <2>1, <2>2 DEF JobInv
<1>4. CASE Push
  <2>1. /\ thread.at \in 1..Len(items) /\ Len(items) \in Nat
        /\ Len(status.finished) = thread.at - 1 /\ status.finished \in Seq(Elements)
        /\ items[thread.at] \in Elements
    BY <1>4, SMTT(30) DEF Push, JobInv, JobShape, Place, Working, Elements
  <2>2. /\ status'.finished = Append(status.finished, items[thread.at])
        /\ status'.phase = status.phase /\ DOMAIN status' = DOMAIN status
        /\ thread'.at = thread.at /\ DOMAIN thread' = DOMAIN thread
        /\ thread'.pc = IF kind = "robot" THEN "next" ELSE "end"
    BY <1>4 DEF Push, JobInv, JobShape
  <2>3. /\ status'.finished \in Seq(Elements) /\ Len(status'.finished) = thread.at
        /\ \A i \in 1..thread.at : status'.finished[i] = items[i]
    BY <2>1, <2>2 DEF JobInv, Place
  <2>4. JobShape'
    BY <1>1, <2>2, <2>3 DEF JobInv, JobShape, Elements, spec
  <2>5. Place'
    BY <1>1, <1>4, <2>1, <2>2, <2>3 DEF Push, JobInv, JobShape, Place, spec, Working, Ended, Modes
  <2> QED
    BY <1>1, <2>4, <2>5 DEF JobInv
<1> QED
  <2> SUFFICES ASSUME ~Bump, ~Push, ~End
               PROVE  JobInv'
    BY <1>1, <1>2, <1>3, <1>4
  <2> USE <1>1 DEF JobInv, JobShape, Place, Working, Ended, Modes
  <2>1. CASE Begin
    BY <2>1, MoveKeeps DEF Begin
  <2>2. CASE NextItem
    <3>1. CASE cancel \/ thread.at = Len(items)
      <4>1. thread' = [thread EXCEPT !.pc = "end"] /\ status' = status
        BY <2>2, <3>1 DEF NextItem
      <4> QED
        BY <2>2, <3>1, <4>1, MoveKeeps DEF NextItem
    <3>2. CASE ~cancel /\ thread.at # Len(items)
      <4>1. /\ thread' = [thread EXCEPT !.pc = "load", !.at = @ + 1]
            /\ status' = [status EXCEPT !.phase = "preparing"]
        BY <2>2, <3>2 DEF NextItem
      <4> QED
        BY <2>2, <3>2, <4>1, MoveKeeps DEF NextItem
    <3> QED
      BY <3>1, <3>2
  <2>3. CASE LoadMesh
    BY <2>3, MoveKeeps DEF LoadMesh, Fail
  <2>4. CASE Prepare
    BY <2>4, MoveKeeps DEF Prepare
  <2>5. CASE Create
    BY <2>5, MoveKeeps DEF Create, Fail
  <2>6. CASE ForgetFinish
    BY <2>6, MoveKeeps DEF ForgetFinish
  <2>7. CASE Loop
    BY <2>7, MoveKeeps DEF Loop
  <2>8. CASE Resume
    BY <2>8, MoveKeeps DEF Resume
  <2>9. CASE CheckCancel
    <3>1. CASE cancel /\ kind = "robot"
      <4>1. thread' = [thread EXCEPT !.pc = "next", !.trained = 0, !.done = FALSE]
        BY <2>9, <3>1 DEF CheckCancel, DropSession
      <4> QED
        BY <2>9, <3>1, <4>1, MoveKeeps DEF CheckCancel
    <3>2. CASE cancel /\ kind # "robot"
      <4>1. thread' = [thread EXCEPT !.pc = "end", !.trained = 0, !.done = FALSE]
        BY <2>9, <3>2 DEF CheckCancel, DropSession
      <4> QED
        BY <2>9, <3>2, <4>1, MoveKeeps DEF CheckCancel
    <3>3. CASE ~cancel
      BY <2>9, <3>3, MoveKeeps DEF CheckCancel
    <3> QED
      BY <3>1, <3>2, <3>3
  <2>10. CASE FinishNow
    BY <2>10, MoveKeeps DEF FinishNow
  <2>11. CASE Train
    BY <2>11, MoveKeeps DEF Train
  <2>12. CASE Finalize
    BY <2>12, MoveKeeps DEF Finalize, DropSession
  <2> QED
    BY <2>1, <2>2, <2>3, <2>4, <2>5, <2>6, <2>7, <2>8, <2>9, <2>10, <2>11, <2>12 DEF Work
-----------------------------------------------------------------------------
\* What is picked up is the beginning of what is finished.
PollInv ==
  /\ seen \in Nat /\ seen <= Len(status.finished)
  /\ picked \in Seq(Elements) /\ Len(picked) = seen
  /\ \A i \in 1..seen : picked[i] = status.finished[i]
  /\ live = "done" => status.phase = "done" /\ seen = Len(status.finished)

\* A job under way packs the document of its mode, and nothing replaces it.
DocInv ==
  /\ DOMAIN doc = Modes /\ loading \in Modes \cup {"no"} /\ jobs \in Nat
  /\ DocumentStaysUnderJob

(***************************************************************************)
(* A job that trained an iteration too many since it was told to stop or   *)
(* to pause is past the check that would let it train another.             *)
(***************************************************************************)
LateInv ==
  /\ late \in {0, 1}
  /\ late = 1 => /\ cancel \/ pause
                 /\ thread.pc # "finish?"
                 /\ thread.pc = "cancelled?" => cancel
  /\ frame = "cancel" => cancel

StudioInv == JobInv /\ PollInv /\ DocInv /\ LateInv

\* What there is to pack is a sequence, of one item for an object.
LEMMA ToPackIsSequence ==
  ASSUME NEW m \in Modes, NEW chosen, NEW have
  PROVE  LET todo == ToPack(m, chosen, have) IN
           /\ todo \in Seq({todo[i] : i \in 1..Len(todo)})
           /\ m = "object" => Len(todo) = 1
<1>1. CASE m = "object" \/ chosen # NoKey
  <2>1. PICK key : ToPack(m, chosen, have) = <<key>>
    BY <1>1 DEF ToPack
  <2> QED
    BY <2>1
<1>2. CASE m # "object" /\ chosen = NoKey
  <2> DEFINE rows == {i \in DOMAIN RobotKeys : RobotKeys[i] \notin have}
             todo == Rows(RobotKeys, rows)
  <2>1. IsFiniteSet(rows)
    <3>1. IsFiniteSet(1..Len(RobotKeys))
      BY StudioAssumption, FS_Interval
    <3> QED
      BY <3>1, StudioAssumption, FS_Subset
  <2>2. Cardinality(rows) \in Nat
    BY <2>1, FS_CardinalityType
  <2>3. todo = [n \in 1..Cardinality(rows) |-> RobotKeys[Ascending(rows)[n]]]
    BY DEF Rows
  <2> HIDE DEF rows, todo
  <2>4. todo \in Seq({todo[i] : i \in 1..Len(todo)})
    BY <2>2, <2>3
  <2>5. ToPack(m, chosen, have) = todo
    BY <1>2 DEF ToPack, rows, todo
  <2> QED
    BY <1>2, <2>4, <2>5
<1> QED
  BY <1>1, <1>2

\* A job starts with nothing picked up, for the document that is open.
LEMMA StartPackKeeps ==
  ASSUME JobInv, PollInv, jobs \in Nat, NEW m \in Modes, NEW opened, NEW chosen, NEW have, NEW shown,
         shown \in {live, NotPolled}, StartPack(m, opened, chosen, have, shown)
  PROVE  /\ JobInv' /\ PollInv' /\ jobs' \in Nat
         /\ \/ UNCHANGED <<jobVars, started>>
            \/ kind' = m /\ jobDoc' = opened /\ late' = 0
<1>1. CASE /\ packed' = have /\ live' = shown
           /\ UNCHANGED <<jobVars, started, seen, picked, told>>
  <2>1. JobInv'
    BY <1>1 DEF JobInv, JobShape, Place, Elements, jobVars, spec, steer
  <2>2. PollInv'
    BY <1>1, StudioAssumption DEF PollInv, Elements, jobVars, spec, steer, Ended
  <2> QED
    BY <1>1, <2>1, <2>2 DEF started
<1>2. CASE LET todo == ToPack(m, chosen, have) IN
           /\ opened # 0 /\ todo # <<>> /\ jobs < MaxJobs
           /\ packed' = IF m = "object" THEN have \ {ObjectKey} ELSE have
           /\ Start(m, todo)
           /\ jobs' = jobs + 1 /\ jobDoc' = opened
           /\ seen' = 0
           /\ live' = NotPolled /\ picked' = <<>> /\ told' = FALSE
  <2> DEFINE todo == ToPack(m, chosen, have)
  <2>1. todo \in Seq({todo[i] : i \in 1..Len(todo)}) /\ (m = "object" => Len(todo) = 1)
    BY ToPackIsSequence
  <2>2. Start(m, todo) /\ seen' = 0 /\ live' = NotPolled /\ picked' = <<>>
    BY <1>2
  <2> HIDE DEF todo
  <2>3. JobInv'
    BY <2>1, <2>2, StartMakesJob
  <2>4. PollInv'
    BY <2>2, StudioAssumption DEF PollInv, Start, NewStatus, Ended
  <2> QED
    BY <1>2, <2>2, <2>3, <2>4 DEF Start
<1> QED
  BY <1>1, <1>2 DEF StartPack

LEMMA PackIfAskedKeeps ==
  ASSUME JobInv, PollInv, jobs \in Nat, NEW m \in Modes, NEW opened, NEW chosen, NEW have,
         PackIfAsked(m, opened, chosen, have)
  PROVE  /\ JobInv' /\ PollInv' /\ jobs' \in Nat
         /\ \/ UNCHANGED <<jobVars, started>>
            \/ kind' = m /\ jobDoc' = opened /\ late' = 0
<1>1. CASE packNext /\ StartPack(m, opened, chosen, have, NotPolled)
  BY <1>1, StartPackKeeps
<1>2. CASE ~packNext
  <2>1. UNCHANGED <<jobVars, started, seen, picked, told>> /\ live' = NotPolled
    BY <1>2 DEF PackIfAsked
  <2>2. JobInv'
    BY <2>1 DEF JobInv, JobShape, Place, Elements, jobVars, spec, steer
  <2>3. PollInv'
    BY <2>1, StudioAssumption DEF PollInv, Elements, jobVars, spec, steer, Ended
  <2> QED
    BY <2>1, <2>2, <2>3 DEF started
<1> QED
  BY <1>1, <1>2 DEF PackIfAsked

\* A loaded document is packed as the one of its mode, when no job runs.
LEMMA PickUpLoadedKeeps ==
  ASSUME StudioInv, PickUpLoaded
  PROVE  StudioInv'
<1>1. /\ loading \in Modes /\ loading' = "no" /\ frame' = "version" /\ ~JobRunning
      /\ JobInv /\ PollInv /\ jobs \in Nat /\ DOMAIN doc = Modes
  BY DEF PickUpLoaded, StudioInv, DocInv, DocumentStaysUnderJob
<1>2. PICK m \in Modes : /\ DOMAIN doc' = Modes
                          /\ \E chosen, have : PackIfAsked(m, doc'[m], chosen, have)
  <2>1. CASE Opens(loading)
    BY <1>1, <2>1 DEF Opens
  <2>2. CASE OpensNothing
    BY <1>1, <2>2 DEF OpensNothing
  <2> QED
    BY <2>1, <2>2 DEF PickUpLoaded
<1>3. /\ JobInv' /\ PollInv' /\ jobs' \in Nat
      /\ UNCHANGED <<jobVars, started>> \/ (kind' = m /\ jobDoc' = doc'[m] /\ late' = 0)
  BY <1>1, <1>2, PackIfAskedKeeps
<1>4. LateInv'
  BY <1>1, <1>3 DEF StudioInv, LateInv, jobVars, steer, past
<1>5. DocInv'
  <2>1. CASE UNCHANGED <<jobVars, started>>
    BY <1>1, <1>2, <1>3, <2>1 DEF DocInv, DocumentStaysUnderJob, JobRunning, IsRunning, jobVars, spec, started
  <2>2. CASE kind' = m /\ jobDoc' = doc'[m]
    BY <1>1, <1>2, <1>3, <2>2 DEF DocInv, DocumentStaysUnderJob
  <2> QED
    BY <1>3, <2>1, <2>2
<1> QED
  BY <1>3, <1>4, <1>5 DEF StudioInv

\* Pack starts a job only when none runs and no document is being loaded.
LEMMA PackKeeps ==
  ASSUME StudioInv, Pack
  PROVE  StudioInv'
<1>1. /\ loading = "no" /\ loading' = "no" /\ doc' = doc /\ frame' = "tasks" /\ ~JobRunning
      /\ JobInv /\ PollInv /\ jobs \in Nat /\ DOMAIN doc = Modes
  BY DEF Pack, Click, StudioInv, DocInv
<1>2. PICK m \in Modes, chosen \in LinkKeys \cup {NoKey} : StartPack(m, doc[m], chosen, packed, live)
  BY DEF Pack
<1>3. /\ JobInv' /\ PollInv' /\ jobs' \in Nat
      /\ UNCHANGED <<jobVars, started>> \/ (kind' = m /\ jobDoc' = doc[m] /\ late' = 0)
  BY <1>1, <1>2, StartPackKeeps
<1>4. LateInv'
  BY <1>1, <1>3 DEF StudioInv, LateInv, jobVars, steer, past
<1>5. DocInv'
  <2>1. CASE UNCHANGED <<jobVars, started>>
    BY <1>1, <1>3, <2>1 DEF DocInv, DocumentStaysUnderJob, JobRunning, IsRunning, jobVars, spec, started
  <2>2. CASE kind' = m /\ jobDoc' = doc[m]
    BY <1>1, <1>3, <2>2 DEF DocInv, DocumentStaysUnderJob
  <2> QED
    BY <1>3, <2>1, <2>2
<1> QED
  BY <1>3, <1>4, <1>5 DEF StudioInv

\* The job works on: what was finished stays, and so does its end.
LEMMA JobWorksKeeps ==
  ASSUME StudioInv, JobWorks
  PROVE  StudioInv'
<1>1. JobInv /\ Work /\ UNCHANGED <<frame, docs, started, polling>>
  BY DEF StudioInv, JobWorks
<1>2. JobInv' /\ UNCHANGED spec
  BY <1>1, WorkKeepsJob
<1>3. /\ status.phase \in Ended => status' = status
      /\ \/ status'.finished = status.finished
         \/ status'.finished = Append(status.finished, items[thread.at])
      /\ cancel' = cancel /\ pause' = pause
  <2> USE DEF At, Goto, Update, Touch, Quiet, steer
  <2>1. status.phase \in Ended => thread.pc = "over"
    BY <1>1 DEF JobInv, Place
  <2>2. \/ status'.finished = status.finished
        \/ status'.finished = Append(status.finished, items[thread.at])
    BY <1>1 DEF JobInv, JobShape, Work, Bump, Begin, NextItem, LoadMesh, Prepare, Create, ForgetFinish, Loop,
       Resume, CheckCancel, FinishNow, Train, Finalize, Push, End, Fail, DropSession
  <2>3. thread.pc = "over" => status' = status
    BY <1>1 DEF Work, Bump, Begin, NextItem, LoadMesh, Prepare, Create, ForgetFinish, Loop,
       Resume, CheckCancel, FinishNow, Train, Finalize, Push, End
  <2>4. cancel' = cancel /\ pause' = pause
    BY <1>1 DEF Work, Bump, Begin, NextItem, LoadMesh, Prepare, Create, ForgetFinish, Loop,
       Resume, CheckCancel, FinishNow, Train, Finalize, Push, End
  <2> QED
    BY <2>1, <2>2, <2>3, <2>4
<1>4. PollInv'
  <2>1. /\ seen' = seen /\ picked' = picked /\ live' = live /\ Elements' = Elements
    BY <1>1, <1>2 DEF polling, Elements, spec
  <2>2. /\ Len(status.finished) <= Len(status'.finished)
        /\ \A i \in 1..Len(status.finished) : status'.finished[i] = status.finished[i]
    BY <1>1, <1>3 DEF JobInv, JobShape
  <2>3. live = "done" => status' = status
    BY <1>3 DEF StudioInv, PollInv, Ended
  <2>4. Len(status'.finished) \in Nat /\ Len(status.finished) \in Nat
    BY <1>1, <1>2 DEF JobInv, JobShape
  <2> QED
    BY <2>1, <2>2, <2>3, <2>4 DEF StudioInv, PollInv
<1>5. LateInv'
  <2> USE DEF At, Goto, Update, Touch, Quiet, steer, past, StudioInv, LateInv, JobInv, JobShape
  <2>1. frame' = frame
    BY <1>1
  <2>2. CASE Train
    BY <1>3, <2>1, <2>2 DEF Train
  <2>3. CASE CheckCancel
    <3>1. CASE cancel
      <4>1. thread'.pc \in {"next", "end"} /\ late' = late
        BY <1>1, <2>3, <3>1 DEF CheckCancel, DropSession
      <4> QED
        BY <1>3, <2>1, <3>1, <4>1
    <3>2. CASE ~cancel
      <4>1. late = 0
        BY <2>3, <3>2 DEF CheckCancel
      <4> QED
        BY <1>3, <2>1, <2>3, <3>2, <4>1 DEF CheckCancel
    <3> QED
      BY <3>1, <3>2
  <2>4. CASE Loop
    BY <1>1, <1>3, <2>1, <2>4 DEF Loop
  <2>5. CASE Resume
    BY <1>1, <1>3, <2>1, <2>5 DEF Resume
  <2>6. CASE /\ late' = late
             /\ thread' = thread \/ thread'.pc \notin {"finish?", "cancelled?"}
    BY <1>1, <1>3, <2>1, <2>6
  <2>7. \/ Train \/ CheckCancel \/ Loop \/ Resume
        \/ late' = late /\ (thread' = thread \/ thread'.pc \notin {"finish?", "cancelled?"})
    BY <1>1 DEF Work, Bump, Begin, NextItem, LoadMesh, Prepare, Create, ForgetFinish, FinishNow, Finalize,
       Push, End, Fail, DropSession
  <2> QED
    BY <2>2, <2>3, <2>4, <2>5, <2>6, <2>7
<1>6. DocInv'
  <2>1. UNCHANGED <<doc, loading, jobs, jobDoc, kind>>
    BY <1>1, <1>2 DEF docs, started, spec
  <2>2. JobRunning' => JobRunning
    BY <1>3, <2>1 DEF JobRunning, IsRunning
  <2> QED
    BY <2>1, <2>2 DEF StudioInv, DocInv, DocumentStaysUnderJob
<1> QED
  BY <1>2, <1>4, <1>5, <1>6 DEF StudioInv

\* A poll picks up what is new of the finished packs.
LEMMA PollStatusKeeps ==
  ASSUME StudioInv, PollStatus
  PROVE  StudioInv'
<1>1. UNCHANGED <<jobVars, doc, loading, started>> /\ frame' = "click"
  BY DEF PollStatus
<1>2. JobInv' /\ DocInv' /\ LateInv'
  BY <1>1 DEF StudioInv, JobInv, JobShape, Place, Elements, DocInv, DocumentStaysUnderJob, JobRunning, IsRunning,
     LateInv, jobVars, spec, steer, past, started
<1>3. PollInv'
  <2> DEFINE n    == Len(status.finished)
             news == SubSeq(status.finished, seen + 1, n)
  <2>1. /\ seen \in Nat /\ n \in Nat /\ seen <= n /\ status.finished \in Seq(Elements)
        /\ picked \in Seq(Elements) /\ Len(picked) = seen
        /\ \A i \in 1..seen : picked[i] = status.finished[i]
    BY DEF StudioInv, JobInv, JobShape, PollInv
  <2>2. /\ news \in Seq(Elements) /\ Len(news) = n - seen
        /\ \A i \in 1..(n - seen) : news[i] = status.finished[seen + i]
    BY <2>1
  <2>3. picked' = picked \o news /\ seen' = n /\ live' = status.phase
    BY DEF PollStatus
  <2> HIDE DEF news, n
  <2>4. picked' \in Seq(Elements) /\ Len(picked') = n
    <3>1. /\ picked \o news \in Seq(Elements)
          /\ Len(picked \o news) = Len(picked) + Len(news)
      <4>1. picked \in Seq(Elements) /\ news \in Seq(Elements)
        BY <2>1, <2>2
      <4> QED
        BY <4>1, ConcatProperties
    <3>2. seen + (n - seen) = n
      BY <2>1
    <3> QED
      BY <2>1, <2>2, <2>3, <3>1, <3>2
  <2>5. \A i \in 1..n : picked'[i] = status.finished[i]
    <3> TAKE i \in 1..n
    <3>1. CASE i <= seen
      BY <2>1, <2>2, <2>3, <3>1
    <3>2. CASE i > seen
      BY <2>1, <2>2, <2>3, <3>2
    <3> QED
      BY <2>1, <3>1, <3>2
  <2>6. Elements' = Elements /\ status' = status
    BY <1>1 DEF jobVars, spec, Elements
  <2> QED
    BY <2>1, <2>3, <2>4, <2>5, <2>6 DEF PollInv, n
<1> QED
  BY <1>2, <1>3 DEF StudioInv

LEMMA StudioInvNext == StudioInv /\ [Next]_vars => StudioInv'
<1> SUFFICES ASSUME StudioInv, [Next]_vars
             PROVE  StudioInv'
  OBVIOUS
<1>1. ASSUME UNCHANGED <<spec, thread, status, seen, live, picked>>, cancel => cancel',
             DocInv', LateInv'
      PROVE  StudioInv'
  BY <1>1 DEF StudioInv, JobInv, JobShape, Place, PollInv, Elements, spec
<1> USE DEF StudioInv, JobInv, JobShape, DocInv, DocumentStaysUnderJob, JobRunning, IsRunning, LateInv,
            jobVars, spec, steer, past, docs, started, polling
<1>2. CASE UNCHANGED vars
  BY <1>2 DEF vars, Place, PollInv, Elements
<1>3. CASE PollVersion
  BY <1>1, <1>3 DEF PollVersion
<1>4. CASE Unpause
  BY <1>4 DEF Unpause, ReleasePause, Place, PollInv, Elements
<1>5. CASE Open
  BY <1>5 DEF Open, Click, Busy, Place, PollInv, Elements
<1>6. CASE Clear
  BY <1>6 DEF Clear, Click, Place, PollInv, Elements
<1>7. CASE Steer
  <2>1. CASE TogglePause
    BY <1>1, <1>7, <2>1 DEF Steer, Click, TogglePause
  <2>2. CASE RequestFinish
    BY <1>1, <1>7, <2>2 DEF Steer, Click, RequestFinish
  <2> QED
    BY <1>7, <2>1, <2>2 DEF Steer
<1>8. CASE Cancel
  BY <1>8 DEF Cancel, RequestCancel, Place, PollInv, Elements
<1> QED
  BY <1>2, <1>3, <1>4, <1>5, <1>6, <1>7, <1>8, PickUpLoadedKeeps, PollStatusKeeps, JobWorksKeeps, PackKeeps
     DEF Next, Polls

LEMMA StudioInvInit == Init => StudioInv
<1> SUFFICES ASSUME Init
             PROVE  StudioInv
  OBVIOUS
<1>1. JobInv
  BY DEF Init, JobInv, JobShape, Place, Elements, NewThread, NewStatus, Modes, Working, Ended
<1>2. PollInv
  BY StudioAssumption DEF Init, PollInv, NewStatus, Ended
<1>3. DocInv
  BY DEF Init, DocInv, DocumentStaysUnderJob, JobRunning
<1>4. LateInv
  BY DEF Init, LateInv
<1> QED
  BY <1>1, <1>2, <1>3, <1>4 DEF StudioInv

LEMMA SpecKeepsStudioInv == Spec => []StudioInv
BY StudioInvInit, StudioInvNext, PTL DEF Spec

(***************************************************************************)
(* While a job runs nobody replaces the document it packs (state.rs, busy  *)
(* and poll_loading).                                                      *)
(***************************************************************************)
THEOREM DocumentAlwaysStaysUnderJob == Spec => []DocumentStaysUnderJob
<1>1. StudioInv => DocumentStaysUnderJob
  BY DEF StudioInv, DocInv
<1> QED
  BY <1>1, SpecKeepsStudioInv, PTL

(***************************************************************************)
(* After a request to cancel or to pause, the job trains at most the one   *)
(* iteration it had already decided on (job.rs, pack_one).                 *)
(***************************************************************************)
THEOREM AlwaysStopsPromptly == Spec => []StopsPromptly
<1>1. StudioInv => StopsPromptly
  BY DEF StudioInv, LateInv, StopsPromptly
<1> QED
  BY <1>1, SpecKeepsStudioInv, PTL

\* A sequence whose elements begin another one is its prefix.
LEMMA BeginsIsPrefix ==
  ASSUME NEW S, NEW s \in Seq(S), NEW t \in Seq(S), Len(s) <= Len(t),
         \A i \in 1..Len(s) : s[i] = t[i]
  PROVE  /\ IsPrefix(s, t)
         /\ Len(s) = Len(t) => s = t
BY DEF IsPrefix

(***************************************************************************)
(* The user interface picks up every finished pack once and in the order   *)
(* of the items; a job shown as done has had all of them picked up         *)
(* (state.rs, poll_job; job.rs, run).                                      *)
(***************************************************************************)
THEOREM AlwaysPicksUpEachPackOnce == Spec => []PicksUpEachPackOnce
<1>1. StudioInv => PicksUpEachPackOnce
  <2> SUFFICES ASSUME StudioInv
               PROVE  PicksUpEachPackOnce
    OBVIOUS
  <2>1. /\ items \in Seq(Elements) /\ status.finished \in Seq(Elements) /\ picked \in Seq(Elements)
        /\ Len(status.finished) <= Len(items) /\ Len(picked) <= Len(status.finished)
        /\ \A i \in 1..Len(status.finished) : status.finished[i] = items[i]
        /\ \A i \in 1..Len(picked) : picked[i] = status.finished[i]
    BY DEF StudioInv, JobInv, JobShape, Place, PollInv
  <2>2. /\ IsPrefix(status.finished, items) /\ IsPrefix(picked, status.finished)
        /\ Len(status.finished) = Len(items) => status.finished = items
        /\ Len(picked) = Len(status.finished) => picked = status.finished
    BY <2>1, BeginsIsPrefix
  <2>3. /\ status.phase = "done" => Len(status.finished) = Len(items)
        /\ live = "done" => status.phase = "done" /\ Len(picked) = Len(status.finished)
    BY DEF StudioInv, JobInv, Place, PollInv
  <2> QED
    BY <2>2, <2>3 DEF PicksUpEachPackOnce
<1> QED
  BY <1>1, SpecKeepsStudioInv, PTL
-----------------------------------------------------------------------------
\* A set of naturals that is not empty has a least element.
LEMMA LeastOfNaturals ==
  ASSUME NEW S \in SUBSET Nat, S # {}
  PROVE  \E m \in S : \A l \in S : m <= l
<1> DEFINE Less == OpToRel(<, Nat)
<1>1. Less = {ss \in Nat \X Nat : ss[1] < ss[2]}
  BY DEF OpToRel
<1>2. IsWellFoundedOn(Less, Nat)
  BY NatLessThanWellFounded
<1> HIDE DEF Less
<1>3. PICK m \in S : \A l \in S : ~ (<<l, m>> \in Less)
  BY <1>2, WFMin
<1>4. ASSUME NEW l \in S PROVE m <= l
  <2>1. l \in Nat /\ m \in Nat
    OBVIOUS
  <2> SUFFICES ASSUME l < m PROVE FALSE
    BY <2>1
  <2> QED
    BY <1>1, <1>3, <2>1
<1> QED
  BY <1>4

\* A listing of a set of numbers, the smallest first.
Orders(f, S) ==
  /\ f \in [1..Cardinality(S) -> S]
  /\ \A i, j \in DOMAIN f : i < j => f[i] < f[j]

\* A set of rows can be listed in ascending order: by the least number of
\* rows for which it cannot.
LEMMA RowsHaveOrder ==
  ASSUME NEW N \in Nat, NEW S \in SUBSET (1..N)
  PROVE  \E f : Orders(f, S)
<1> DEFINE Bad == {n \in Nat : \E T \in SUBSET (1..n) : ~\E f : Orders(f, T)}
<1> SUFFICES ASSUME Bad # {} PROVE FALSE
  OBVIOUS
<1>1. PICK n \in Bad : \A l \in Bad : n <= l
  <2>1. Bad \in SUBSET Nat
    OBVIOUS
  <2> HIDE DEF Bad
  <2> QED
    BY <2>1, LeastOfNaturals
<1>2. n \in Nat /\ \A l \in Nat : l < n => l \notin Bad
  <2>1. n \in Nat
    OBVIOUS
  <2> HIDE DEF Bad
  <2> QED
    BY <1>1, <2>1
<1>3. PICK T \in SUBSET (1..n) : ~\E f : Orders(f, T)
  OBVIOUS
<1>4. n # 0
  <2> SUFFICES ASSUME n = 0 PROVE FALSE
    OBVIOUS
  <2>1. T = {}
    OBVIOUS
  <2>2. Cardinality(T) = 0
    BY <2>1, FS_EmptySet
  <2>3. Orders(<<>>, T)
    BY <2>1, <2>2 DEF Orders
  <2> QED
    BY <1>3, <2>3
<1>5. n - 1 \in Nat /\ n - 1 \notin Bad
  <2> HIDE DEF Bad
  <2> QED
    BY <1>2, <1>4
<1>6. T \ {n} \in SUBSET (1..(n - 1))
  BY <1>2
<1>7. PICK f : Orders(f, T \ {n})
  BY <1>5, <1>6
<1>8. n \in T
  <2> SUFFICES ASSUME n \notin T PROVE FALSE
    OBVIOUS
  <2>1. T \ {n} = T
    OBVIOUS
  <2> QED
    BY <1>3, <1>7, <2>1
<1> HIDE DEF Bad
<1>9. /\ Cardinality(T \ {n}) \in Nat
      /\ Cardinality(T) = Cardinality(T \ {n}) + 1
  <2>1. IsFiniteSet(T)
    <3>1. IsFiniteSet(1..n)
      BY <1>2, FS_Interval
    <3> QED
      BY <3>1, FS_Subset
  <2>2. IsFiniteSet(T \ {n}) /\ Cardinality(T \ {n}) = Cardinality(T) - 1
    BY <1>8, <2>1, FS_RemoveElement
  <2> QED
    BY <2>1, <2>2, FS_CardinalityType
<1> DEFINE c == Cardinality(T \ {n})
           g == [i \in 1..(c + 1) |-> IF i = c + 1 THEN n ELSE f[i]]
<1>10. /\ c \in Nat /\ f \in [1..c -> T \ {n}]
       /\ \A i, j \in 1..c : i < j => f[i] < f[j]
       /\ \A i \in 1..c : f[i] < n
  <2>1. c \in Nat /\ f \in [1..c -> T \ {n}]
    BY <1>7, <1>9 DEF Orders
  <2>2. DOMAIN f = 1..c
    BY <2>1
  <2>3. \A i, j \in 1..c : i < j => f[i] < f[j]
    BY <1>7, <2>2 DEF Orders
  <2>4. \A t \in T \ {n} : t < n
    BY <1>2
  <2> HIDE DEF c
  <2> QED
    BY <2>1, <2>3, <2>4
<1> HIDE DEF c
<1>11. g \in [1..(c + 1) -> T]
  BY <1>8, <1>10
<1>12. \A i, j \in 1..(c + 1) : i < j => g[i] < g[j]
  BY <1>10
<1>13. DOMAIN g = 1..(c + 1)
  OBVIOUS
<1>14. Cardinality(T) = c + 1
  BY <1>9 DEF c
<1> HIDE DEF g
<1>15. Orders(g, T)
  BY <1>11, <1>12, <1>13, <1>14 DEF Orders
<1> QED
  BY <1>3, <1>15

\* The chosen rows of a table are a sequence of its keys.
LEMMA RowsAreKeys ==
  ASSUME NEW table, table \in Seq(Range(table)), NEW chosen \in SUBSET (DOMAIN table)
  PROVE  /\ Rows(table, chosen) \in Seq({table[i] : i \in chosen})
         /\ Len(Rows(table, chosen)) = Cardinality(chosen)
<1> DEFINE N == Len(table)
           f == Ascending(chosen)
<1>1. N \in Nat /\ DOMAIN table = 1..N
  OBVIOUS
<1>2. Orders(f, chosen)
  <2>1. PICK g : Orders(g, chosen)
    BY <1>1, RowsHaveOrder
  <2> QED
    BY <2>1 DEF Ascending, Orders
<1>3. Cardinality(chosen) \in Nat
  <2>1. IsFiniteSet(1..N)
    BY <1>1, FS_Interval
  <2> QED
    BY <1>1, <2>1, FS_Subset, FS_CardinalityType
<1> QED
  BY <1>2, <1>3 DEF Rows, Orders
-----------------------------------------------------------------------------
DeskFields ==
  {"mode", "doc", "broken", "row", "results", "version", "assembled", "quality", "loading", "packNext",
   "analysis", "options", "showPrepared", "prepared", "preparing", "saving", "job", "seen", "live",
   "sceneDirty", "spheresDirty"}

\* The resource the systems share has its type.
DeskShape(s) ==
  /\ DOMAIN s = DeskFields
  /\ s.mode \in Desk!Modes /\ DOMAIN s.doc = Desk!Modes /\ DOMAIN s.quality = Desk!Modes
  /\ s.row \in Desk!LinkKeys \cup {NoKey}
  /\ DOMAIN s.results = Desk!Keys
  /\ s.version \in Nat /\ s.version >= 1 /\ s.seen \in Nat
  /\ s.sceneDirty \in BOOLEAN /\ s.spheresDirty \in BOOLEAN /\ s.showPrepared \in BOOLEAN
  /\ Desk!Ready(s.loading) => s.loading.mode \in Desk!Modes \cup {NotPolled}
  /\ s.preparing # NotPolled => DOMAIN s.preparing = {"of", "options", "ready"}
  /\ s.analysis # NotPolled => /\ DOMAIN s.analysis = {"mode", "of", "early", "ready"}
                               /\ s.analysis.mode \in Desk!Modes
  /\ s.job # NotPolled => s.job \in DeskJobs

\* A job packs and delivers spheres of its own mode.
JobOfItsMode(s) ==
  s.job # NotPolled =>
    /\ \A i \in DOMAIN s.job.items : s.job.items[i] \in Desk!KeysOf(s.job.mode)
    /\ \A i \in DOMAIN s.job.finished : s.job.finished[i].key \in Desk!KeysOf(s.job.mode)

\* Meshes that were or are being prepared are those of the document on show.
MeshesOfShown(s) ==
  /\ s.prepared # NotPolled => s.prepared.of = Desk!Shown(s)
  /\ s.preparing # NotPolled => s.preparing.of = Desk!Shown(s)

\* What the screen shows of the document.
DocumentOnScreen(s, scene) ==
  ~s.sceneDirty =>
    /\ scene.shown = Desk!Shown(s)
    /\ scene.mesh # NotPolled => s.showPrepared /\ scene.mesh.of = Desk!Shown(s)
    /\ s.showPrepared => scene.mesh = s.prepared

\* What the screen shows of the results.
ResultsOnScreen(s, scene) ==
  ~(s.sceneDirty \/ s.spheresDirty \/ Desk!JobRunning(s) \/ Desk!Unseen(s)) =>
    \A k \in DOMAIN scene.groups : scene.groups[k].spheres = s.results[k]

(***************************************************************************)
(* A signature tells the spheres of a group: none, those of the results'   *)
(* version, or others (an older version, a live job, nothing yet).         *)
(***************************************************************************)
Signed(s, scene) ==
  /\ DOMAIN scene = {"shown", "mesh", "groups"}
  /\ \A k \in DOMAIN scene.groups :
       LET g == scene.groups[k] IN
       /\ k \in Desk!Keys
       /\ g.signature \in Int /\ g.signature <= s.version
       /\ g.signature = 0 => g.spheres = 0
       /\ g.signature = s.version /\ s.results[k] # 0 => g.spheres = s.results[k]

OnScreen(s, scene) ==
  MeshesOfShown(s) /\ DocumentOnScreen(s, scene) /\ ResultsOnScreen(s, scene) /\ Signed(s, scene)

\* What is derived from the results of a mode was asked for too early, came
\* too late, or is not there.
NoneOf(s, m) ==
  /\ s.quality[m] # NotPolled => s.quality[m].early \/ s.quality[m].late
  /\ m = "robot" /\ s.assembled # NotPolled => s.assembled.early

\* Nothing is offered of a mode whose results a job may still change.
Offered(s) ==
  /\ s.assembled # NotPolled /\ ~s.assembled.early => s.assembled.of = Desk!Restricted(s, "robot")
  /\ \A m \in Desk!Modes :
       LET q == s.quality[m] IN
       q # NotPolled /\ ~q.early /\ ~q.late => q.of = Desk!Restricted(s, m)
  /\ Desk!JobRunning(s) \/ Desk!Unseen(s) => NoneOf(s, s.job.mode)

\* The studio's state is sound, and the scene fits it.
Fits(s, scene) == DeskShape(s) /\ JobOfItsMode(s) /\ Offered(s) /\ OnScreen(s, scene)

\* A step that leaves jobs, results and what is derived from them alone.
SameWork(s, t) ==
  /\ t.results = s.results /\ t.version = s.version /\ t.job = s.job /\ t.seen = s.seen
  /\ t.assembled = s.assembled /\ t.quality = s.quality

\* A step that leaves the document on show and its flags alone.
SameLook(s, t) ==
  /\ t.mode = s.mode /\ t.doc = s.doc
  /\ t.showPrepared = s.showPrepared /\ t.prepared = s.prepared /\ t.preparing = s.preparing

LEMMA SameWorkFits ==
  ASSUME NEW s, NEW t, NEW scene, Fits(s, scene), SameWork(s, t)
  PROVE  JobOfItsMode(t) /\ Offered(t) /\ Signed(t, scene)
<1>1. JobOfItsMode(t)
  BY DEF Fits, SameWork, JobOfItsMode
<1>2. Desk!JobRunning(t) = Desk!JobRunning(s) /\ Desk!Unseen(t) = Desk!Unseen(s)
  BY DEF SameWork, Desk!JobRunning, Desk!Unseen
<1>3. \A m : Desk!Restricted(t, m) = Desk!Restricted(s, m) /\ NoneOf(t, m) = NoneOf(s, m)
  BY DEF SameWork, Desk!Restricted, NoneOf
<1>4. Offered(t)
  BY <1>2, <1>3 DEF Fits, SameWork, Offered
<1>5. Signed(t, scene)
  BY DEF Fits, OnScreen, SameWork, Signed
<1> QED
  BY <1>1, <1>4, <1>5

\* The dirty flags are not taken back.
FlagsStay(s, t) == (s.sceneDirty => t.sceneDirty) /\ (s.spheresDirty => t.spheresDirty)

LEMMA SameLookFits ==
  ASSUME NEW s, NEW t, NEW scene, Fits(s, scene), SameLook(s, t), FlagsStay(s, t)
  PROVE  MeshesOfShown(t) /\ DocumentOnScreen(t, scene)
BY DEF Fits, OnScreen, SameLook, FlagsStay, MeshesOfShown, DocumentOnScreen, Desk!Shown

LEMMA SameResultsFit ==
  ASSUME NEW s, NEW t, NEW scene, Fits(s, scene), SameWork(s, t), FlagsStay(s, t)
  PROVE  ResultsOnScreen(t, scene)
BY DEF Fits, OnScreen, SameWork, FlagsStay, ResultsOnScreen, Desk!JobRunning, Desk!Unseen

LEMMA SameDeskFits ==
  ASSUME NEW s, NEW t, NEW scene, Fits(s, scene), SameWork(s, t), SameLook(s, t), FlagsStay(s, t), DeskShape(t)
  PROVE  Fits(t, scene)
BY SameWorkFits, SameLookFits, SameResultsFit DEF Fits, OnScreen

LEMMA TakePreparedFits ==
  ASSUME NEW s, NEW scene, Fits(s, scene)
  PROVE  Fits(Desk!TakePrepared(s), scene)
<1> DEFINE t == Desk!TakePrepared(s)
<1> SUFFICES ASSUME Desk!Ready(s.preparing)
             PROVE  Fits(t, scene)
  BY DEF Desk!TakePrepared
<1>1. t = [s EXCEPT !.prepared = [of |-> s.preparing.of, options |-> s.preparing.options],
                    !.preparing = NotPolled, !.sceneDirty = s.sceneDirty \/ s.showPrepared]
  BY DEF Desk!TakePrepared
<1>2. DOMAIN s = DeskFields
  BY DEF Fits, DeskShape
<1> HIDE DEF t
<1>3. SameWork(s, t)
  BY <1>1, <1>2 DEF SameWork, DeskFields
<1>4. DeskShape(t)
  BY <1>1, <1>2 DEF Fits, DeskShape, DeskFields
<1>5. MeshesOfShown(t)
  BY <1>1, <1>2 DEF Fits, OnScreen, MeshesOfShown, Desk!Shown, Desk!Ready, DeskFields
<1>6. DocumentOnScreen(t, scene)
  BY <1>1, <1>2 DEF Fits, OnScreen, MeshesOfShown, DocumentOnScreen, Desk!Shown, DeskFields, DeskShape
<1>7. FlagsStay(s, t)
  BY <1>1, <1>2 DEF FlagsStay, DeskFields
<1> QED
  BY <1>3, <1>4, <1>5, <1>6, <1>7, SameWorkFits, SameResultsFit DEF Fits, OnScreen

LEMMA PollPreparedFits ==
  ASSUME NEW old, NEW scene, Fits(old, scene)
  PROVE  Fits(Desk!PollPrepared(old), scene)
<1> DEFINE s == Desk!TakePrepared(old)
           asks == /\ s.showPrepared /\ Desk!HasDoc(s)
                   /\ ~Desk!Wanted(s, s.prepared) /\ ~Desk!Wanted(s, s.preparing)
           t == IF asks
                THEN [s EXCEPT !.preparing = [of |-> Desk!Shown(s), options |-> s.options, ready |-> FALSE]]
                ELSE s
           u == IF Desk!Ready(t.saving) THEN [t EXCEPT !.saving = NotPolled] ELSE t
<1>1. Desk!PollPrepared(old) = u
  BY DEF Desk!PollPrepared
<1>2. Fits(s, scene)
  BY TakePreparedFits
<1> HIDE DEF s, asks
<1>3. Fits(t, scene)
  <2> SUFFICES ASSUME asks
               PROVE  Fits(t, scene)
    BY <1>2
  <2>1. t = [s EXCEPT !.preparing = [of |-> Desk!Shown(s), options |-> s.options, ready |-> FALSE]]
    OBVIOUS
  <2>2. DOMAIN s = DeskFields
    BY <1>2 DEF Fits, DeskShape
  <2> HIDE DEF t
  <2>3. SameWork(s, t) /\ FlagsStay(s, t)
    BY <2>1, <2>2 DEF SameWork, FlagsStay, DeskFields
  <2>4. DeskShape(t)
    BY <1>2, <2>1, <2>2 DEF Fits, DeskShape, DeskFields
  <2>5. MeshesOfShown(t)
    BY <1>2, <2>1, <2>2 DEF Fits, OnScreen, MeshesOfShown, Desk!Shown, DeskFields
  <2>6. DocumentOnScreen(t, scene)
    BY <1>2, <2>1, <2>2 DEF Fits, OnScreen, DocumentOnScreen, Desk!Shown, DeskFields
  <2> QED
    BY <1>2, <2>3, <2>4, <2>5, <2>6, SameWorkFits, SameResultsFit DEF Fits, OnScreen
<1> HIDE DEF t
<1>4. Fits(u, scene)
  <2> SUFFICES ASSUME Desk!Ready(t.saving)
               PROVE  Fits(u, scene)
    BY <1>3
  <2>1. u = [t EXCEPT !.saving = NotPolled]
    OBVIOUS
  <2>2. DOMAIN t = DeskFields
    BY <1>3 DEF Fits, DeskShape
  <2> HIDE DEF u
  <2>3. SameWork(t, u) /\ SameLook(t, u) /\ FlagsStay(t, u)
    BY <2>1, <2>2 DEF SameWork, SameLook, FlagsStay, DeskFields
  <2>4. DeskShape(u)
    BY <1>3, <2>1, <2>2 DEF Fits, DeskShape, DeskFields
  <2> QED
    BY <1>3, <2>3, <2>4, SameDeskFits
<1> QED
  BY <1>1, <1>4

\* Nothing of the mode was offered or derived from other results.
SameOffer(s, t, m) ==
  /\ t.quality[m] = s.quality[m]
  /\ m = "robot" => t.assembled = s.assembled
  /\ \A k \in Desk!KeysOf(m) : t.results[k] = s.results[k]

LEMMA OffersFit ==
  ASSUME NEW s, NEW t, Offered(s), \A m \in Desk!Modes : NoneOf(t, m) \/ SameOffer(s, t, m),
         Desk!JobRunning(t) \/ Desk!Unseen(t) => NoneOf(t, t.job.mode)
  PROVE  Offered(t)
<1>1. ASSUME NEW m \in Desk!Modes, SameOffer(s, t, m)
      PROVE  Desk!Restricted(t, m) = Desk!Restricted(s, m)
  BY <1>1 DEF SameOffer, Desk!Restricted
<1>2. "robot" \in Desk!Modes
  BY DEF Desk!Modes
<1>3. t.assembled # NotPolled /\ ~t.assembled.early => t.assembled.of = Desk!Restricted(t, "robot")
  BY <1>1, <1>2 DEF Offered, SameOffer, NoneOf
<1>4. ASSUME NEW m \in Desk!Modes, t.quality[m] # NotPolled, ~t.quality[m].early, ~t.quality[m].late
      PROVE  t.quality[m].of = Desk!Restricted(t, m)
  BY <1>1, <1>4 DEF Offered, SameOffer, NoneOf
<1> QED
  BY <1>3, <1>4 DEF Offered

LEMMA LinksOfRobot == Desk!LinkKeys = Range(DeskKeys)
BY DEF Desk!LinkKeys, Range, Desk!Range

LEMMA RowsOfRobot ==
  ASSUME NEW table, NEW chosen
  PROVE  Desk!Rows(table, chosen) = Rows(table, chosen)
<1>1. \A S : Desk!Cardinality(S) = Cardinality(S)
  BY DEF Cardinality, Desk!Cardinality
<1>2. Desk!Ascending(chosen) = Ascending(chosen)
  BY <1>1 DEF Ascending, Desk!Ascending
<1> QED
  BY <1>1, <1>2 DEF Rows, Desk!Rows

LEMMA ModesApart ==
  /\ \A m \in Desk!Modes : Desk!KeysOf(m) \subseteq Desk!Keys
  /\ \A m, n \in Desk!Modes : m # n => Desk!KeysOf(m) \cap Desk!KeysOf(n) = {}
<1>1. ObjectKey \notin Desk!LinkKeys
  BY DeskAssumption, LinksOfRobot
<1> QED
  BY <1>1 DEF Desk!Modes, Desk!KeysOf, Desk!Keys

\* A document that is opened has no results, and the scene will be rebuilt.
LEMMA OpenedFits ==
  ASSUME NEW s, NEW scene, Fits(s, scene), NEW loaded, loaded.mode \in Desk!Modes \cup {NotPolled}
  PROVE  /\ Fits(Desk!Opened(s, loaded), scene)
         /\ Desk!Opened(s, loaded).loading = s.loading
<1> DEFINE m == loaded.mode
           t == Desk!Opened(s, loaded)
<1>1. DOMAIN s = DeskFields
  BY DEF Fits, DeskShape
<1>2. CASE m = NotPolled
  <2>1. t = [[s EXCEPT !.prepared = NotPolled, !.preparing = NotPolled]
               EXCEPT !.live = NotPolled, !.sceneDirty = TRUE]
    BY <1>2 DEF Desk!Opened, Desk!ClearPrepared
  <2> HIDE DEF t
  <2>2. SameWork(s, t) /\ FlagsStay(s, t) /\ t.loading = s.loading
    BY <1>1, <2>1 DEF SameWork, FlagsStay, DeskFields
  <2>3. DeskShape(t)
    BY <1>1, <2>1 DEF Fits, DeskShape, DeskFields
  <2>4. MeshesOfShown(t) /\ DocumentOnScreen(t, scene)
    BY <1>1, <2>1 DEF MeshesOfShown, DocumentOnScreen, DeskFields
  <2> QED
    BY <2>2, <2>3, <2>4, SameWorkFits, SameResultsFit DEF Fits, OnScreen, t
<1>3. CASE m # NotPolled
  <2> DEFINE left == [k \in Desk!Keys |-> IF k \in Desk!KeysOf(m) THEN 0 ELSE s.results[k]]
  <2>1. m \in Desk!Modes
    BY <1>3
  <2>2. /\ DOMAIN t = DeskFields
        /\ t.mode = m /\ t.doc = [s.doc EXCEPT ![m] = loaded.doc]
        /\ t.results = left /\ t.quality = [s.quality EXCEPT ![m] = NotPolled]
        /\ t.row = (IF m = "robot" THEN NoKey ELSE s.row)
        /\ t.assembled = (IF m = "robot" THEN NotPolled ELSE s.assembled)
        /\ t.prepared = NotPolled /\ t.preparing = NotPolled /\ t.sceneDirty = TRUE
        /\ t.version = s.version /\ t.seen = s.seen /\ t.job = s.job /\ t.analysis = s.analysis
        /\ t.loading = s.loading /\ t.showPrepared = s.showPrepared /\ t.spheresDirty = s.spheresDirty
    BY <1>1, <1>3 DEF Desk!Opened, Desk!ClearPrepared, DeskFields
  <2> HIDE DEF t, m, left
  <2>3. DeskShape(t)
    BY <1>1, <2>1, <2>2 DEF Fits, DeskShape, left
  <2>4. JobOfItsMode(t)
    BY <2>2 DEF Fits, JobOfItsMode
  <2>5. Offered(t)
    <3>1. NoneOf(t, m)
      BY <2>1, <2>2 DEF NoneOf, Fits, DeskShape
    <3>2. ASSUME NEW n \in Desk!Modes, n # m
          PROVE  SameOffer(s, t, n)
      BY <2>1, <2>2, <3>2, ModesApart DEF SameOffer, Fits, DeskShape, left, Desk!Modes
    <3>3. Desk!JobRunning(t) \/ Desk!Unseen(t) => NoneOf(t, t.job.mode)
      <4> SUFFICES ASSUME Desk!JobRunning(t) \/ Desk!Unseen(t)
                   PROVE  NoneOf(t, t.job.mode)
        OBVIOUS
      <4>1. NoneOf(s, s.job.mode) /\ s.job \in DeskJobs
        BY <2>2 DEF Desk!JobRunning, Desk!Unseen, Fits, Offered, DeskShape
      <4>2. s.job.mode \in Desk!Modes /\ t.job = s.job
        BY <2>2, <4>1 DEF DeskJobs, Desk!Modes
      <4> QED
        BY <3>1, <3>2, <4>1, <4>2 DEF NoneOf, SameOffer
    <3> QED
      BY <3>1, <3>2, <3>3, OffersFit DEF Fits
  <2>6. Signed(t, scene)
    BY <2>1, <2>2 DEF Fits, OnScreen, Signed, left
  <2>7. MeshesOfShown(t) /\ DocumentOnScreen(t, scene) /\ ResultsOnScreen(t, scene)
    BY <2>2 DEF MeshesOfShown, DocumentOnScreen, ResultsOnScreen
  <2> QED
    BY <2>2, <2>3, <2>4, <2>5, <2>6, <2>7 DEF Fits, OnScreen, t
<1> QED
  BY <1>2, <1>3

\* What is packed are meshes of the mode.
LEMMA ToPackIsOfMode ==
  ASSUME NEW s, s.mode \in Desk!Modes, s.row \in Desk!LinkKeys \cup {NoKey}
  PROVE  Desk!ToPack(s) \in Seq(Desk!KeysOf(s.mode))
<1>1. CASE s.mode = "object"
  BY <1>1 DEF Desk!ToPack, Desk!KeysOf
<1>2. CASE s.mode # "object" /\ s.row # NoKey
  BY <1>2 DEF Desk!ToPack, Desk!KeysOf
<1>3. CASE s.mode # "object" /\ s.row = NoKey
  <2> DEFINE rows == {i \in DOMAIN DeskKeys : DeskKeys[i] \notin s.broken /\ s.results[DeskKeys[i]] = 0}
  <2>1. Desk!ToPack(s) = Rows(DeskKeys, rows) /\ Desk!KeysOf(s.mode) = Desk!LinkKeys
    BY <1>3, RowsOfRobot DEF Desk!ToPack, Desk!KeysOf
  <2>2. rows \in SUBSET (DOMAIN DeskKeys)
    OBVIOUS
  <2> HIDE DEF rows
  <2>3. Rows(DeskKeys, rows) \in Seq({DeskKeys[i] : i \in rows})
    BY <2>2, DeskAssumption, RowsAreKeys
  <2>4. {DeskKeys[i] : i \in rows} \subseteq Desk!LinkKeys
    BY <2>2, LinksOfRobot DEF Range
  <2>5. Rows(DeskKeys, rows) \in Seq(Desk!LinkKeys)
    BY <2>3, <2>4
  <2> QED
    BY <2>1, <2>5
<1> QED
  BY <1>1, <1>2, <1>3

\* A pack starts a job of its mode and drops what its results were for.
LEMMA StartPackFits ==
  ASSUME NEW s, NEW scene, Fits(s, scene), NEW valid
  PROVE  Fits(Desk!StartPack(s, valid), scene)
<1> DEFINE todo == Desk!ToPack(s)
           job  == [mode |-> s.mode, items |-> todo, finished |-> <<>>,
                    working |-> FALSE, running |-> TRUE, news |-> TRUE]
           t    == Desk!StartPack(s, valid)
<1> SUFFICES ASSUME ~(~valid \/ ~Desk!HasDoc(s) \/ todo = <<>>)
             PROVE  Fits(t, scene)
  BY DEF Desk!StartPack
<1>1. DOMAIN s = DeskFields /\ s.mode \in Desk!Modes
  BY DEF Fits, DeskShape
<1>2. todo \in Seq(Desk!KeysOf(s.mode))
  BY <1>1, ToPackIsOfMode DEF Fits, DeskShape
<1>3. todo \in Seq(Desk!Keys)
  BY <1>1, <1>2, ModesApart
<1>4. t = [s EXCEPT !.results[ObjectKey] = IF s.mode = "object" THEN 0 ELSE @,
                    !.quality[s.mode] = NotPolled,
                    !.assembled = IF s.mode = "robot" THEN NotPolled ELSE @,
                    !.job = job, !.seen = 0, !.live = NotPolled]
  BY DEF Desk!StartPack
<1> HIDE DEF t, todo
<1>5. job \in DeskJobs
  BY <1>1, <1>3, LinksOfRobot DEF DeskJobs, Desk!Modes, Desk!Keys
<1> HIDE DEF job
<1>6. /\ DOMAIN t = DeskFields
      /\ t.results = [s.results EXCEPT ![ObjectKey] = IF s.mode = "object" THEN 0 ELSE @]
      /\ t.quality = [s.quality EXCEPT ![s.mode] = NotPolled]
      /\ t.assembled = (IF s.mode = "robot" THEN NotPolled ELSE s.assembled)
      /\ t.job = job /\ t.seen = 0 /\ t.version = s.version /\ t.analysis = s.analysis
      /\ t.row = s.row /\ t.loading = s.loading
      /\ SameLook(s, t) /\ t.sceneDirty = s.sceneDirty /\ t.spheresDirty = s.spheresDirty
  BY <1>1, <1>4 DEF DeskFields, SameLook
<1> HIDE DEF t
<1>7. DeskShape(t)
  BY <1>5, <1>6 DEF Fits, DeskShape, SameLook
<1>8. Desk!JobRunning(t) /\ Desk!Unseen(t) /\ job.mode = s.mode
  <2>1. job # NotPolled
    BY <1>5, DeskAssumption
  <2> QED
    BY <1>6, <2>1 DEF Desk!JobRunning, Desk!Unseen, job
<1>9. JobOfItsMode(t)
  BY <1>2, <1>6 DEF JobOfItsMode, job
<1>10. Offered(t)
  <2>1. NoneOf(t, s.mode)
    BY <1>1, <1>6 DEF NoneOf, Fits, DeskShape
  <2>2. ASSUME NEW m \in Desk!Modes, m # s.mode
        PROVE  SameOffer(s, t, m)
    <3>1. \A k \in Desk!KeysOf(m) : t.results[k] = s.results[k]
      <4>1. CASE s.mode = "object"
        <5>1. ObjectKey \in Desk!KeysOf("object")
          BY DEF Desk!KeysOf
        <5>2. \A k \in Desk!KeysOf(m) : k \in Desk!Keys /\ k # ObjectKey
          BY <1>1, <2>2, <4>1, <5>1, ModesApart
        <5> QED
          BY <1>6, <5>2 DEF Fits, DeskShape
      <4>2. CASE s.mode # "object"
        <5>1. \A k \in Desk!KeysOf(m) : k \in Desk!Keys
          BY ModesApart
        <5> QED
          BY <1>6, <4>2, <5>1 DEF Fits, DeskShape
      <4> QED
        BY <4>1, <4>2
    <3> QED
      BY <1>1, <1>6, <2>2, <3>1 DEF SameOffer, Fits, DeskShape, Desk!Modes
  <2> QED
    BY <1>6, <1>8, <2>1, <2>2, OffersFit DEF Fits
<1>11. Signed(t, scene)
  BY <1>6 DEF Fits, OnScreen, DeskShape, Signed
<1>12. MeshesOfShown(t) /\ DocumentOnScreen(t, scene)
  BY <1>6, SameLookFits DEF FlagsStay
<1>13. ResultsOnScreen(t, scene)
  BY <1>8 DEF ResultsOnScreen
<1> QED
  BY <1>7, <1>9, <1>10, <1>11, <1>12, <1>13 DEF Fits, OnScreen

LEMMA PollLoadingFits ==
  ASSUME NEW s, NEW scene, Fits(s, scene), NEW valid
  PROVE  Fits(Desk!PollLoading(s, valid), scene)
<1> SUFFICES ASSUME Desk!Ready(s.loading)
             PROVE  Fits(Desk!PollLoading(s, valid), scene)
  BY DEF Desk!PollLoading
<1> DEFINE o == Desk!Opened(s, s.loading)
           t == [o EXCEPT !.loading = NotPolled, !.packNext = FALSE]
<1>1. Fits(o, scene)
  BY OpenedFits DEF Fits, DeskShape
<1>2. Desk!PollLoading(s, valid) = IF s.packNext THEN Desk!StartPack(t, valid) ELSE t
  BY DEF Desk!PollLoading
<1> HIDE DEF o
<1>3. DOMAIN o = DeskFields
  BY <1>1 DEF Fits, DeskShape
<1>4. Fits(t, scene)
  <2>1. SameWork(o, t) /\ SameLook(o, t) /\ FlagsStay(o, t)
    BY <1>3 DEF SameWork, SameLook, FlagsStay, DeskFields
  <2>2. DeskShape(t)
    BY <1>1, <1>3 DEF Fits, DeskShape, DeskFields, Desk!Ready
  <2> QED
    BY <1>1, <2>1, <2>2, SameDeskFits
<1> HIDE DEF t
<1> QED
  BY <1>2, <1>4, StartPackFits

\* Scores that are not of the results by now, or that a job is replacing,
\* are late.
LEMMA PollQualityFits ==
  ASSUME NEW s, NEW scene, Fits(s, scene)
  PROVE  Fits(Desk!PollQuality(s), scene)
<1> SUFFICES ASSUME Desk!Ready(s.analysis)
             PROVE  Fits(Desk!PollQuality(s), scene)
  BY DEF Desk!PollQuality
<1> DEFINE a   == s.analysis
           out == [of |-> a.of, early |-> a.early,
                   late |-> a.of # Desk!Restricted(s, a.mode) \/ Desk!JobRunning(s) \/ Desk!Unseen(s)]
           t   == [s EXCEPT !.analysis = NotPolled, !.quality[a.mode] = out]
<1>1. Desk!PollQuality(s) = t
  BY DEF Desk!PollQuality
<1>2. DOMAIN s = DeskFields /\ a.mode \in Desk!Modes
  BY DEF Fits, DeskShape, Desk!Ready
<1> HIDE DEF out
<1>3. /\ DOMAIN t = DeskFields
      /\ t.quality = [s.quality EXCEPT ![a.mode] = out] /\ t.analysis = NotPolled
      /\ t.results = s.results /\ t.version = s.version /\ t.job = s.job /\ t.seen = s.seen
      /\ t.assembled = s.assembled /\ t.row = s.row /\ t.loading = s.loading
      /\ SameLook(s, t) /\ t.sceneDirty = s.sceneDirty /\ t.spheresDirty = s.spheresDirty
  BY <1>2 DEF DeskFields, SameLook
<1> HIDE DEF t
<1>4. DeskShape(t) /\ JobOfItsMode(t)
  BY <1>3 DEF Fits, DeskShape, JobOfItsMode, SameLook
<1>5. Desk!JobRunning(t) = Desk!JobRunning(s) /\ Desk!Unseen(t) = Desk!Unseen(s)
  BY <1>3 DEF Desk!JobRunning, Desk!Unseen
<1>6. \A m : Desk!Restricted(t, m) = Desk!Restricted(s, m)
  BY <1>3 DEF Desk!Restricted
<1>7. out.late \/ out.of = Desk!Restricted(s, a.mode)
  BY DEF out
<1>8. Offered(t)
  <2>1. ASSUME NEW m \in Desk!Modes
        PROVE  t.quality[m] = IF m = a.mode THEN out ELSE s.quality[m]
    BY <1>2, <1>3 DEF Fits, DeskShape
  <2>2. ASSUME Desk!JobRunning(t) \/ Desk!Unseen(t)
        PROVE  NoneOf(t, t.job.mode)
    <3>1. NoneOf(s, s.job.mode) /\ s.job \in DeskJobs
      BY <1>5, <2>2 DEF Fits, Offered, DeskShape, Desk!JobRunning, Desk!Unseen
    <3>2. s.job.mode \in Desk!Modes
      BY <3>1 DEF DeskJobs, Desk!Modes
    <3>3. out.late
      BY <1>5, <2>2 DEF out
    <3> QED
      BY <1>3, <2>1, <3>1, <3>2, <3>3 DEF NoneOf
  <2> QED
    BY <1>3, <1>6, <1>7, <2>1, <2>2 DEF Fits, Offered
<1>9. Signed(t, scene)
  BY <1>3 DEF Fits, OnScreen, Signed
<1>10. FlagsStay(s, t)
  BY <1>3 DEF FlagsStay
<1>11. ResultsOnScreen(t, scene)
  BY <1>3, <1>5 DEF Fits, OnScreen, ResultsOnScreen
<1> QED
  BY <1>1, <1>3, <1>4, <1>8, <1>9, <1>10, <1>11, SameLookFits DEF Fits, OnScreen

LEMMA RestOfSequence ==
  ASSUME NEW S, NEW f \in Seq(S), NEW n \in Nat
  PROVE  LET rest == SubSeq(f, n + 1, Len(f)) IN
         /\ rest \in Seq(S) /\ Len(rest) \in Nat
         /\ \A i \in 1..Len(rest) : n + i \in DOMAIN f /\ rest[i] = f[n + i]
<1>1. CASE n <= Len(f)
  BY <1>1, SMTT(30)
<1>2. CASE n > Len(f)
  <2>1. SubSeq(f, n + 1, Len(f)) = <<>>
    BY <1>2
  <2> QED
    BY <2>1
<1> QED
  BY <1>1, <1>2

\* Packs that are picked up are of the job's mode, of which nothing is
\* offered, and bump the version.
LEMMA PollJobFits ==
  ASSUME NEW s, NEW scene, Fits(s, scene)
  PROVE  Fits(Desk!PollJob(s), scene)
<1> SUFFICES ASSUME Desk!Unseen(s)
             PROVE  Fits(Desk!PollJob(s), scene)
  BY DEF Desk!PollJob
<1> DEFINE new     == SubSeq(s.job.finished, s.seen + 1, Len(s.job.finished))
           of(k)   == {i \in DOMAIN new : new[i].key = k}
           results == [k \in Desk!Keys |-> IF of(k) = {} THEN s.results[k]
                                           ELSE new[CHOOSE i \in of(k) : TRUE].pack]
           ended == Len(s.job.finished)
           t == [s EXCEPT !.results = results, !.version = @ + Len(new), !.seen = ended,
                          !.live = [item |-> ended + 1, working |-> s.job.working],
                          !.spheresDirty = TRUE, !.job.news = FALSE]
<1>1. DOMAIN s.results = Desk!Keys /\ DOMAIN s = DeskFields
  BY DEF Fits, DeskShape
<1>2. Desk!PollJob(s) = t
  BY <1>1 DEF Desk!PollJob
<1>3. /\ s.job \in DeskJobs /\ s.seen \in Nat
      /\ s.job.finished \in Seq([key : {ObjectKey} \cup Range(DeskKeys), pack : Nat])
      /\ s.job.mode \in Desk!Modes /\ s.version \in Nat
  BY DEF Fits, DeskShape, Desk!Unseen, DeskJobs, Desk!Modes
<1>4. /\ Len(new) \in Nat /\ ended \in Nat /\ DOMAIN new = 1..Len(new)
      /\ \A i \in 1..Len(new) : new[i].key \in Desk!KeysOf(s.job.mode)
  <2>1. /\ new \in Seq([key : {ObjectKey} \cup Range(DeskKeys), pack : Nat]) /\ Len(new) \in Nat
        /\ \A i \in 1..Len(new) :
             s.seen + i \in DOMAIN s.job.finished /\ new[i] = s.job.finished[s.seen + i]
    BY <1>3, RestOfSequence
  <2>2. ended \in Nat
    BY <1>3
  <2> HIDE DEF new, ended
  <2> QED
    BY <2>1, <2>2 DEF Fits, JobOfItsMode, Desk!Unseen
<1> HIDE DEF new
<1>5. \A k \in Desk!Keys : k \notin Desk!KeysOf(s.job.mode) => results[k] = s.results[k]
  BY <1>4
<1>6. Len(new) = 0 => \A k \in Desk!Keys : results[k] = s.results[k]
  BY <1>4
<1>7. DOMAIN results = Desk!Keys
  OBVIOUS
<1> HIDE DEF results, ended
<1>8. /\ DOMAIN t = DeskFields
      /\ t.results = results /\ t.version = s.version + Len(new) /\ t.seen = ended
      /\ t.job = [s.job EXCEPT !.news = FALSE]
      /\ t.assembled = s.assembled /\ t.quality = s.quality /\ t.analysis = s.analysis
      /\ t.row = s.row /\ t.loading = s.loading
      /\ SameLook(s, t) /\ t.sceneDirty = s.sceneDirty /\ t.spheresDirty = TRUE
  BY <1>1 DEF DeskFields, SameLook
<1> HIDE DEF t
<1>9. /\ t.job \in DeskJobs /\ t.job.mode = s.job.mode /\ t.job.items = s.job.items
      /\ t.job.finished = s.job.finished /\ t.job.running = s.job.running
  BY <1>3, <1>8 DEF DeskJobs
<1>10. DeskShape(t)
  <2>1. t.version \in Nat /\ t.version >= 1
    BY <1>3, <1>4, <1>8 DEF Fits, DeskShape
  <2> QED
    BY <1>4, <1>7, <1>8, <1>9, <2>1 DEF Fits, DeskShape, SameLook
<1>11. JobOfItsMode(t)
  BY <1>8, <1>9 DEF Fits, JobOfItsMode, Desk!Unseen
<1>12. Offered(t)
  <2>1. NoneOf(s, s.job.mode)
    BY DEF Fits, Offered
  <2>2. NoneOf(t, t.job.mode)
    BY <1>8, <1>9, <2>1 DEF NoneOf
  <2>3. ASSUME NEW m \in Desk!Modes, m # s.job.mode
        PROVE  SameOffer(s, t, m)
    <3>1. \A k \in Desk!KeysOf(m) : k \in Desk!Keys /\ k \notin Desk!KeysOf(s.job.mode)
      BY <1>3, <2>3, ModesApart
    <3> QED
      BY <1>5, <1>8, <3>1 DEF SameOffer
  <2> QED
    BY <1>9, <2>2, <2>3, OffersFit DEF Fits
<1>13. Signed(t, scene)
  BY <1>3, <1>4, <1>6, <1>8 DEF Fits, OnScreen, Signed
<1>14. MeshesOfShown(t) /\ DocumentOnScreen(t, scene)
  BY <1>8, SameLookFits DEF FlagsStay
<1>15. ResultsOnScreen(t, scene)
  BY <1>8 DEF ResultsOnScreen
<1> QED
  BY <1>2, <1>10, <1>11, <1>12, <1>13, <1>14, <1>15 DEF Fits, OnScreen

LEMMA SetModeFits ==
  ASSUME NEW s, NEW scene, Fits(s, scene), NEW m \in Desk!Modes
  PROVE  Fits(Desk!SetMode(s, m), scene)
<1> SUFFICES ASSUME s.mode # m
             PROVE  Fits(Desk!SetMode(s, m), scene)
  BY DEF Desk!SetMode
<1> DEFINE t == Desk!SetMode(s, m)
<1>1. DOMAIN s = DeskFields
  BY DEF Fits, DeskShape
<1>2. /\ DOMAIN t = DeskFields /\ SameWork(s, t) /\ FlagsStay(s, t)
      /\ t.mode = m /\ t.doc = s.doc /\ t.row = s.row /\ t.loading = s.loading /\ t.analysis = s.analysis
      /\ t.prepared = NotPolled /\ t.preparing = NotPolled
      /\ t.showPrepared = s.showPrepared /\ t.sceneDirty = TRUE /\ t.spheresDirty = s.spheresDirty
  BY <1>1 DEF Desk!SetMode, Desk!ClearPrepared, SameWork, FlagsStay, DeskFields
<1> HIDE DEF t
<1>3. DeskShape(t)
  BY <1>2 DEF Fits, DeskShape, SameWork
<1>4. MeshesOfShown(t) /\ DocumentOnScreen(t, scene)
  BY <1>2 DEF MeshesOfShown, DocumentOnScreen
<1> QED
  BY <1>2, <1>3, <1>4, SameWorkFits, SameResultsFit DEF Fits, OnScreen, t

\* What is dropped is of the mode, and so is what was derived from it.
LEMMA ClearResultsFits ==
  ASSUME NEW s, NEW scene, Fits(s, scene), ~Desk!JobRunning(s)
  PROVE  Fits(Desk!ClearResults(s), scene)
<1> DEFINE gone == IF s.mode = "robot" /\ s.row # NoKey THEN {s.row} ELSE Desk!KeysOf(s.mode)
           left == [k \in Desk!Keys |-> IF k \in gone THEN 0 ELSE s.results[k]]
           t    == Desk!ClearResults(s)
<1>1. DOMAIN s = DeskFields /\ s.mode \in Desk!Modes /\ s.version \in Nat
  BY DEF Fits, DeskShape
<1>2. gone \subseteq Desk!KeysOf(s.mode)
  BY DEF Fits, DeskShape, Desk!KeysOf
<1>3. /\ DOMAIN t = DeskFields
      /\ t.results = left /\ t.version = s.version + 1 /\ t.spheresDirty = TRUE
      /\ t.quality = [s.quality EXCEPT ![s.mode] = NotPolled]
      /\ t.assembled = (IF s.mode = "robot" THEN NotPolled ELSE s.assembled)
      /\ t.job = s.job /\ t.seen = s.seen /\ t.analysis = s.analysis
      /\ t.row = s.row /\ t.loading = s.loading
      /\ SameLook(s, t) /\ t.sceneDirty = s.sceneDirty
  BY <1>1 DEF Desk!ClearResults, DeskFields, SameLook
<1> HIDE DEF t, gone
<1>4. DeskShape(t) /\ JobOfItsMode(t)
  <2>1. t.version \in Nat /\ t.version >= 1
    BY <1>1, <1>3
  <2>2. DOMAIN t.results = Desk!Keys
    BY <1>3
  <2> QED
    BY <1>3, <2>1, <2>2 DEF Fits, DeskShape, JobOfItsMode, SameLook
<1>5. Offered(t)
  <2>1. NoneOf(t, s.mode)
    BY <1>1, <1>3 DEF NoneOf, Fits, DeskShape
  <2>2. ASSUME NEW m \in Desk!Modes, m # s.mode
        PROVE  SameOffer(s, t, m)
    <3>1. \A k \in Desk!KeysOf(m) : k \in Desk!Keys /\ k \notin gone
      BY <1>1, <1>2, <2>2, ModesApart
    <3> QED
      BY <1>1, <1>3, <2>2, <3>1 DEF SameOffer, Fits, DeskShape, Desk!Modes
  <2>3. ASSUME Desk!JobRunning(t) \/ Desk!Unseen(t)
        PROVE  NoneOf(t, t.job.mode)
    <3>1. NoneOf(s, s.job.mode) /\ s.job \in DeskJobs
      BY <1>3, <2>3 DEF Fits, Offered, DeskShape, Desk!JobRunning, Desk!Unseen
    <3>2. s.job.mode \in Desk!Modes
      BY <3>1 DEF DeskJobs, Desk!Modes
    <3> QED
      BY <1>3, <2>1, <2>2, <3>1, <3>2 DEF NoneOf, SameOffer
  <2> QED
    BY <2>1, <2>2, <2>3, OffersFit DEF Fits
<1>6. Signed(t, scene)
  BY <1>1, <1>3 DEF Fits, OnScreen, Signed
<1>7. MeshesOfShown(t) /\ DocumentOnScreen(t, scene)
  BY <1>3, SameLookFits DEF FlagsStay
<1>8. ResultsOnScreen(t, scene)
  BY <1>3 DEF ResultsOnScreen
<1> QED
  BY <1>4, <1>5, <1>6, <1>7, <1>8 DEF Fits, OnScreen, t

\* A URDF assembled while packs of a job are not picked up is early.
LEMMA AssembledFits ==
  ASSUME NEW s, NEW scene, Fits(s, scene), ~Desk!JobRunning(s)
  PROVE  Fits(Desk!Assembled(s), scene)
<1> DEFINE new == [of |-> Desk!Restricted(s, "robot"), early |-> Desk!Unseen(s)]
           t   == [s EXCEPT !.assembled = new]
<1>1. Desk!Assembled(s) = t
  BY DEF Desk!Assembled
<1>2. DOMAIN s = DeskFields
  BY DEF Fits, DeskShape
<1> HIDE DEF new
<1>3. /\ DOMAIN t = DeskFields
      /\ t.results = s.results /\ t.version = s.version /\ t.job = s.job /\ t.seen = s.seen
      /\ t.quality = s.quality /\ t.analysis = s.analysis /\ t.row = s.row /\ t.loading = s.loading
      /\ t.assembled = new
      /\ SameLook(s, t) /\ t.sceneDirty = s.sceneDirty /\ t.spheresDirty = s.spheresDirty
  BY <1>2 DEF DeskFields, SameLook
<1> HIDE DEF t
<1>4. DeskShape(t) /\ JobOfItsMode(t)
  BY <1>3 DEF Fits, DeskShape, JobOfItsMode, SameLook
<1>5. Desk!JobRunning(t) = Desk!JobRunning(s) /\ Desk!Unseen(t) = Desk!Unseen(s)
  BY <1>3 DEF Desk!JobRunning, Desk!Unseen
<1>6. \A m : Desk!Restricted(t, m) = Desk!Restricted(s, m)
  BY <1>3 DEF Desk!Restricted
<1>7. Offered(t)
  BY <1>3, <1>5, <1>6 DEF Fits, Offered, NoneOf, new
<1>8. Signed(t, scene)
  BY <1>3 DEF Fits, OnScreen, Signed
<1>9. FlagsStay(s, t)
  BY <1>3 DEF FlagsStay
<1>10. ResultsOnScreen(t, scene)
  BY <1>3, <1>5 DEF Fits, OnScreen, ResultsOnScreen
<1> QED
  BY <1>1, <1>3, <1>4, <1>7, <1>8, <1>9, <1>10, SameLookFits DEF Fits, OnScreen

LEMMA AnalyzingFits ==
  ASSUME NEW s, NEW scene, Fits(s, scene)
  PROVE  Fits(Desk!Analyzing(s), scene)
<1> SUFFICES ASSUME Desk!Scored(s) # {}
             PROVE  Fits(Desk!Analyzing(s), scene)
  BY DEF Desk!Analyzing
<1> DEFINE new == [mode |-> s.mode, of |-> Desk!Restricted(s, s.mode), early |-> Desk!Unseen(s), ready |-> FALSE]
           t   == [s EXCEPT !.analysis = new]
<1>1. Desk!Analyzing(s) = t
  BY DEF Desk!Analyzing
<1>2. DOMAIN s = DeskFields
  BY DEF Fits, DeskShape
<1>3. DOMAIN new = {"mode", "of", "early", "ready"} /\ new.mode = s.mode
  OBVIOUS
<1> HIDE DEF new
<1>4. SameLook(s, t) /\ FlagsStay(s, t) /\ SameWork(s, t)
  BY <1>2 DEF SameLook, SameWork, FlagsStay, DeskFields
<1>5. DeskShape(t)
  BY <1>2, <1>3 DEF Fits, DeskShape, DeskFields
<1> QED
  BY <1>1, <1>4, <1>5, SameDeskFits

\* The desk's inductive invariant.
DeskInv == Fits(studio, screen) /\ packs \in Nat

LEMMA TaskEndsFits ==
  ASSUME NEW s, NEW scene, Fits(s, scene), NEW task \in {"preparing", "saving", "analysis"},
         s[task] # NotPolled
  PROVE  Fits([s EXCEPT ![task].ready = TRUE], scene)
<1> DEFINE t == [s EXCEPT ![task].ready = TRUE]
<1>1. DOMAIN s = DeskFields
  BY DEF Fits, DeskShape
<1>2. CASE task = "preparing"
  <2>1. SameWork(s, t) /\ FlagsStay(s, t)
    BY <1>1, <1>2 DEF SameWork, FlagsStay, DeskFields
  <2>2. DeskShape(t)
    BY <1>1, <1>2 DEF Fits, DeskShape, DeskFields
  <2>3. /\ t.mode = s.mode /\ t.doc = s.doc /\ t.prepared = s.prepared /\ t.showPrepared = s.showPrepared
        /\ t.sceneDirty = s.sceneDirty /\ t.preparing.of = s.preparing.of
    BY <1>1, <1>2 DEF Fits, DeskShape, DeskFields
  <2> HIDE DEF t
  <2>4. MeshesOfShown(t) /\ DocumentOnScreen(t, scene)
    BY <1>2, <2>3 DEF Fits, OnScreen, MeshesOfShown, DocumentOnScreen, Desk!Shown
  <2>5. Fits(t, scene)
    BY <2>1, <2>2, <2>4, SameWorkFits, SameResultsFit DEF Fits, OnScreen
  <2> QED
    BY <2>5 DEF t
<1>3. CASE task # "preparing"
  <2>1. SameLook(s, t) /\ SameWork(s, t) /\ FlagsStay(s, t)
    BY <1>1, <1>3 DEF SameLook, SameWork, FlagsStay, DeskFields
  <2>2. DeskShape(t)
    BY <1>1, <1>3 DEF Fits, DeskShape, DeskFields
  <2> HIDE DEF t
  <2>3. Fits(t, scene)
    BY <2>1, <2>2, SameDeskFits
  <2> QED
    BY <2>3 DEF t
<1> QED
  BY <1>2, <1>3

LEMMA TaskEndsKeeps ==
  ASSUME DeskInv, NEW task \in {"preparing", "saving", "analysis"}, Desk!TaskEnds(task)
  PROVE  DeskInv'
<1>1. studio[task] # NotPolled /\ studio' = [studio EXCEPT ![task].ready = TRUE]
      /\ screen' = screen /\ packs' = packs
  BY DEF Desk!TaskEnds
<1> QED
  BY <1>1, TaskEndsFits DEF DeskInv

\* What a job delivers is news, and nothing of its mode is offered.
LEMMA JobDeliversKeeps ==
  ASSUME DeskInv, Desk!JobDelivers
  PROVE  DeskInv'
<1> DEFINE old == studio.job
<1>1. Desk!JobRunning(studio) /\ DOMAIN studio = DeskFields /\ screen' = screen /\ packs \in Nat
  BY DEF Desk!JobDelivers, DeskInv, Fits, DeskShape
<1>2. /\ old \in DeskJobs /\ old.mode \in Desk!Modes
      /\ \A i \in DOMAIN old.items : old.items[i] \in Desk!KeysOf(old.mode)
      /\ \A i \in DOMAIN old.finished : old.finished[i].key \in Desk!KeysOf(old.mode)
  BY <1>1 DEF Desk!JobRunning, DeskInv, Fits, DeskShape, JobOfItsMode, DeskJobs, Desk!Modes
<1> DEFINE next == Len(old.finished) + 1
           got  == [key |-> old.items[next], pack |-> packs + 1]
<1>3. PICK job : /\ studio' = [studio EXCEPT !.job = job]
                 /\ packs' \in Nat /\ job \in DeskJobs
                 /\ job.mode = old.mode /\ job.items = old.items /\ job.news
                 /\ \A i \in DOMAIN job.finished : job.finished[i].key \in Desk!KeysOf(old.mode)
  <2>1. CASE /\ studio' = [studio EXCEPT !.job = [[old EXCEPT !.working = TRUE] EXCEPT !.news = TRUE]]
             /\ packs' = packs
    <3> DEFINE job == [[old EXCEPT !.working = TRUE] EXCEPT !.news = TRUE]
    <3>1. /\ job \in DeskJobs /\ job.mode = old.mode /\ job.items = old.items /\ job.news
          /\ job.finished = old.finished
      BY <1>2 DEF DeskJobs
    <3>2. studio' = [studio EXCEPT !.job = job]
      BY <2>1
    <3> HIDE DEF job
    <3> QED
      BY <1>1, <1>2, <2>1, <3>1, <3>2
  <2>2. CASE /\ studio' = [studio EXCEPT !.job = [[old EXCEPT !.running = FALSE] EXCEPT !.news = TRUE]]
             /\ packs' = packs
    <3> DEFINE job == [[old EXCEPT !.running = FALSE] EXCEPT !.news = TRUE]
    <3>1. /\ job \in DeskJobs /\ job.mode = old.mode /\ job.items = old.items /\ job.news
          /\ job.finished = old.finished
      BY <1>2 DEF DeskJobs
    <3>2. studio' = [studio EXCEPT !.job = job]
      BY <2>2
    <3> HIDE DEF job
    <3> QED
      BY <1>1, <1>2, <2>2, <3>1, <3>2
  <2>3. CASE /\ next <= Len(old.items) /\ packs' = packs + 1
             /\ studio' = [studio EXCEPT !.job =
                  [[old EXCEPT !.working = FALSE, !.finished = Append(@, got)] EXCEPT !.news = TRUE]]
    <3> DEFINE job == [[old EXCEPT !.working = FALSE, !.finished = Append(@, got)] EXCEPT !.news = TRUE]
    <3>1. /\ next \in DOMAIN old.items
          /\ old.finished \in Seq([key : {ObjectKey} \cup Range(DeskKeys), pack : Nat])
          /\ old.items \in Seq({ObjectKey} \cup Range(DeskKeys))
      BY <1>2, <2>3 DEF DeskJobs
    <3>2. got \in [key : {ObjectKey} \cup Range(DeskKeys), pack : Nat] /\ got.key \in Desk!KeysOf(old.mode)
      BY <1>1, <1>2, <3>1
    <3> HIDE DEF got, next
    <3>3. /\ Append(old.finished, got) \in Seq([key : {ObjectKey} \cup Range(DeskKeys), pack : Nat])
          /\ \A i \in DOMAIN Append(old.finished, got) :
               Append(old.finished, got)[i].key \in Desk!KeysOf(old.mode)
      BY <1>2, <3>1, <3>2
    <3>4. job \in DeskJobs /\ job.finished = Append(old.finished, got)
          /\ job.mode = old.mode /\ job.items = old.items /\ job.news
      BY <1>2, <3>3 DEF DeskJobs
    <3> HIDE DEF job
    <3>5. studio' = [studio EXCEPT !.job = job]
      BY <2>3 DEF job
    <3>6. packs' \in Nat
      BY <1>1, <2>3
    <3> QED
      BY <3>3, <3>4, <3>5, <3>6
  <2> QED
    BY <2>1, <2>2, <2>3 DEF Desk!JobDelivers
<1> DEFINE t == [studio EXCEPT !.job = job]
<1>4. /\ DOMAIN t = DeskFields /\ t.job = job
      /\ t.results = studio.results /\ t.version = studio.version /\ t.seen = studio.seen
      /\ t.quality = studio.quality /\ t.analysis = studio.analysis /\ t.row = studio.row
      /\ t.loading = studio.loading /\ t.assembled = studio.assembled
      /\ SameLook(studio, t) /\ t.sceneDirty = studio.sceneDirty /\ t.spheresDirty = studio.spheresDirty
  BY <1>1 DEF DeskFields, SameLook
<1> HIDE DEF t
<1>5. DeskShape(t)
  BY <1>3, <1>4 DEF DeskInv, Fits, DeskShape, SameLook
<1>6. JobOfItsMode(t)
  BY <1>2, <1>3, <1>4 DEF JobOfItsMode
<1>7. Desk!Unseen(t)
  <2>1. job # NotPolled
    BY <1>3, DeskAssumption
  <2> QED
    BY <1>3, <1>4, <2>1 DEF Desk!Unseen
<1>8. Offered(t)
  <2>1. \A m : SameOffer(studio, t, m)
    BY <1>4 DEF SameOffer
  <2>2. NoneOf(t, t.job.mode)
    BY <1>1, <1>3, <1>4 DEF DeskInv, Fits, Offered, NoneOf
  <2> QED
    BY <2>1, <2>2, OffersFit DEF DeskInv, Fits
<1>9. Signed(t, screen)
  BY <1>4 DEF DeskInv, Fits, OnScreen, Signed
<1>10. MeshesOfShown(t) /\ DocumentOnScreen(t, screen)
  BY <1>4, SameLookFits DEF FlagsStay, DeskInv
<1>11. ResultsOnScreen(t, screen)
  BY <1>7 DEF ResultsOnScreen
<1>12. Fits(t, screen)
  BY <1>5, <1>6, <1>8, <1>9, <1>10, <1>11 DEF Fits, OnScreen
<1>13. studio' = t
  BY <1>3 DEF t
<1> QED
  BY <1>1, <1>3, <1>12, <1>13 DEF DeskInv

LEMMA LoadEndsKeeps ==
  ASSUME DeskInv, Desk!LoadEnds
  PROVE  DeskInv'
<1>1. PICK task : /\ studio' = [studio EXCEPT !.loading = task]
                  /\ task.mode \in Desk!Modes \cup {NotPolled}
  <2>1. PICK m \in Desk!Modes \cup {NotPolled}, broken \in {{}} \cup {{k} : k \in Desk!LinkKeys} :
          studio' = [studio EXCEPT !.loading = [mode |-> m, doc |-> loads, broken |-> broken, ready |-> TRUE]]
    BY DEF Desk!LoadEnds
  <2> DEFINE task == [mode |-> m, doc |-> loads, broken |-> broken, ready |-> TRUE]
  <2>2. task.mode = m
    OBVIOUS
  <2> HIDE DEF task
  <2>3. studio' = [studio EXCEPT !.loading = task]
    BY <2>1 DEF task
  <2> QED
    BY <2>2, <2>3
<1>2. DOMAIN studio = DeskFields /\ screen' = screen /\ packs' = packs
  BY DEF Desk!LoadEnds, DeskInv, Fits, DeskShape
<1> DEFINE t == [studio EXCEPT !.loading = task]
<1>3. SameLook(studio, t) /\ SameWork(studio, t) /\ FlagsStay(studio, t)
  BY <1>2 DEF SameLook, SameWork, FlagsStay, DeskFields
<1>4. DeskShape(t)
  BY <1>1, <1>2 DEF DeskInv, Fits, DeskShape, DeskFields
<1> HIDE DEF t
<1>5. Fits(t, screen)
  BY <1>3, <1>4, SameDeskFits DEF DeskInv
<1>6. studio' = t
  BY <1>1 DEF t
<1> QED
  BY <1>2, <1>5, <1>6 DEF DeskInv

LEMMA PollKeeps ==
  ASSUME DeskInv, Desk!Poll
  PROVE  DeskInv'
<1>1. PICK valid \in BOOLEAN :
        studio' = Desk!PollJob(Desk!PollQuality(Desk!PollLoading(Desk!PollPrepared(studio), valid)))
  BY DEF Desk!Poll
<1>2. screen' = screen /\ packs' = packs
  BY DEF Desk!Poll
<1>3. Fits(Desk!PollLoading(Desk!PollPrepared(studio), valid), screen)
  BY PollPreparedFits, PollLoadingFits DEF DeskInv
<1> QED
  BY <1>1, <1>2, <1>3, PollQualityFits, PollJobFits DEF DeskInv

\* A click keeps the invariant when the studio it leaves fits the screen.
LEMMA ClickKeeps ==
  ASSUME DeskInv, NEW new, Desk!Click(new), Fits(new, screen)
  PROVE  DeskInv'
BY DEF Desk!Click, DeskInv

LEMMA WorkClicksKeep ==
  ASSUME DeskInv, Desk!Pack \/ Desk!Clear \/ Desk!Assemble \/ Desk!Analyze
  PROVE  DeskInv'
<1>1. CASE Desk!Pack
  BY <1>1, StartPackFits, ClickKeeps DEF Desk!Pack, DeskInv
<1>2. CASE Desk!Clear
  BY <1>2, ClearResultsFits, ClickKeeps DEF Desk!Clear, DeskInv
<1>3. CASE Desk!Assemble
  BY <1>3, AssembledFits, ClickKeeps DEF Desk!Assemble, DeskInv
<1>4. CASE Desk!Analyze
  BY <1>4, AnalyzingFits, ClickKeeps DEF Desk!Analyze, DeskInv
<1> QED
  BY <1>1, <1>2, <1>3, <1>4

LEMMA LookClicksKeep ==
  ASSUME DeskInv, Desk!LookClicks
  PROVE  DeskInv'
<1>1. DOMAIN studio = DeskFields /\ Fits(studio, screen)
  BY DEF DeskInv, Fits, DeskShape
<1>2. CASE Desk!PickMode
  BY <1>1, <1>2, SetModeFits, ClickKeeps DEF Desk!PickMode
<1>3. ASSUME NEW t, Desk!Click(t), DeskShape(t),
             SameLook(studio, t), SameWork(studio, t), FlagsStay(studio, t)
      PROVE  DeskInv'
  BY <1>1, <1>3, SameDeskFits, ClickKeeps
<1>4. CASE Desk!Open
  <2> DEFINE t == [studio EXCEPT !.loading = [ready |-> FALSE]]
  <2>1. SameLook(studio, t) /\ SameWork(studio, t) /\ FlagsStay(studio, t)
    BY <1>1 DEF SameLook, SameWork, FlagsStay, DeskFields
  <2>2. DeskShape(t)
    BY <1>1 DEF Fits, DeskShape, DeskFields, Desk!Ready
  <2> QED
    BY <1>3, <1>4, <2>1, <2>2 DEF Desk!Open
<1>5. CASE Desk!SelectRow
  <2>1. PICK k \in Desk!LinkKeys \cup {NoKey} : Desk!Click([studio EXCEPT !.row = k])
    BY <1>5 DEF Desk!SelectRow
  <2> DEFINE t == [studio EXCEPT !.row = k]
  <2>2. SameLook(studio, t) /\ SameWork(studio, t) /\ FlagsStay(studio, t)
    BY <1>1 DEF SameLook, SameWork, FlagsStay, DeskFields
  <2>3. DeskShape(t)
    BY <1>1 DEF Fits, DeskShape, DeskFields
  <2> QED
    BY <1>3, <2>1, <2>2, <2>3
<1>6. CASE Desk!SetOptions
  <2>1. PICK o : Desk!Click([studio EXCEPT !.options = o])
    BY <1>6 DEF Desk!SetOptions
  <2> DEFINE t == [studio EXCEPT !.options = o]
  <2>2. SameLook(studio, t) /\ SameWork(studio, t) /\ FlagsStay(studio, t)
    BY <1>1 DEF SameLook, SameWork, FlagsStay, DeskFields
  <2>3. DeskShape(t)
    BY <1>1 DEF Fits, DeskShape, DeskFields
  <2> QED
    BY <1>3, <2>1, <2>2, <2>3
<1>7. CASE Desk!ShowPrepared
  <2> DEFINE t == [studio EXCEPT !.showPrepared = ~@, !.sceneDirty = TRUE]
  <2>1. SameWork(studio, t) /\ FlagsStay(studio, t)
    BY <1>1 DEF SameWork, FlagsStay, DeskFields
  <2>2. DeskShape(t)
    BY <1>1 DEF Fits, DeskShape, DeskFields
  <2>3. MeshesOfShown(t) /\ DocumentOnScreen(t, screen)
    BY <1>1 DEF Fits, OnScreen, MeshesOfShown, DocumentOnScreen, Desk!Shown, DeskFields
  <2>4. Desk!Click(t)
    BY <1>7 DEF Desk!ShowPrepared
  <2> HIDE DEF t
  <2> QED
    BY <1>1, <2>1, <2>2, <2>3, <2>4, SameWorkFits, SameResultsFit, ClickKeeps DEF Fits, OnScreen
<1>8. CASE Desk!SavePrepared
  <2> DEFINE t == [studio EXCEPT !.saving = [ready |-> FALSE]]
  <2>1. SameLook(studio, t) /\ SameWork(studio, t) /\ FlagsStay(studio, t)
    BY <1>1 DEF SameLook, SameWork, FlagsStay, DeskFields
  <2>2. DeskShape(t)
    BY <1>1 DEF Fits, DeskShape, DeskFields
  <2> QED
    BY <1>3, <1>8, <2>1, <2>2 DEF Desk!SavePrepared
<1> QED
  BY <1>2, <1>4, <1>5, <1>6, <1>7, <1>8 DEF Desk!LookClicks

\* Drawing rebuilds and refills what the flags ask for: a group keeps its
\* spheres only under the signature of the results.
LEMMA DrawKeeps ==
  ASSUME DeskInv, Desk!Draw
  PROVE  DeskInv'
<1> DEFINE s     == studio
           t     == [s EXCEPT !.sceneDirty = FALSE, !.spheresDirty = FALSE]
           dirty == s.sceneDirty \/ s.spheresDirty
           scene == IF s.sceneDirty THEN Desk!Rebuilt(s) ELSE screen
           now   == IF dirty
                    THEN [scene EXCEPT !.groups =
                            [k \in DOMAIN @ |-> Desk!UpdatedGroup(s, k, @[k])]]
                    ELSE scene
<1>1. studio' = t /\ screen' = now /\ packs' = packs
  BY DEF Desk!Draw
<1>2. Fits(s, screen) /\ DOMAIN s = DeskFields /\ s.version \in Nat /\ s.version >= 1
      /\ s.sceneDirty \in BOOLEAN /\ s.spheresDirty \in BOOLEAN
  BY DEF DeskInv, Fits, DeskShape
<1>3. /\ DOMAIN t = DeskFields /\ SameWork(s, t) /\ SameLook(s, t)
      /\ t.analysis = s.analysis /\ t.row = s.row /\ t.loading = s.loading
      /\ t.sceneDirty = FALSE /\ t.spheresDirty = FALSE
  BY <1>2 DEF DeskFields, SameWork, SameLook
<1> HIDE DEF t
<1>4. DeskShape(t)
  BY <1>2, <1>3 DEF Fits, DeskShape, SameWork, SameLook
<1>5. JobOfItsMode(t) /\ Offered(t) /\ MeshesOfShown(t)
  BY <1>2, <1>3, SameWorkFits DEF Fits, OnScreen, MeshesOfShown, SameLook, Desk!Shown
<1>6. /\ DOMAIN scene = {"shown", "mesh", "groups"}
      /\ scene.shown = Desk!Shown(s)
      /\ scene.mesh # NotPolled => s.showPrepared /\ scene.mesh.of = Desk!Shown(s)
      /\ s.showPrepared => scene.mesh = s.prepared
  BY <1>2 DEF Fits, OnScreen, Signed, DocumentOnScreen, MeshesOfShown, Desk!Rebuilt, Desk!ShownMesh
<1>7. \A k \in DOMAIN scene.groups :
        /\ k \in Desk!Keys
        /\ scene.groups[k].signature \in Int /\ scene.groups[k].signature <= s.version
        /\ scene.groups[k].signature = 0 => scene.groups[k].spheres = 0
        /\ scene.groups[k].signature = s.version /\ s.results[k] # 0 => scene.groups[k].spheres = s.results[k]
  <2>1. CASE s.sceneDirty
    <3>1. scene.groups = [k \in Desk!Groups(s) |-> [signature |-> -2, spheres |-> 0]]
      BY <2>1 DEF Desk!Rebuilt
    <3>2. Desk!Groups(s) \subseteq Desk!Keys
      BY DEF Desk!Groups, Desk!Keys
    <3> QED
      BY <1>2, <3>1, <3>2
  <2>2. CASE ~s.sceneDirty
    BY <1>2, <2>2 DEF Fits, OnScreen, Signed
  <2> QED
    BY <2>1, <2>2
<1> HIDE DEF scene
<1>8. /\ DOMAIN now = {"shown", "mesh", "groups"} /\ now.shown = scene.shown /\ now.mesh = scene.mesh
      /\ DOMAIN now.groups = DOMAIN scene.groups
      /\ \A k \in DOMAIN scene.groups :
           now.groups[k] = IF dirty THEN Desk!UpdatedGroup(s, k, scene.groups[k]) ELSE scene.groups[k]
  BY <1>6
<1> HIDE DEF now
<1>9. ASSUME NEW k \in DOMAIN scene.groups
      PROVE  LET g == Desk!UpdatedGroup(s, k, scene.groups[k]) IN
             /\ g.signature \in Int /\ g.signature <= s.version
             /\ g.signature = 0 => g.spheres = 0
             /\ g.signature = s.version /\ s.results[k] # 0 => g.spheres = s.results[k]
             /\ ~Desk!JobRunning(s) => g.spheres = s.results[k]
  <2>1. CASE Desk!IsLive(s, k)
    BY <1>2, <1>7, <2>1 DEF Desk!UpdatedGroup, Desk!SpheresFor, Desk!IsLive
  <2>2. CASE ~Desk!IsLive(s, k)
    <3>1. Desk!SpheresFor(s, k) =
            [signature |-> IF s.results[k] = 0 THEN 0 ELSE s.version, spheres |-> s.results[k]]
      BY <2>2 DEF Desk!SpheresFor
    <3> QED
      BY <1>2, <1>7, <3>1 DEF Desk!UpdatedGroup
  <2> QED
    BY <2>1, <2>2
<1>10. DocumentOnScreen(t, now)
  BY <1>3, <1>6, <1>8 DEF DocumentOnScreen, SameLook, Desk!Shown
<1>11. Signed(t, now)
  BY <1>3, <1>7, <1>8, <1>9 DEF Signed, SameWork
<1>12. ResultsOnScreen(t, now)
  <2>1. CASE dirty
    BY <1>3, <1>8, <1>9, <2>1 DEF ResultsOnScreen, SameWork, Desk!JobRunning
  <2>2. CASE ~dirty
    <3>1. scene = screen
      BY <2>2 DEF scene
    <3> QED
      BY <1>2, <1>3, <1>8, <2>2, <3>1 DEF Fits, OnScreen, ResultsOnScreen, SameWork, Desk!JobRunning, Desk!Unseen
  <2> QED
    BY <2>1, <2>2
<1>13. Fits(t, now)
  BY <1>4, <1>5, <1>10, <1>11, <1>12 DEF Fits, OnScreen
<1> QED
  BY <1>1, <1>13 DEF DeskInv

LEMMA DeskInvInit == Desk!Init => DeskInv
<1> SUFFICES ASSUME Desk!Init
             PROVE  DeskInv
  OBVIOUS
<1> DEFINE d == Desk!Default
<1>1. /\ DOMAIN d = DeskFields
      /\ d.mode = "object" /\ d.doc = [m \in Desk!Modes |-> 0] /\ d.row = NoKey
      /\ d.results = [k \in Desk!Keys |-> 0] /\ d.version = 1 /\ d.assembled = NotPolled
      /\ d.quality = [m \in Desk!Modes |-> NotPolled] /\ d.analysis = NotPolled
      /\ d.showPrepared = FALSE /\ d.prepared = NotPolled /\ d.preparing = NotPolled
      /\ d.job = NotPolled /\ d.seen = 0 /\ d.loading = NotPolled
      /\ d.sceneDirty = FALSE /\ d.spheresDirty = FALSE
  BY DEF Desk!Default, Desk!Nothing, DeskFields
<1>2. screen = [shown |-> Desk!Shown(d), mesh |-> NotPolled, groups |-> <<>>] /\ packs = 0
  BY DEF Desk!Init, Desk!Empty
<1> HIDE DEF d
<1>3. Fits(d, screen)
  <2>1. DeskShape(d)
    <3>1. "object" \in Desk!Modes
      BY DEF Desk!Modes
    <3>2. ~Desk!Ready(d.loading)
      BY <1>1 DEF Desk!Ready
    <3>3. DOMAIN d.doc = Desk!Modes /\ DOMAIN d.quality = Desk!Modes /\ DOMAIN d.results = Desk!Keys
      BY <1>1
    <3>4. d.sceneDirty \in BOOLEAN /\ d.spheresDirty \in BOOLEAN /\ d.showPrepared \in BOOLEAN
      BY <1>1
    <3>5. d.version \in Nat /\ d.version >= 1 /\ d.seen \in Nat
      BY <1>1
    <3> QED
      BY <1>1, <3>1, <3>2, <3>3, <3>4, <3>5 DEF DeskShape
  <2>2. JobOfItsMode(d) /\ Offered(d)
    BY <1>1 DEF JobOfItsMode, Offered, Desk!JobRunning, Desk!Unseen
  <2>3. OnScreen(d, screen)
    BY <1>1, <1>2 DEF OnScreen, MeshesOfShown, DocumentOnScreen, ResultsOnScreen, Signed
  <2> QED
    BY <2>1, <2>2, <2>3 DEF Fits
<1>4. PICK s, next, task :
        /\ studio = [s EXCEPT !.packNext = next, !.loading = task]
        /\ ~Desk!Ready(task) /\ Fits(s, screen)
  <2>1. PICK example \in Desk!Modes \cup {NotPolled}, asked1 \in BOOLEAN :
          LET s == IF example = "robot" THEN Desk!SetMode(d, "robot") ELSE d IN
            studio = [s EXCEPT !.packNext = asked1,
                               !.loading = IF example = NotPolled THEN NotPolled ELSE [ready |-> FALSE]]
    BY DEF Desk!Init, d
  <2>2. Fits(Desk!SetMode(d, "robot"), screen)
    BY <1>3, SetModeFits DEF Desk!Modes
  <2>3. ~Desk!Ready(IF example = NotPolled THEN NotPolled ELSE [ready |-> FALSE])
    BY DEF Desk!Ready
  <2> QED
    BY <1>3, <2>1, <2>2, <2>3
<1> DEFINE t == [s EXCEPT !.packNext = next, !.loading = task]
<1>5. DOMAIN s = DeskFields
  BY <1>4 DEF Fits, DeskShape
<1>6. SameLook(s, t) /\ SameWork(s, t) /\ FlagsStay(s, t)
  BY <1>5 DEF SameLook, SameWork, FlagsStay, DeskFields
<1>7. DeskShape(t)
  BY <1>4, <1>5 DEF Fits, DeskShape, DeskFields
<1>8. Fits(t, screen)
  BY <1>4, <1>6, <1>7, SameDeskFits
<1> QED
  BY <1>2, <1>4, <1>8 DEF DeskInv

LEMMA DeskInvNext == DeskInv /\ [StudioNext]_<<topic, vars, deskVars>> => DeskInv'
<1> SUFFICES ASSUME DeskInv, [StudioNext]_<<topic, vars, deskVars>>
             PROVE  DeskInv'
  OBVIOUS
<1>1. CASE UNCHANGED deskVars
  BY <1>1 DEF deskVars, DeskInv
<1>2. CASE Desk!Frames
  BY <1>2, PollKeeps, DrawKeeps DEF Desk!Frames
<1>3. CASE Desk!Tasks
  BY <1>3, LoadEndsKeeps, JobDeliversKeeps, TaskEndsKeeps DEF Desk!Tasks
<1>4. CASE Desk!LookClicks
  BY <1>4, LookClicksKeep
<1>5. CASE Desk!WorkClicks
  BY <1>5, LookClicksKeep, WorkClicksKeep DEF Desk!WorkClicks, Desk!LookClicks
<1> QED
  BY <1>1, <1>2, <1>3, <1>4, <1>5 DEF StudioNext

LEMMA SpecKeepsDeskInv == StudioSpec => []DeskInv
<1>1. StudioInit => DeskInv
  BY DeskInvInit DEF StudioInit
<1> QED
  BY <1>1, DeskInvNext, PTL DEF StudioSpec

(***************************************************************************)
(* Unless a flag promises a redraw, the scene shows the document on show,  *)
(* its own meshes and, once a job is over and polled, its own results      *)
(* (scene.rs, rebuild and update_spheres; state.rs, poll).                 *)
(***************************************************************************)
THEOREM ScreenIsAlwaysCurrent == StudioSpec => []ScreenIsCurrent
<1>1. DeskInv => ScreenIsCurrent
  BY DEF DeskInv, Fits, OnScreen, DocumentOnScreen, ResultsOnScreen, ScreenIsCurrent, Desk!ScreenIsCurrent
<1> QED
  BY <1>1, SpecKeepsDeskInv, PTL

(***************************************************************************)
(* The spherical URDF on offer and the scores are of the results shown,    *)
(* but for those asked for before the last packs were picked up and scores *)
(* that arrived late (state.rs, start_pack, clear_results, opened).        *)
(***************************************************************************)
THEOREM OffersAreAlwaysCurrent == StudioSpec => []OffersAreCurrent
<1>1. DeskInv => OffersAreCurrent
  BY DEF DeskInv, Fits, Offered, OffersAreCurrent, Desk!OffersAreCurrent
<1> QED
  BY <1>1, SpecKeepsDeskInv, PTL
=============================================================================
