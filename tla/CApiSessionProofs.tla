------------------------- MODULE CApiSessionProofs -------------------------
(***************************************************************************)
(* What the C API guarantees for any number of host threads, calls and     *)
(* iterations: mutual exclusion around the session, a single run, current  *)
(* snapshots, prompt cancels, no use after release, and that readers watch *)
(* SessionProgress.                                                        *)
(*                                                                         *)
(* The invariant is built in layers, each lemma citing only the layers     *)
(* below it: where a call may be (Places), who holds the mutex (Excludes), *)
(* which run is active (OneRun), that a release is alone (FreeAlone), what *)
(* the snapshot says of the session (Published), and how far a cancelled   *)
(* run may still go (Overrun).                                             *)
(***************************************************************************)
EXTENDS CApiSession, SessionProofs

Types == TypeOK /\ inner.spheres # <<>>

\* Where in its code each call can be.
Places ==
  \A t \in Threads :
    /\ op[t] = "none" <=> pc[t] = "idle"
    /\ op[t] = "run" => pc[t] \in {"check", "lock", "train", "publish", "unlock",
                                   "callback", "clear", "leave"}
    /\ op[t] = "ending" => pc[t] \in {"finalLock", "prune", "publish", "unlock",
                                      "clear", "leave"}
    /\ op[t] = "step" => pc[t] \in {"lock", "train", "publish", "unlock"}
    /\ op[t] = "finalize" => pc[t] \in {"finalLock", "prune", "publish", "unlock"}
    /\ op[t] = "free" <=> pc[t] = "release"

Excludes == \A t \in Threads : Locked(t) <=> lock = t

\* A release is the only call in flight, and nothing follows it.
FreeAlone ==
  /\ \A t \in Threads : op[t] = "free" =>
       /\ ~running
       /\ ~freed
       /\ \A u \in Threads \ {t} : op[u] = "none"
  /\ freed => \A t \in Threads : op[t] = "none"

\* The published snapshot is the session's view except while the holder of
\* the mutex has trained or pruned and not yet published.
Published ==
  /\ torn = poisoned
  /\ poisoned => lock = NoThread
  /\ ~poisoned /\ lock = NoThread => snapshot = SnapshotOf(inner)
  /\ \A t \in Threads :
       /\ pc[t] \in {"train", "prune", "unlock"} => snapshot = SnapshotOf(inner)
       /\ pc[t] = "train" => ~IsDone(inner)
       /\ pc[t] = "publish" =>
            \/ SnapshotOf(inner) = snapshot
            \/ Advances(snapshot, SnapshotOf(inner))
            \/ Prunes(snapshot, SnapshotOf(inner))

\* A cancelled run has trained past the request only if it is on its way to
\* the next look at the flag.
Overrun ==
  /\ overrun \in {0, 1}
  /\ overrun # 0 =>
       /\ cancel
       /\ \E t \in Threads : /\ op[t] = "run"
                             /\ pc[t] \in {"publish", "unlock", "callback",
                                           "check", "clear"}
-----------------------------------------------------------------------------
\* What Snapshot::of copies of a session is a snapshot.
LEMMA SnapshotType ==
  ASSUME NEW s \in Sessions
  PROVE  SnapshotOf(s) \in Snapshots
<1>1. Len(s.spheres) \in Nat
  BY LenProperties DEF Sessions
<1> QED
  BY <1>1 DEF SnapshotOf, ViewOf, Snapshots, Sessions

(***************************************************************************)
(* Every variable keeps its type.                                          *)
(***************************************************************************)
LEMMA TypesNext ==
  ASSUME Types, [Next]_vars
  PROVE  Types'
<1> USE ApiAssumption DEF Types, TypeOK, Labels, shared, control, history
<1>1. CASE UNCHANGED vars
  BY <1>1 DEF vars
<1>2. ASSUME NEW t \in Threads, Cancel(t)
      PROVE  Types'
  BY <1>2 DEF Cancel, Call, RequestCancel
<1>3. ASSUME NEW t \in Threads, Run(t)
      PROVE  Types'
  <2>1. running' \in BOOLEAN
    BY <1>3 DEF Run, Call, Enters, Goto, Returns
  <2>2. fresh' \in BOOLEAN
    BY <1>3 DEF Run, Call, Enters, Goto, Returns
  <2>3. pc' \in [Threads -> Labels]
    BY <1>3 DEF Run, Call, Enters, Goto, Returns
  <2>4. op' \in [Threads -> {"none", "run", "ending", "step", "finalize", "free"}]
    BY <1>3 DEF Run, Call, Enters, Goto, Returns
  <2>5. status' \in [Threads -> {"none", "ok", "done", "busy", "cancelled", "errState", "panic"}]
    BY <1>3 DEF Run, Call, Enters, Goto, Returns
  <2>6. calls' \in [Threads -> 0..MaxCalls]
    BY <1>3 DEF Run, Call, Enters, Goto, Returns
  <2>7. UNCHANGED <<inner, torn, lock, poisoned, snapshot, cancel, freed, overrun>>
    BY <1>3 DEF Run, Call, Enters, Goto, Returns
  <2> QED
    BY <2>1, <2>2, <2>3, <2>4, <2>5, <2>6, <2>7
<1>4. ASSUME NEW t \in Threads, NEW name \in {"step", "finalize"}, Mutate(t, name)
      PROVE  Types'
  <2>1. EntryPoint[name] \in Labels
    BY DEF EntryPoint
  <2>2. pc' \in [Threads -> Labels]
    BY <1>4, <2>1 DEF Mutate, Call, Enters, Goto, Returns
  <2>3. op' \in [Threads -> {"none", "run", "ending", "step", "finalize", "free"}]
    BY <1>4, <2>1 DEF Mutate, Call, Enters, Goto, Returns
  <2>4. status' \in [Threads -> {"none", "ok", "done", "busy", "cancelled", "errState", "panic"}]
    BY <1>4, <2>1 DEF Mutate, Call, Enters, Goto, Returns
  <2>5. calls' \in [Threads -> 0..MaxCalls]
    BY <1>4, <2>1 DEF Mutate, Call, Enters, Goto, Returns
  <2>6. UNCHANGED <<shared, history>>
    BY <1>4 DEF Mutate, Call, Enters, Goto, Returns
  <2> QED
    BY <2>2, <2>3, <2>4, <2>5, <2>6
<1>5. ASSUME NEW t \in Threads, Free(t)
      PROVE  Types'
  <2>1. EntryPoint["free"] \in Labels
    BY DEF EntryPoint
  <2>2. pc' \in [Threads -> Labels]
    BY <1>5, <2>1 DEF Free, Mutate, Call, Enters, Goto, Returns
  <2>3. op' \in [Threads -> {"none", "run", "ending", "step", "finalize", "free"}]
    BY <1>5, <2>1 DEF Free, Mutate, Call, Enters, Goto, Returns
  <2>4. status' \in [Threads -> {"none", "ok", "done", "busy", "cancelled", "errState", "panic"}]
    BY <1>5, <2>1, SMTT(30) DEF Free, Mutate, Call, Enters, Goto, Returns
  <2>5. calls' \in [Threads -> 0..MaxCalls]
    BY <1>5, <2>1 DEF Free, Mutate, Call, Enters, Goto, Returns
  <2>6. UNCHANGED <<shared, history>>
    BY <1>5 DEF Free, Mutate, Call, Enters, Goto, Returns
  <2> QED
    BY <2>2, <2>3, <2>4, <2>5, <2>6
<1>6. ASSUME NEW t \in Threads, CheckCancel(t)
      PROVE  Types'
  <2>1. cancel' \in BOOLEAN
    BY <1>6 DEF CheckCancel, Goto
  <2>2. overrun' \in Nat
    BY <1>6 DEF CheckCancel, Goto
  <2>3. pc' \in [Threads -> Labels]
    BY <1>6 DEF CheckCancel, Goto
  <2>4. status' \in [Threads -> {"none", "ok", "done", "busy", "cancelled", "errState", "panic"}]
    BY <1>6 DEF CheckCancel, Goto
  <2>5. UNCHANGED <<inner, torn, lock, poisoned, snapshot, running, freed, op, calls, fresh>>
    BY <1>6 DEF CheckCancel, Goto
  <2> QED
    BY <2>1, <2>2, <2>3, <2>4, <2>5
<1>7. ASSUME NEW t \in Threads, LockForStep(t)
      PROVE  Types'
  BY <1>7 DEF LockForStep, LockFails, Enters, Goto, Returns, Running
<1>8. ASSUME NEW t \in Threads, LockForFinalize(t)
      PROVE  Types'
  BY <1>8 DEF LockForFinalize, LockFails, Goto, Returns, Running
<1>9. ASSUME NEW t \in Threads, Train(t)
      PROVE  Types'
  <2>1. inner' \in StepResults(inner)
    BY <1>9 DEF Train
  <2>2. inner' \in Sessions /\ inner'.spheres # <<>>
    BY <2>1, StepFields
  <2> QED
    BY <1>9, <2>2 DEF Train, Goto
<1>10. ASSUME NEW t \in Threads, Prune(t)
      PROVE  Types'
  <2>1. inner' \in FinalizeResults(inner)
    BY <1>10 DEF Prune
  <2>2. inner' \in Sessions /\ inner'.spheres # <<>>
    BY <2>1, FinalizeFields
  <2> QED
    BY <1>10, <2>2 DEF Prune, Goto
<1>11. ASSUME NEW t \in Threads, Publish(t)
      PROVE  Types'
  <2>1. SnapshotOf(inner) \in Snapshots
    BY SnapshotType
  <2> QED
    BY <1>11, <2>1 DEF Publish, Goto
<1>12. ASSUME NEW t \in Threads, Unlock(t)
      PROVE  Types'
  BY <1>12 DEF Unlock, Goto, Returns, Running
<1>13. ASSUME NEW t \in Threads, CallbackReturns(t)
      PROVE  Types'
  BY <1>13 DEF CallbackReturns, Goto
<1>14. ASSUME NEW t \in Threads, ClearCancel(t)
      PROVE  Types'
  BY <1>14 DEF ClearCancel, Goto
<1>15. ASSUME NEW t \in Threads, LeaveRun(t)
      PROVE  Types'
  BY <1>15 DEF LeaveRun, Returns
<1>16. ASSUME NEW t \in Threads, Release(t)
      PROVE  Types'
  BY <1>16 DEF Release, Returns
<1>17. ASSUME NEW t \in Threads, Panic(t)
      PROVE  Types'
  BY <1>17 DEF Panic, Goto, Returns, Running
<1>18. ASSUME NEW t \in Threads, CallbackCancels(t)
      PROVE  Types'
  BY <1>18 DEF CallbackCancels, RequestCancel
<1> QED
  BY <1>1, <1>2, <1>3, <1>4, <1>5, <1>6, <1>7, <1>8, <1>9, <1>10, <1>11, <1>12, <1>13, <1>14, <1>15, <1>16, <1>17, <1>18 DEF Next, HostCalls, Continues

(***************************************************************************)
(* Every call stays in its own code.                                       *)
(***************************************************************************)
LEMMA PlacesNext ==
  ASSUME Types, Places, [Next]_vars
  PROVE  Places'
<1> USE ApiAssumption DEF Types, TypeOK, Places, shared, control, history
<1>1. CASE UNCHANGED vars
  BY <1>1 DEF vars
<1>2. ASSUME NEW t \in Threads, Cancel(t)
      PROVE  Places'
  BY <1>2 DEF Cancel, Call, RequestCancel
<1>3. ASSUME NEW t \in Threads, Run(t)
      PROVE  Places'
  BY <1>3 DEF Run, Call, Enters, Goto, Returns
<1>4. ASSUME NEW t \in Threads, NEW name \in {"step", "finalize"}, Mutate(t, name)
      PROVE  Places'
  BY <1>4 DEF Mutate, Call, Enters, Goto, Returns, EntryPoint
<1>5. ASSUME NEW t \in Threads, Free(t)
      PROVE  Places'
  BY <1>5 DEF Free, Mutate, Call, Enters, Goto, Returns, EntryPoint
<1>6. ASSUME NEW t \in Threads, CheckCancel(t)
      PROVE  Places'
  BY <1>6 DEF CheckCancel, Goto
<1>7. ASSUME NEW t \in Threads, LockForStep(t)
      PROVE  Places'
  BY <1>7 DEF LockForStep, LockFails, Enters, Goto, Returns, Running
<1>8. ASSUME NEW t \in Threads, LockForFinalize(t)
      PROVE  Places'
  <2>1. CASE LockFails(t)
    BY <1>8, <2>1 DEF LockForFinalize, LockFails, Goto, Returns, Running
  <2>2. CASE ~LockFails(t)
    BY <1>8, <2>2 DEF LockForFinalize, Goto
  <2> QED
    BY <2>1, <2>2
<1>9. ASSUME NEW t \in Threads, Train(t)
      PROVE  Places'
  BY <1>9 DEF Train, Goto
<1>10. ASSUME NEW t \in Threads, Prune(t)
      PROVE  Places'
  BY <1>10 DEF Prune, Goto
<1>11. ASSUME NEW t \in Threads, Publish(t)
      PROVE  Places'
  BY <1>11 DEF Publish, Goto
<1>12. ASSUME NEW t \in Threads, Unlock(t)
      PROVE  Places'
  BY <1>12, SMTT(30) DEF Unlock, Goto, Returns, Running
<1>13. ASSUME NEW t \in Threads, CallbackReturns(t)
      PROVE  Places'
  BY <1>13 DEF CallbackReturns, Goto
<1>14. ASSUME NEW t \in Threads, ClearCancel(t)
      PROVE  Places'
  BY <1>14 DEF ClearCancel, Goto
<1>15. ASSUME NEW t \in Threads, LeaveRun(t)
      PROVE  Places'
  BY <1>15 DEF LeaveRun, Returns
<1>16. ASSUME NEW t \in Threads, Release(t)
      PROVE  Places'
  BY <1>16 DEF Release, Returns
<1>17. ASSUME NEW t \in Threads, Panic(t)
      PROVE  Places'
  BY <1>17 DEF Panic, Goto, Returns, Running
<1>18. ASSUME NEW t \in Threads, CallbackCancels(t)
      PROVE  Places'
  BY <1>18 DEF CallbackCancels, RequestCancel
<1> QED
  BY <1>1, <1>2, <1>3, <1>4, <1>5, <1>6, <1>7, <1>8, <1>9, <1>10, <1>11, <1>12, <1>13, <1>14, <1>15, <1>16, <1>17, <1>18 DEF Next, HostCalls, Continues

(***************************************************************************)
(* The mutex excludes.                                                     *)
(***************************************************************************)
LEMMA ExcludesNext ==
  ASSUME Types, Excludes, [Next]_vars
  PROVE  Excludes'
<1> USE ApiAssumption DEF Types, TypeOK, Excludes, Locked, shared, control, history
<1>1. CASE UNCHANGED vars
  BY <1>1 DEF vars
<1>2. ASSUME NEW t \in Threads, Cancel(t)
      PROVE  Excludes'
  BY <1>2 DEF Cancel, Call, RequestCancel
<1>3. ASSUME NEW t \in Threads, Run(t)
      PROVE  Excludes'
  BY <1>3 DEF Run, Call, Enters, Goto, Returns
<1>4. ASSUME NEW t \in Threads, NEW name \in {"step", "finalize"}, Mutate(t, name)
      PROVE  Excludes'
  BY <1>4 DEF Mutate, Call, Enters, Goto, Returns, EntryPoint
<1>5. ASSUME NEW t \in Threads, Free(t)
      PROVE  Excludes'
  BY <1>5 DEF Free, Mutate, Call, Enters, Goto, Returns, EntryPoint
<1>6. ASSUME NEW t \in Threads, CheckCancel(t)
      PROVE  Excludes'
  BY <1>6 DEF CheckCancel, Goto
<1>7. ASSUME NEW t \in Threads, LockForStep(t)
      PROVE  Excludes'
  BY <1>7 DEF LockForStep, LockFails, Enters, Goto, Returns, Running
<1>8. ASSUME NEW t \in Threads, LockForFinalize(t)
      PROVE  Excludes'
  BY <1>8 DEF LockForFinalize, LockFails, Goto, Returns, Running
<1>9. ASSUME NEW t \in Threads, Train(t)
      PROVE  Excludes'
  BY <1>9 DEF Train, Goto
<1>10. ASSUME NEW t \in Threads, Prune(t)
      PROVE  Excludes'
  BY <1>10 DEF Prune, Goto
<1>11. ASSUME NEW t \in Threads, Publish(t)
      PROVE  Excludes'
  BY <1>11 DEF Publish, Goto
<1>12. ASSUME NEW t \in Threads, Unlock(t)
      PROVE  Excludes'
  BY <1>12 DEF Unlock, Goto, Returns, Running
<1>13. ASSUME NEW t \in Threads, CallbackReturns(t)
      PROVE  Excludes'
  BY <1>13 DEF CallbackReturns, Goto
<1>14. ASSUME NEW t \in Threads, ClearCancel(t)
      PROVE  Excludes'
  BY <1>14 DEF ClearCancel, Goto
<1>15. ASSUME NEW t \in Threads, LeaveRun(t)
      PROVE  Excludes'
  BY <1>15 DEF LeaveRun, Returns
<1>16. ASSUME NEW t \in Threads, Release(t)
      PROVE  Excludes'
  BY <1>16 DEF Release, Returns
<1>17. ASSUME NEW t \in Threads, Panic(t)
      PROVE  Excludes'
  BY <1>17 DEF Panic, Goto, Returns, Running
<1>18. ASSUME NEW t \in Threads, CallbackCancels(t)
      PROVE  Excludes'
  BY <1>18 DEF CallbackCancels, RequestCancel
<1> QED
  BY <1>1, <1>2, <1>3, <1>4, <1>5, <1>6, <1>7, <1>8, <1>9, <1>10, <1>11, <1>12, <1>13, <1>14, <1>15, <1>16, <1>17, <1>18 DEF Next, HostCalls, Continues

(***************************************************************************)
(* One run at a time, marked until its end.                                *)
(***************************************************************************)
LEMMA OneRunNext ==
  ASSUME Types, Places, OneRun, [Next]_vars
  PROVE  OneRun'
<1> USE ApiAssumption DEF Types, TypeOK, Places, OneRun, Running, shared, control, history
<1>1. CASE UNCHANGED vars
  BY <1>1 DEF vars
<1>2. ASSUME NEW t \in Threads, Cancel(t)
      PROVE  OneRun'
  BY <1>2 DEF Cancel, Call, RequestCancel
<1>3. ASSUME NEW t \in Threads, Run(t)
      PROVE  OneRun'
  <2>1. CASE running
    <3>1. \A u \in Threads : Running(u)' <=> Running(u)
      BY <1>3, <2>1 DEF Run, Call, Returns
    <3>2. running' = running
      BY <1>3, <2>1 DEF Run
    <3> QED
      BY <3>1, <3>2
  <2>2. CASE ~running
    <3>1. \A u \in Threads : ~Running(u)
      BY <2>2
    <3>2. op' = [op EXCEPT ![t] = "run"] /\ running' = TRUE
      BY <1>3, <2>2 DEF Run, Enters
    <3> QED
      BY <3>1, <3>2
  <2> QED
    BY <2>1, <2>2
<1>4. ASSUME NEW t \in Threads, NEW name \in {"step", "finalize"}, Mutate(t, name)
      PROVE  OneRun'
  <2>1. \A u \in Threads : Running(u)' <=> Running(u)
    BY <1>4 DEF Mutate, Call, Enters, Goto, Returns, EntryPoint
  <2>2. running' = running
    BY <1>4 DEF Mutate, Call, Enters, Goto, Returns, EntryPoint
  <2> QED
    BY <2>1, <2>2
<1>5. ASSUME NEW t \in Threads, Free(t)
      PROVE  OneRun'
  <2>1. \A u \in Threads : Running(u)' <=> Running(u)
    BY <1>5 DEF Free, Mutate, Call, Enters, Goto, Returns, EntryPoint
  <2>2. running' = running
    BY <1>5 DEF Free, Mutate, Call, Enters, Goto, Returns, EntryPoint
  <2> QED
    BY <2>1, <2>2
<1>6. ASSUME NEW t \in Threads, CheckCancel(t)
      PROVE  OneRun'
  BY <1>6 DEF CheckCancel, Goto
<1>7. ASSUME NEW t \in Threads, LockForStep(t)
      PROVE  OneRun'
  <2>1. \A u \in Threads : Running(u)' <=> Running(u)
    BY <1>7, SMTT(30) DEF LockForStep, LockFails, Enters, Goto, Returns, Running
  <2>2. running' = running
    BY <1>7 DEF LockForStep, LockFails, Enters, Goto, Returns, Running
  <2> QED
    BY <2>1, <2>2
<1>8. ASSUME NEW t \in Threads, LockForFinalize(t)
      PROVE  OneRun'
  <2>1. \A u \in Threads : Running(u)' <=> Running(u)
    BY <1>8 DEF LockForFinalize, LockFails, Goto, Returns, Running
  <2>2. running' = running
    BY <1>8 DEF LockForFinalize, LockFails, Goto, Returns, Running
  <2> QED
    BY <2>1, <2>2
<1>9. ASSUME NEW t \in Threads, Train(t)
      PROVE  OneRun'
  BY <1>9 DEF Train, Goto
<1>10. ASSUME NEW t \in Threads, Prune(t)
      PROVE  OneRun'
  BY <1>10 DEF Prune, Goto
<1>11. ASSUME NEW t \in Threads, Publish(t)
      PROVE  OneRun'
  BY <1>11 DEF Publish, Goto
<1>12. ASSUME NEW t \in Threads, Unlock(t)
      PROVE  OneRun'
  <2>1. \A u \in Threads : Running(u)' <=> Running(u)
    BY <1>12 DEF Unlock, Goto, Returns, Running
  <2>2. running' = running
    BY <1>12 DEF Unlock, Goto, Returns, Running
  <2> QED
    BY <2>1, <2>2
<1>13. ASSUME NEW t \in Threads, CallbackReturns(t)
      PROVE  OneRun'
  BY <1>13 DEF CallbackReturns, Goto
<1>14. ASSUME NEW t \in Threads, ClearCancel(t)
      PROVE  OneRun'
  BY <1>14 DEF ClearCancel, Goto
<1>15. ASSUME NEW t \in Threads, LeaveRun(t)
      PROVE  OneRun'
  BY <1>15 DEF LeaveRun, Returns
<1>16. ASSUME NEW t \in Threads, Release(t)
      PROVE  OneRun'
  BY <1>16 DEF Release, Returns
<1>17. ASSUME NEW t \in Threads, Panic(t)
      PROVE  OneRun'
  BY <1>17 DEF Panic, Goto, Returns, Running
<1>18. ASSUME NEW t \in Threads, CallbackCancels(t)
      PROVE  OneRun'
  BY <1>18 DEF CallbackCancels, RequestCancel
<1> QED
  BY <1>1, <1>2, <1>3, <1>4, <1>5, <1>6, <1>7, <1>8, <1>9, <1>10, <1>11, <1>12, <1>13, <1>14, <1>15, <1>16, <1>17, <1>18 DEF Next, HostCalls, Continues

(***************************************************************************)
(* A release is alone, and the last call.                                  *)
(***************************************************************************)
LEMMA FreeAloneNext ==
  ASSUME Types, Places, OneRun, FreeAlone, [Next]_vars
  PROVE  FreeAlone'
<1> USE ApiAssumption DEF Types, TypeOK, Places, OneRun, Running, FreeAlone, shared, control, history
<1>1. CASE UNCHANGED vars
  BY <1>1 DEF vars
<1>2. ASSUME NEW t \in Threads, Cancel(t)
      PROVE  FreeAlone'
  BY <1>2 DEF Cancel, Call, RequestCancel
<1>3. ASSUME NEW t \in Threads, Run(t)
      PROVE  FreeAlone'
  BY <1>3 DEF Run, Call, Enters, Goto, Returns
<1>4. ASSUME NEW t \in Threads, NEW name \in {"step", "finalize"}, Mutate(t, name)
      PROVE  FreeAlone'
  BY <1>4 DEF Mutate, Call, Enters, Goto, Returns, EntryPoint
<1>5. ASSUME NEW t \in Threads, Free(t)
      PROVE  FreeAlone'
  BY <1>5 DEF Free, Mutate, Call, Enters, Goto, Returns, EntryPoint
<1>6. ASSUME NEW t \in Threads, CheckCancel(t)
      PROVE  FreeAlone'
  BY <1>6 DEF CheckCancel, Goto
<1>7. ASSUME NEW t \in Threads, LockForStep(t)
      PROVE  FreeAlone'
  BY <1>7 DEF LockForStep, LockFails, Enters, Goto, Returns, Running
<1>8. ASSUME NEW t \in Threads, LockForFinalize(t)
      PROVE  FreeAlone'
  BY <1>8 DEF LockForFinalize, LockFails, Goto, Returns, Running
<1>9. ASSUME NEW t \in Threads, Train(t)
      PROVE  FreeAlone'
  BY <1>9 DEF Train, Goto
<1>10. ASSUME NEW t \in Threads, Prune(t)
      PROVE  FreeAlone'
  BY <1>10 DEF Prune, Goto
<1>11. ASSUME NEW t \in Threads, Publish(t)
      PROVE  FreeAlone'
  BY <1>11 DEF Publish, Goto
<1>12. ASSUME NEW t \in Threads, Unlock(t)
      PROVE  FreeAlone'
  BY <1>12 DEF Unlock, Goto, Returns, Running
<1>13. ASSUME NEW t \in Threads, CallbackReturns(t)
      PROVE  FreeAlone'
  BY <1>13 DEF CallbackReturns, Goto
<1>14. ASSUME NEW t \in Threads, ClearCancel(t)
      PROVE  FreeAlone'
  BY <1>14 DEF ClearCancel, Goto
<1>15. ASSUME NEW t \in Threads, LeaveRun(t)
      PROVE  FreeAlone'
  BY <1>15 DEF LeaveRun, Returns
<1>16. ASSUME NEW t \in Threads, Release(t)
      PROVE  FreeAlone'
  BY <1>16 DEF Release, Returns
<1>17. ASSUME NEW t \in Threads, Panic(t)
      PROVE  FreeAlone'
  BY <1>17 DEF Panic, Goto, Returns, Running
<1>18. ASSUME NEW t \in Threads, CallbackCancels(t)
      PROVE  FreeAlone'
  BY <1>18 DEF CallbackCancels, RequestCancel
<1> QED
  BY <1>1, <1>2, <1>3, <1>4, <1>5, <1>6, <1>7, <1>8, <1>9, <1>10, <1>11, <1>12, <1>13, <1>14, <1>15, <1>16, <1>17, <1>18 DEF Next, HostCalls, Continues

(***************************************************************************)
(* What is published is current, or one step behind.                       *)
(***************************************************************************)
LEMMA PublishedNext ==
  ASSUME Types, Excludes, Published, [Next]_vars
  PROVE  Published'
<1> USE ApiAssumption DEF Types, TypeOK, Excludes, Locked, Published, shared, control, history
<1>1. CASE UNCHANGED vars
  BY <1>1 DEF vars
<1>2. ASSUME NEW t \in Threads, Cancel(t)
      PROVE  Published'
  BY <1>2 DEF Cancel, Call, RequestCancel
<1>3. ASSUME NEW t \in Threads, Run(t)
      PROVE  Published'
  BY <1>3 DEF Run, Call, Enters, Goto, Returns
<1>4. ASSUME NEW t \in Threads, NEW name \in {"step", "finalize"}, Mutate(t, name)
      PROVE  Published'
  BY <1>4 DEF Mutate, Call, Enters, Goto, Returns, EntryPoint
<1>5. ASSUME NEW t \in Threads, Free(t)
      PROVE  Published'
  BY <1>5 DEF Free, Mutate, Call, Enters, Goto, Returns, EntryPoint
<1>6. ASSUME NEW t \in Threads, CheckCancel(t)
      PROVE  Published'
  BY <1>6 DEF CheckCancel, Goto
<1>7. ASSUME NEW t \in Threads, LockForStep(t)
      PROVE  Published'
  BY <1>7 DEF LockForStep, LockFails, Enters, Goto, Returns, Running
<1>8. ASSUME NEW t \in Threads, LockForFinalize(t)
      PROVE  Published'
  BY <1>8 DEF LockForFinalize, LockFails, Goto, Returns, Running
<1>9. ASSUME NEW t \in Threads, Train(t)
      PROVE  Published'
  <2>1. inner \in Sessions /\ inner.spheres # <<>> /\ ~IsDone(inner) /\ inner' \in StepResults(inner)
    BY <1>9 DEF Train
  <2>2. snapshot = SnapshotOf(inner) /\ snapshot' = snapshot
    BY <1>9 DEF Train
  <2>3. Advances(snapshot, SnapshotOf(inner)')
    BY <2>1, <2>2, StepIsAdvance DEF SnapshotOf
  <2> QED
    BY <1>9, <2>2, <2>3 DEF Train, Goto
<1>10. ASSUME NEW t \in Threads, Prune(t)
      PROVE  Published'
  <2>1. inner \in Sessions /\ inner.spheres # <<>> /\ inner' \in FinalizeResults(inner)
    BY <1>10 DEF Prune
  <2>2. snapshot = SnapshotOf(inner) /\ snapshot' = snapshot
    BY <1>10 DEF Prune
  <2>3. SnapshotOf(inner)' = snapshot \/ Prunes(snapshot, SnapshotOf(inner)')
    BY <2>1, <2>2, FinalizeIsPrune DEF SnapshotOf
  <2> QED
    BY <1>10, <2>2, <2>3 DEF Prune, Goto
<1>11. ASSUME NEW t \in Threads, Publish(t)
      PROVE  Published'
  BY <1>11 DEF Publish, Goto
<1>12. ASSUME NEW t \in Threads, Unlock(t)
      PROVE  Published'
  BY <1>12 DEF Unlock, Goto, Returns, Running
<1>13. ASSUME NEW t \in Threads, CallbackReturns(t)
      PROVE  Published'
  BY <1>13 DEF CallbackReturns, Goto
<1>14. ASSUME NEW t \in Threads, ClearCancel(t)
      PROVE  Published'
  BY <1>14 DEF ClearCancel, Goto
<1>15. ASSUME NEW t \in Threads, LeaveRun(t)
      PROVE  Published'
  BY <1>15 DEF LeaveRun, Returns
<1>16. ASSUME NEW t \in Threads, Release(t)
      PROVE  Published'
  BY <1>16 DEF Release, Returns
<1>17. ASSUME NEW t \in Threads, Panic(t)
      PROVE  Published'
  BY <1>17 DEF Panic, Goto, Returns, Running
<1>18. ASSUME NEW t \in Threads, CallbackCancels(t)
      PROVE  Published'
  BY <1>18 DEF CallbackCancels, RequestCancel
<1> QED
  BY <1>1, <1>2, <1>3, <1>4, <1>5, <1>6, <1>7, <1>8, <1>9, <1>10, <1>11, <1>12, <1>13, <1>14, <1>15, <1>16, <1>17, <1>18 DEF Next, HostCalls, Continues

(***************************************************************************)
(* A cancelled run trains at most one more iteration.                      *)
(***************************************************************************)
LEMMA OverrunNext ==
  ASSUME Types, Places, OneRun, Overrun, [Next]_vars
  PROVE  Overrun'
<1> USE ApiAssumption DEF Types, TypeOK, Places, OneRun, Running, Overrun, shared, control, history
<1>1. CASE UNCHANGED vars
  BY <1>1 DEF vars
<1>2. ASSUME NEW t \in Threads, Cancel(t)
      PROVE  Overrun'
  BY <1>2 DEF Cancel, Call, RequestCancel
<1>3. ASSUME NEW t \in Threads, Run(t)
      PROVE  Overrun'
  BY <1>3 DEF Run, Call, Enters, Goto, Returns
<1>4. ASSUME NEW t \in Threads, NEW name \in {"step", "finalize"}, Mutate(t, name)
      PROVE  Overrun'
  BY <1>4 DEF Mutate, Call, Enters, Goto, Returns, EntryPoint
<1>5. ASSUME NEW t \in Threads, Free(t)
      PROVE  Overrun'
  BY <1>5 DEF Free, Mutate, Call, Enters, Goto, Returns, EntryPoint
<1>6. ASSUME NEW t \in Threads, CheckCancel(t)
      PROVE  Overrun'
  BY <1>6 DEF CheckCancel, Goto
<1>7. ASSUME NEW t \in Threads, LockForStep(t)
      PROVE  Overrun'
  BY <1>7 DEF LockForStep, LockFails, Enters, Goto, Returns, Running
<1>8. ASSUME NEW t \in Threads, LockForFinalize(t)
      PROVE  Overrun'
  BY <1>8 DEF LockForFinalize, LockFails, Goto, Returns, Running
<1>9. ASSUME NEW t \in Threads, Train(t)
      PROVE  Overrun'
  BY <1>9 DEF Train, Goto
<1>10. ASSUME NEW t \in Threads, Prune(t)
      PROVE  Overrun'
  BY <1>10 DEF Prune, Goto
<1>11. ASSUME NEW t \in Threads, Publish(t)
      PROVE  Overrun'
  BY <1>11 DEF Publish, Goto
<1>12. ASSUME NEW t \in Threads, Unlock(t)
      PROVE  Overrun'
  BY <1>12 DEF Unlock, Goto, Returns, Running
<1>13. ASSUME NEW t \in Threads, CallbackReturns(t)
      PROVE  Overrun'
  BY <1>13 DEF CallbackReturns, Goto
<1>14. ASSUME NEW t \in Threads, ClearCancel(t)
      PROVE  Overrun'
  BY <1>14 DEF ClearCancel, Goto
<1>15. ASSUME NEW t \in Threads, LeaveRun(t)
      PROVE  Overrun'
  BY <1>15 DEF LeaveRun, Returns
<1>16. ASSUME NEW t \in Threads, Release(t)
      PROVE  Overrun'
  BY <1>16 DEF Release, Returns
<1>17. ASSUME NEW t \in Threads, Panic(t)
      PROVE  Overrun'
  BY <1>17 DEF Panic, Goto, Returns, Running
<1>18. ASSUME NEW t \in Threads, CallbackCancels(t)
      PROVE  Overrun'
  BY <1>18 DEF CallbackCancels, RequestCancel
<1> QED
  BY <1>1, <1>2, <1>3, <1>4, <1>5, <1>6, <1>7, <1>8, <1>9, <1>10, <1>11, <1>12, <1>13, <1>14, <1>15, <1>16, <1>17, <1>18 DEF Next, HostCalls, Continues

-----------------------------------------------------------------------------
(***************************************************************************)
(* All layers together.                                                    *)
(***************************************************************************)
IInv == Types /\ Places /\ Excludes /\ OneRun /\ FreeAlone /\ Published /\ Overrun

\* A handle just made by morphit_session_new satisfies the invariant.
LEMMA IInvInit == Init => IInv
<1> SUFFICES ASSUME Init PROVE IInv
  OBVIOUS
<1>1. inner \in Sessions /\ inner.spheres # <<>>
  BY NewSessionFields DEF Init
<1>2. Types
  <2>1. snapshot \in Snapshots
    BY <1>1, SnapshotType DEF Init
  <2>2. 0 \in 0..MaxCalls
    BY ApiAssumption
  <2> QED
    BY <1>1, <2>1, <2>2 DEF Init, Types, TypeOK, Labels
<1>3. Places /\ Excludes /\ OneRun /\ FreeAlone
  BY ApiAssumption DEF Init, Places, Excludes, Locked, OneRun, Running, FreeAlone
<1>4. Published /\ Overrun
  BY DEF Init, Published, Overrun
<1> QED
  BY <1>2, <1>3, <1>4 DEF IInv

\* Every access to a handle, by any thread, keeps the invariant.
LEMMA IInvNext == IInv /\ [Next]_vars => IInv'
BY TypesNext, PlacesNext, ExcludesNext, OneRunNext, FreeAloneNext, PublishedNext,
   OverrunNext DEF IInv

\* The invariant holds of every handle at all times.
LEMMA IInvInvariant == Spec => []IInv
BY IInvInit, IInvNext, PTL DEF Spec

(***************************************************************************)
(* Every variable keeps its type, the session behind the mutex included.   *)
(***************************************************************************)
THEOREM CApiTypeCorrect == Spec => []TypeOK
<1>1. IInv => TypeOK
  BY DEF IInv, Types
<1> QED
  BY <1>1, IInvInvariant, PTL

(***************************************************************************)
(* The mutex is held by the one thread inside an iteration or a finalize   *)
(* and never while a callback executes.                                    *)
(***************************************************************************)
THEOREM CallbacksHoldNoLock == Spec => []CallbackHoldsNoLock
<1>1. IInv => CallbackHoldsNoLock
  <2> SUFFICES ASSUME IInv, NEW t \in Threads, pc[t] = "callback"
               PROVE  running /\ lock # t
    BY DEF IInv, Excludes, CallbackHoldsNoLock
  <2>1. op[t] = "run"
    BY DEF IInv, Types, TypeOK, Places
  <2>2. running
    BY <2>1 DEF IInv, OneRun, Running
  <2>3. lock # t
    BY DEF IInv, Excludes, Locked
  <2> QED
    BY <2>2, <2>3
<1> QED
  BY <1>1, IInvInvariant, PTL

(***************************************************************************)
(* At most one run is active, and `running' says so until its last access. *)
(***************************************************************************)
THEOREM OneRunAtATime == Spec => []OneRun
<1>1. IInv => OneRun
  BY DEF IInv
<1> QED
  BY <1>1, IInvInvariant, PTL

(***************************************************************************)
(* Between calls readers see the session as the last call left it, and     *)
(* never a session that a panic left half updated.                         *)
(***************************************************************************)
THEOREM SnapshotsAreCurrent == Spec => []SnapshotIsCurrent
<1>1. IInv => SnapshotIsCurrent
  BY DEF IInv, Published, SnapshotIsCurrent
<1> QED
  BY <1>1, IInvInvariant, PTL

(***************************************************************************)
(* No thread is inside a call on a handle that was released.               *)
(***************************************************************************)
THEOREM NoUseOnceReleased == Spec => []NoUseAfterRelease
<1>1. IInv => NoUseAfterRelease
  BY DEF IInv, FreeAlone, Places, NoUseAfterRelease
<1> QED
  BY <1>1, IInvInvariant, PTL

(***************************************************************************)
(* A run trains at most one more iteration after a cancel request.         *)
(***************************************************************************)
THEOREM CancelsStopRuns == Spec => []CancelStopsRun
<1>1. IInv => CancelStopsRun
  BY DEF IInv, Overrun, CancelStopsRun
<1> QED
  BY <1>1, IInvInvariant, PTL

(***************************************************************************)
(* Only the holder of the mutex publishes, and a poisoned mutex has none.  *)
(***************************************************************************)
LEMMA OnlyPublishWritesSnapshot ==
  ASSUME [Next]_vars, snapshot' # snapshot
  PROVE  \E t \in Threads : Publish(t)
<1> USE DEF shared, control, history
<1>1. ASSUME UNCHANGED vars PROVE FALSE
  BY <1>1 DEF vars
<1>2. ASSUME NEW t \in Threads, HostCalls(t) PROVE FALSE
  BY <1>2 DEF HostCalls, Cancel, Run, Mutate, Free
<1>3. ASSUME NEW t \in Threads, Panic(t) \/ CallbackCancels(t) PROVE FALSE
  BY <1>3 DEF Panic, CallbackCancels
<1>4. ASSUME NEW t \in Threads, Continues(t) PROVE Publish(t)
  BY <1>4 DEF Continues, CheckCancel, LockForStep, LockForFinalize, Train, Prune,
              Unlock, CallbackReturns, ClearCancel, LeaveRun, Release
<1> QED
  BY <1>1, <1>2, <1>3, <1>4 DEF Next

(***************************************************************************)
(* After a panic readers keep the last published iteration for ever.       *)
(***************************************************************************)
THEOREM PoisonAlwaysFreezes == Spec => PoisonFreezesSnapshot
<1>1. IInv /\ [Next]_vars => [poisoned => snapshot' = snapshot]_vars
  <2> SUFFICES ASSUME IInv, [Next]_vars, poisoned, snapshot' # snapshot
               PROVE  FALSE
    OBVIOUS
  <2>1. PICK t \in Threads : Publish(t)
    BY OnlyPublishWritesSnapshot
  <2>2. lock = t
    BY <2>1 DEF Publish, IInv, Excludes, Locked
  <2>3. lock = NoThread
    BY DEF IInv, Published
  <2> QED
    BY <2>2, <2>3, ApiAssumption
<1>2. Spec => [][poisoned => snapshot' = snapshot]_vars
  BY <1>1, IInvInvariant, PTL DEF Spec
<1> QED
  BY <1>2 DEF PoisonFreezesSnapshot

(***************************************************************************)
(* What readers see of a shared session, whatever threads, cancels and     *)
(* panics do to it, is a session making progress.                          *)
(***************************************************************************)
THEOREM CApiImplementsProgress == Spec => ImplementsProgress
<1>1. Init => Observed!Init
  <2> SUFFICES ASSUME Init PROVE Observed!Init
    OBVIOUS
  <2>1. PICK n \in StartCounts : inner = NewSession(n)
    BY DEF Init
  <2>2. Len(inner.spheres) = n
    BY <2>1, NewSessionFields
  <2>3. snapshot = Observed!View(IF Iterations = 0 THEN "completed" ELSE "running",
                                 0, n, 0, 0)
    BY <2>1, <2>2 DEF Init, SnapshotOf, ViewOf, NewSession, Observed!View
  <2> QED
    BY <2>3 DEF Observed!Init
<1>2. IInv /\ [Next]_vars => [Observed!Next]_snapshot
  <2> SUFFICES ASSUME IInv, [Next]_vars, snapshot' # snapshot
               PROVE  Observed!Next
    OBVIOUS
  <2>1. PICK t \in Threads : Publish(t)
    BY OnlyPublishWritesSnapshot
  <2>2. Advances(snapshot, snapshot') \/ Prunes(snapshot, snapshot')
    BY <2>1 DEF Publish, IInv, Published
  <2>3. Advances(snapshot, snapshot') => Observed!Advance
    BY DEF Advances, Observed!Advance, Observed!View
  <2>4. Prunes(snapshot, snapshot') => Observed!Prune
    BY DEF Prunes, Observed!Prune, Observed!View
  <2> QED
    BY <2>2, <2>3, <2>4 DEF Observed!Next
<1>3. Spec => Observed!Spec
  BY <1>1, <1>2, IInvInvariant, PTL DEF Spec, Observed!Spec
<1> QED
  BY <1>3 DEF ImplementsProgress
=============================================================================
