--------------------------- MODULE BindingsProofs ---------------------------
(***************************************************************************)
(* What the session of each language binding guarantees, for any number of *)
(* threads, calls, promises and iterations.                                *)
(*                                                                         *)
(* In Python the claim is given up on every way out of a call, no thread   *)
(* holds the session's mutex and the interpreter's lock at once, getters   *)
(* watch SessionProgress, and what run returns is so.  The invariant IInv  *)
(* is built in layers: where a call may be (Places), who holds which lock  *)
(* (Held), that the claim has one owner (Claimed), what the snapshot says  *)
(* of the session (Published), what the session's state stands for         *)
(* (Meaning) and what a run has seen of it (RunSeen).                      *)
(*                                                                         *)
(* In a web page the session is never lost and never held twice, however   *)
(* the page's calls fall between the steps of its promises: WebInv adds to *)
(* SessionComesBack that its holder is a promise that exists.              *)
(*                                                                         *)
(* In .NET the invariant NetInv says what a call knows of the session at   *)
(* each place it may be in (NetCall), that the claim belongs to the one    *)
(* run inside (NetOwner), that nobody is inside a freed session            *)
(* (NetReleased) and what the last results say (NetResults).  An action    *)
(* keeps it by moving the call of one thread (Moves) while the history and *)
(* a pruned session only grow (Grows).                                     *)
(***************************************************************************)
EXTENDS MCBindings, SessionProofs

(***************************************************************************)
(* Python.                                                                 *)
(***************************************************************************)
PyLabels == {"idle", "loop", "lock", "finalLock", "readLock", "train", "prune", "read",
             "publish", "attach", "callback", "yielded"}
Outcomes == {"none", "failed", "exhausted", "stepped", "converged", "completed", "ok"}

Types ==
  /\ inner \in Sessions /\ inner.spheres # <<>>
  /\ poisoned \in BOOLEAN /\ running \in BOOLEAN /\ cancel \in BOOLEAN /\ fresh \in BOOLEAN
  /\ pc \in [Threads -> PyLabels]
  /\ op \in [Threads -> Claimants \cup {"none", "history"}]
  /\ outcome \in [Threads -> Outcomes]
  /\ result \in [Threads -> {"none", "ok", "BusyError", "raised", "cancelled"} \cup Outcomes \cup {"stop"}]

\* Where in its code each call can be, and what its detached part can end with.
Places ==
  \A t \in Threads :
    /\ op[t] = "none" <=> pc[t] = "idle"
    /\ op[t] = "history" => pc[t] \in {"readLock", "read", "attach"}
    /\ op[t] \in {"step", "next"} => pc[t] \in {"lock", "train", "publish", "attach"}
    /\ op[t] = "finalize" => pc[t] \in {"finalLock", "prune", "publish", "attach"}
    /\ op[t] = "run" => pc[t] \notin {"idle", "readLock", "read"}

Inside == {"train", "prune", "publish", "read"}

\* The mutex excludes; Python code runs with the interpreter's lock.
Held ==
  /\ \A t \in Threads : lock = t <=> pc[t] \in Inside
  /\ \A t \in Threads : gil = t <=> pc[t] \in {"loop", "callback"}

Claimed == ClaimIsExclusive

\* The published snapshot is the session's view except while the holder of
\* the mutex has trained or pruned and not yet published.
Published ==
  /\ poisoned => \A t \in Threads : pc[t] \notin Inside
  /\ ~poisoned /\ (\A t \in Threads : pc[t] # "publish") => snapshot = ViewOf(inner)
  /\ \A t \in Threads :
       /\ pc[t] = "train" => ~IsDone(inner)
       /\ pc[t] = "publish" =>
            \/ ViewOf(inner) = snapshot
            \/ Advances(snapshot, ViewOf(inner))
            \/ Prunes(snapshot, ViewOf(inner))

\* What the session's state says about its iterations.
Meaning ==
  /\ inner.state = "running" => inner.iteration < Iterations
  /\ inner.state = "completed" => inner.iteration = Iterations
  /\ inner.state = "converged" => inner.last.converged

\* What a run that found its session running may rely on, by place.
RunSeen ==
  \A t \in Threads : op[t] = "run" /\ fresh =>
    /\ pc[t] \in {"loop", "lock", "train", "callback", "yielded"} => inner.state # "finalized"
    /\ pc[t] \in {"finalLock", "prune"} => inner.state \in {"completed", "converged"}
    /\ pc[t] \in {"publish", "attach"} =>
         \/ outcome[t] = "failed"
         \/ outcome[t] = "stepped" /\ inner.state # "finalized"
         \/ outcome[t] = "exhausted" /\ inner.state \in {"completed", "converged"}
         \/ /\ outcome[t] \in {"completed", "converged"}
            /\ inner.state = "finalized"
            /\ inner.iteration = Iterations \/ inner.last.converged
            /\ outcome[t] = "converged" => inner.last.converged

IInv == Types /\ Places /\ Held /\ Claimed /\ Published /\ Meaning /\ RunSeen
-----------------------------------------------------------------------------
\* Every variable keeps its type.
LEMMA TypesNext ==
  ASSUME Types, [Next]_vars
  PROVE  Types'
<1> USE PyAssumption DEF Types, PyLabels, Outcomes, Claimants, core
<1>1. CASE UNCHANGED vars
  BY <1>1 DEF vars
<1>2. ASSUME NEW t \in Threads, Cancel(t)
      PROVE  Types'
  BY <1>2 DEF Cancel, Call, Answers
<1>3. ASSUME NEW t \in Threads, NEW name \in Claimants, Claim(t, name)
      PROVE  Types'
  <2>1. EntryPoint[name] \in {"loop", "lock", "finalLock"}
    BY DEF EntryPoint
  <2>2. pc' = pc \/ pc' = [pc EXCEPT ![t] = EntryPoint[name]]
    BY <1>3 DEF Claim, Answers, Goto
  <2>3. op' = op \/ op' = [op EXCEPT ![t] = name]
    BY <1>3 DEF Claim, Answers
  <2>4. result' = result \/ \E value \in {"BusyError", "raised"} : result' = [result EXCEPT ![t] = value]
    BY <1>3 DEF Claim, Answers
  <2>5. running' \in BOOLEAN /\ fresh' \in BOOLEAN
    BY <1>3 DEF Claim, Answers
  <2>6. UNCHANGED <<inner, poisoned, cancel, outcome>>
    BY <1>3 DEF Claim, Call
  <2>7. pc' \in [Threads -> PyLabels]
    BY <2>1, <2>2
  <2>8. op' \in [Threads -> Claimants \cup {"none", "history"}]
    BY <2>3
  <2>9. result' \in [Threads -> {"none", "ok", "BusyError", "raised", "cancelled"} \cup Outcomes \cup {"stop"}]
    BY <2>4
  <2> HIDE DEF PyLabels, Claimants, Outcomes
  <2> QED
    BY <2>5, <2>6, <2>7, <2>8, <2>9
<1>4. ASSUME NEW t \in Threads, Read(t)
      PROVE  Types'
  BY <1>4 DEF Read, Call, Goto
<1>5. ASSUME NEW t \in Threads, Loop(t)
      PROVE  Types'
  BY <1>5 DEF Loop, Goto, Returns
<1>6. ASSUME NEW t \in Threads, Lock(t)
      PROVE  Types'
  BY <1>6 DEF Lock, Ends, Goto, HeldPlace
<1>7. ASSUME NEW t \in Threads, Train(t)
      PROVE  Types'
  <2>1. inner' \in StepResults(inner)
    BY <1>7 DEF Train
  <2>2. inner' \in Sessions /\ inner'.spheres # <<>>
    BY <2>1, StepFields
  <2> QED
    BY <1>7, <2>2 DEF Train, Goto, Detached
<1>8. ASSUME NEW t \in Threads, Prune(t)
      PROVE  Types'
  <2>1. inner' \in FinalizeResults(inner)
    BY <1>8 DEF Prune
  <2>2. inner' \in Sessions /\ inner'.spheres # <<>>
    BY <2>1, FinalizeFields
  <2> QED
    BY <1>8, <2>2 DEF Prune, Goto, Detached
<1>9. ASSUME NEW t \in Threads, Publish(t)
      PROVE  Types'
  BY <1>9 DEF Publish, Goto, Detached
<1>10. ASSUME NEW t \in Threads, ReadDone(t)
      PROVE  Types'
  BY <1>10 DEF ReadDone, Ends, Goto, Detached
<1>11. ASSUME NEW t \in Threads, Attach(t)
      PROVE  Types'
  BY <1>11 DEF Attach, Returns, Goto, Value
<1>12. ASSUME NEW t \in Threads, CallbackResumes(t)
      PROVE  Types'
  BY <1>12 DEF CallbackResumes, Goto
<1>13. ASSUME NEW t \in Threads, CallbackReturns(t)
      PROVE  Types'
  <2>1. result' = result \/ \E value \in {"cancelled", "raised"} : result' = [result EXCEPT ![t] = value]
    BY <1>13 DEF CallbackReturns, Returns
  <2>2. pc' = [pc EXCEPT ![t] = "loop"] \/ pc' = [pc EXCEPT ![t] = "idle"]
    BY <1>13 DEF CallbackReturns, Returns, Goto
  <2>3. op' = op \/ op' = [op EXCEPT ![t] = "none"]
    BY <1>13 DEF CallbackReturns, Returns
  <2>4. running' \in BOOLEAN
    BY <1>13 DEF CallbackReturns, Returns
  <2>5. UNCHANGED <<inner, poisoned, cancel, outcome, fresh>>
    BY <1>13 DEF CallbackReturns
  <2> QED
    BY <2>1, <2>2, <2>3, <2>4, <2>5
<1>14. ASSUME NEW t \in Threads, Panic(t)
      PROVE  Types'
  BY <1>14 DEF Panic, Ends, Goto, Detached
<1>15. ASSUME NEW t \in Threads, CallbackCancels(t)
      PROVE  Types'
  BY <1>15 DEF CallbackCancels
<1>16. ASSUME NEW t \in Threads, CallbackYields(t)
      PROVE  Types'
  BY <1>16 DEF CallbackYields, Goto
<1> QED
  BY <1>1, <1>2, <1>3, <1>4, <1>5, <1>6, <1>7, <1>8, <1>9, <1>10, <1>11, <1>12, <1>13, <1>14, <1>15, <1>16 DEF Next, HostCalls, Continues

\* Every call stays in its own code.
LEMMA PlacesNext ==
  ASSUME Types, Places, [Next]_vars
  PROVE  Places'
<1> USE PyAssumption DEF Types, Places, PyLabels, Claimants, core
<1>1. CASE UNCHANGED vars
  BY <1>1 DEF vars
<1>2. ASSUME NEW t \in Threads, Cancel(t)
      PROVE  Places'
  BY <1>2 DEF Cancel, Call, Answers
<1>3. ASSUME NEW t \in Threads, NEW name \in Claimants, Claim(t, name)
      PROVE  Places'
  BY <1>3 DEF Claim, Call, Answers, Goto, EntryPoint, Conflicts
<1>4. ASSUME NEW t \in Threads, Read(t)
      PROVE  Places'
  BY <1>4 DEF Read, Call, Goto
<1>5. ASSUME NEW t \in Threads, Loop(t)
      PROVE  Places'
  BY <1>5 DEF Loop, Goto, Returns
<1>6. ASSUME NEW t \in Threads, Lock(t)
      PROVE  Places'
  BY <1>6 DEF Lock, Ends, Goto, HeldPlace
<1>7. ASSUME NEW t \in Threads, Train(t)
      PROVE  Places'
  BY <1>7 DEF Train, Goto, Detached
<1>8. ASSUME NEW t \in Threads, Prune(t)
      PROVE  Places'
  BY <1>8 DEF Prune, Goto, Detached
<1>9. ASSUME NEW t \in Threads, Publish(t)
      PROVE  Places'
  BY <1>9 DEF Publish, Goto, Detached
<1>10. ASSUME NEW t \in Threads, ReadDone(t)
      PROVE  Places'
  BY <1>10 DEF ReadDone, Ends, Goto, Detached
<1>11. ASSUME NEW t \in Threads, Attach(t)
      PROVE  Places'
  BY <1>11 DEF Attach, Returns, Goto, Value
<1>12. ASSUME NEW t \in Threads, CallbackResumes(t)
      PROVE  Places'
  BY <1>12 DEF CallbackResumes, Goto
<1>13. ASSUME NEW t \in Threads, CallbackReturns(t)
      PROVE  Places'
  BY <1>13 DEF CallbackReturns, Goto, Returns
<1>14. ASSUME NEW t \in Threads, Panic(t)
      PROVE  Places'
  BY <1>14 DEF Panic, Ends, Goto, Detached
<1>15. ASSUME NEW t \in Threads, CallbackCancels(t)
      PROVE  Places'
  BY <1>15 DEF CallbackCancels
<1>16. ASSUME NEW t \in Threads, CallbackYields(t)
      PROVE  Places'
  BY <1>16 DEF CallbackYields, Goto
<1> QED
  BY <1>1, <1>2, <1>3, <1>4, <1>5, <1>6, <1>7, <1>8, <1>9, <1>10, <1>11, <1>12, <1>13, <1>14, <1>15, <1>16 DEF Next, HostCalls, Continues

\* Each lock has the holder its place in the code says.
LEMMA HeldNext ==
  ASSUME Types, Places, Held, [Next]_vars
  PROVE  Held'
<1> USE PyAssumption DEF Types, Places, Held, Inside, PyLabels, Claimants, core
<1>1. CASE UNCHANGED vars
  BY <1>1 DEF vars
<1>2. ASSUME NEW t \in Threads, Cancel(t)
      PROVE  Held'
  BY <1>2 DEF Cancel, Call, Answers
<1>3. ASSUME NEW t \in Threads, NEW name \in Claimants, Claim(t, name)
      PROVE  Held'
  BY <1>3 DEF Claim, Call, Answers, Goto, EntryPoint, Conflicts
<1>4. ASSUME NEW t \in Threads, Read(t)
      PROVE  Held'
  BY <1>4 DEF Read, Call, Goto
<1>5. ASSUME NEW t \in Threads, Loop(t)
      PROVE  Held'
  BY <1>5 DEF Loop, Goto, Returns
<1>6. ASSUME NEW t \in Threads, Lock(t)
      PROVE  Held'
  BY <1>6 DEF Lock, Ends, Goto, HeldPlace
<1>7. ASSUME NEW t \in Threads, Train(t)
      PROVE  Held'
  BY <1>7 DEF Train, Goto, Detached
<1>8. ASSUME NEW t \in Threads, Prune(t)
      PROVE  Held'
  BY <1>8 DEF Prune, Goto, Detached
<1>9. ASSUME NEW t \in Threads, Publish(t)
      PROVE  Held'
  BY <1>9 DEF Publish, Goto, Detached
<1>10. ASSUME NEW t \in Threads, ReadDone(t)
      PROVE  Held'
  BY <1>10 DEF ReadDone, Ends, Goto, Detached
<1>11. ASSUME NEW t \in Threads, Attach(t)
      PROVE  Held'
  BY <1>11 DEF Attach, Returns, Goto, Value
<1>12. ASSUME NEW t \in Threads, CallbackResumes(t)
      PROVE  Held'
  BY <1>12 DEF CallbackResumes, Goto
<1>13. ASSUME NEW t \in Threads, CallbackReturns(t)
      PROVE  Held'
  BY <1>13 DEF CallbackReturns, Goto, Returns
<1>14. ASSUME NEW t \in Threads, Panic(t)
      PROVE  Held'
  BY <1>14 DEF Panic, Ends, Goto, Detached
<1>15. ASSUME NEW t \in Threads, CallbackCancels(t)
      PROVE  Held'
  BY <1>15 DEF CallbackCancels
<1>16. ASSUME NEW t \in Threads, CallbackYields(t)
      PROVE  Held'
  BY <1>16 DEF CallbackYields, Goto
<1> QED
  BY <1>1, <1>2, <1>3, <1>4, <1>5, <1>6, <1>7, <1>8, <1>9, <1>10, <1>11, <1>12, <1>13, <1>14, <1>15, <1>16 DEF Next, HostCalls, Continues

\* Returning from a call gives up the claim that call had, and no other.
LEMMA ReturnsGivesUp ==
  ASSUME Types, ClaimIsExclusive, NEW t \in Threads, NEW value, Returns(t, value)
  PROVE  ClaimIsExclusive'
<1>1. op' = [op EXCEPT ![t] = "none"] /\ "none" \notin Claimants /\ op \in [Threads -> Claimants \cup {"none", "history"}]
  BY DEF Returns, Types, Claimants
<1> HIDE DEF Claimants
<1>2. \A u \in Threads : op'[u] \in Claimants <=> u # t /\ op[u] \in Claimants
  BY <1>1
<1>3. CASE op[t] \in Claimants
  <2>1. ~running'
    BY <1>3 DEF Returns
  <2>2. \A u \in Threads : op'[u] \notin Claimants
    BY <1>2, <1>3 DEF ClaimIsExclusive
  <2> QED
    BY <2>1, <2>2 DEF ClaimIsExclusive
<1>4. CASE op[t] \notin Claimants
  <2>1. running' <=> running
    BY <1>4 DEF Returns
  <2>2. \A u \in Threads : op'[u] \in Claimants <=> op[u] \in Claimants
    BY <1>2, <1>4
  <2> QED
    BY <1>1, <1>2, <2>1, <2>2 DEF ClaimIsExclusive
<1> QED
  BY <1>3, <1>4

\* One call at a time owns the claim, and every way out gives it up.
LEMMA ClaimedNext ==
  ASSUME Types, Places, Claimed, [Next]_vars
  PROVE  Claimed'
<1> USE PyAssumption DEF Types, Places, Claimed, ClaimIsExclusive, PyLabels, Claimants, core
<1>1. CASE UNCHANGED vars
  BY <1>1 DEF vars
<1>2. ASSUME NEW t \in Threads, Cancel(t)
      PROVE  Claimed'
  BY <1>2 DEF Cancel, Call, Answers
<1>3. ASSUME NEW t \in Threads, NEW name \in Claimants, Claim(t, name)
      PROVE  Claimed'
  BY <1>3 DEF Claim, Call, Answers, Goto, EntryPoint, Conflicts
<1>4. ASSUME NEW t \in Threads, Read(t)
      PROVE  Claimed'
  BY <1>4 DEF Read, Call, Goto
<1>5. ASSUME NEW t \in Threads, Loop(t)
      PROVE  Claimed'
  <2>1. CASE \E value : Returns(t, value)
    BY <2>1, ReturnsGivesUp
  <2>2. CASE running' = running /\ op' = op
    BY <2>2
  <2> QED
    BY <1>5, <2>1, <2>2 DEF Loop
<1>6. ASSUME NEW t \in Threads, Lock(t)
      PROVE  Claimed'
  BY <1>6 DEF Lock, Ends, Goto, HeldPlace
<1>7. ASSUME NEW t \in Threads, Train(t)
      PROVE  Claimed'
  BY <1>7 DEF Train, Goto, Detached
<1>8. ASSUME NEW t \in Threads, Prune(t)
      PROVE  Claimed'
  BY <1>8 DEF Prune, Goto, Detached
<1>9. ASSUME NEW t \in Threads, Publish(t)
      PROVE  Claimed'
  BY <1>9 DEF Publish, Goto, Detached
<1>10. ASSUME NEW t \in Threads, ReadDone(t)
      PROVE  Claimed'
  BY <1>10 DEF ReadDone, Ends, Goto, Detached
<1>11. ASSUME NEW t \in Threads, Attach(t)
      PROVE  Claimed'
  <2>1. CASE \E value : Returns(t, value)
    BY <2>1, ReturnsGivesUp
  <2>2. CASE running' = running /\ op' = op
    BY <2>2
  <2> QED
    BY <1>11, <2>1, <2>2 DEF Attach
<1>12. ASSUME NEW t \in Threads, CallbackResumes(t)
      PROVE  Claimed'
  BY <1>12 DEF CallbackResumes, Goto
<1>13. ASSUME NEW t \in Threads, CallbackReturns(t)
      PROVE  Claimed'
  <2>1. CASE \E value : Returns(t, value)
    BY <2>1, ReturnsGivesUp
  <2>2. CASE running' = running /\ op' = op
    BY <2>2
  <2> QED
    BY <1>13, <2>1, <2>2 DEF CallbackReturns
<1>14. ASSUME NEW t \in Threads, Panic(t)
      PROVE  Claimed'
  BY <1>14 DEF Panic, Ends, Goto, Detached
<1>15. ASSUME NEW t \in Threads, CallbackCancels(t)
      PROVE  Claimed'
  BY <1>15 DEF CallbackCancels
<1>16. ASSUME NEW t \in Threads, CallbackYields(t)
      PROVE  Claimed'
  BY <1>16 DEF CallbackYields, Goto
<1> QED
  BY <1>1, <1>2, <1>3, <1>4, <1>5, <1>6, <1>7, <1>8, <1>9, <1>10, <1>11, <1>12, <1>13, <1>14, <1>15, <1>16 DEF Next, HostCalls, Continues

\* What is published is current, or one step behind.
LEMMA PublishedNext ==
  ASSUME Types, Held, Published, [Next]_vars
  PROVE  Published'
<1> USE PyAssumption DEF Types, Held, Inside, Published, PyLabels, core
<1>1. CASE UNCHANGED vars
  BY <1>1 DEF vars
<1>2. ASSUME NEW t \in Threads, Cancel(t)
      PROVE  Published'
  BY <1>2 DEF Cancel, Call, Answers
<1>3. ASSUME NEW t \in Threads, NEW name \in Claimants, Claim(t, name)
      PROVE  Published'
  <2>1. EntryPoint[name] \in {"loop", "lock", "finalLock"}
    BY DEF EntryPoint, Claimants
  <2>2. pc' = pc \/ pc' = [pc EXCEPT ![t] = EntryPoint[name]]
    BY <1>3 DEF Claim, Answers, Goto
  <2>3. \A u \in Threads : pc'[u] = pc[u] \/ (pc'[u] \in {"loop", "lock", "finalLock"} /\ u = t /\ pc[u] = "idle")
    <3>1. pc[t] = "idle" /\ pc \in [Threads -> PyLabels]
      BY <1>3 DEF Claim, Call
    <3> HIDE DEF Types, Held, Published, PyLabels
    <3> QED
      <4>1. CASE pc' = pc
        BY <4>1
      <4>2. CASE pc' = [pc EXCEPT ![t] = EntryPoint[name]]
        <5>1. pc'[t] = EntryPoint[name] /\ \A u \in Threads \ {t} : pc'[u] = pc[u]
          BY <3>1, <4>2
        <5> QED
          BY <5>1, <2>1, <3>1
      <4> QED
        BY <2>2, <4>1, <4>2
  <2>4. UNCHANGED <<inner, snapshot, poisoned>>
    BY <1>3 DEF Claim, Call
  <2>5. \A u \in Threads : \A x \in Inside : pc'[u] = x <=> pc[u] = x
    BY <2>3
  <2> QED
    BY <2>4, <2>5
<1>4. ASSUME NEW t \in Threads, Read(t)
      PROVE  Published'
  BY <1>4 DEF Read, Call, Goto
<1>5. ASSUME NEW t \in Threads, Loop(t)
      PROVE  Published'
  BY <1>5 DEF Loop, Goto, Returns
<1>6. ASSUME NEW t \in Threads, Lock(t)
      PROVE  Published'
  BY <1>6 DEF Lock, Ends, Goto, HeldPlace
<1>7. ASSUME NEW t \in Threads, Train(t)
      PROVE  Published'
  <2>1. inner \in Sessions /\ inner.spheres # <<>> /\ ~IsDone(inner) /\ inner' \in StepResults(inner)
    BY <1>7 DEF Train
  <2>2. snapshot = ViewOf(inner) /\ snapshot' = snapshot /\ ~poisoned
    BY <1>7 DEF Train
  <2>3. Advances(snapshot, ViewOf(inner)')
    BY <2>1, <2>2, StepIsAdvance
  <2> QED
    BY <1>7, <2>2, <2>3 DEF Train, Goto, Detached
<1>8. ASSUME NEW t \in Threads, Prune(t)
      PROVE  Published'
  <2>1. inner \in Sessions /\ inner.spheres # <<>> /\ inner' \in FinalizeResults(inner)
    BY <1>8 DEF Prune
  <2>2. snapshot = ViewOf(inner) /\ snapshot' = snapshot /\ ~poisoned
    BY <1>8 DEF Prune
  <2>3. ViewOf(inner)' = snapshot \/ Prunes(snapshot, ViewOf(inner)')
    BY <2>1, <2>2, FinalizeIsPrune
  <2> QED
    BY <1>8, <2>2, <2>3 DEF Prune, Goto, Detached
<1>9. ASSUME NEW t \in Threads, Publish(t)
      PROVE  Published'
  <2>1. snapshot' = ViewOf(inner)'
    BY <1>9 DEF Publish, SnapshotOf
  <2> QED
    BY <1>9, <2>1 DEF Publish, Goto, Detached
<1>10. ASSUME NEW t \in Threads, ReadDone(t)
      PROVE  Published'
  BY <1>10 DEF ReadDone, Ends, Goto, Detached
<1>11. ASSUME NEW t \in Threads, Attach(t)
      PROVE  Published'
  BY <1>11 DEF Attach, Returns, Goto, Value
<1>12. ASSUME NEW t \in Threads, CallbackResumes(t)
      PROVE  Published'
  BY <1>12 DEF CallbackResumes, Goto
<1>13. ASSUME NEW t \in Threads, CallbackReturns(t)
      PROVE  Published'
  BY <1>13 DEF CallbackReturns, Goto, Returns
<1>14. ASSUME NEW t \in Threads, Panic(t)
      PROVE  Published'
  BY <1>14 DEF Panic, Ends, Goto, Detached
<1>15. ASSUME NEW t \in Threads, CallbackCancels(t)
      PROVE  Published'
  BY <1>15 DEF CallbackCancels
<1>16. ASSUME NEW t \in Threads, CallbackYields(t)
      PROVE  Published'
  BY <1>16 DEF CallbackYields, Goto
<1> QED
  BY <1>1, <1>2, <1>3, <1>4, <1>5, <1>6, <1>7, <1>8, <1>9, <1>10, <1>11, <1>12, <1>13, <1>14, <1>15, <1>16 DEF Next, HostCalls, Continues

\* Iterations and verdicts stay what the state says they are.
LEMMA MeaningNext ==
  ASSUME Types, Published, Meaning, [Next]_vars
  PROVE  Meaning'
<1> USE PyAssumption DEF Types, Meaning, core
<1>1. CASE UNCHANGED vars
  BY <1>1 DEF vars
<1>2. ASSUME NEW t \in Threads, Cancel(t)
      PROVE  Meaning'
  BY <1>2 DEF Cancel, Call, Answers
<1>3. ASSUME NEW t \in Threads, NEW name \in Claimants, Claim(t, name)
      PROVE  Meaning'
  BY <1>3 DEF Claim, Call, Answers, Goto, EntryPoint, Conflicts
<1>4. ASSUME NEW t \in Threads, Read(t)
      PROVE  Meaning'
  BY <1>4 DEF Read, Call, Goto
<1>5. ASSUME NEW t \in Threads, Loop(t)
      PROVE  Meaning'
  BY <1>5 DEF Loop, Goto, Returns
<1>6. ASSUME NEW t \in Threads, Lock(t)
      PROVE  Meaning'
  BY <1>6 DEF Lock, Ends, Goto, HeldPlace
<1>7. ASSUME NEW t \in Threads, Train(t)
      PROVE  Meaning'
  <2>1. inner' \in StepResults(inner) /\ inner.state = "running"
    BY <1>7 DEF Train, Published, IsDone
  <2>2. PICK converged \in ConvergenceVerdicts(inner) : StepEnd(inner, inner', converged)
    BY <2>1, StepFields
  <2>3. converged \in BOOLEAN
    BY VerdictTypes
  <2>4. inner.iteration \in Nat /\ Iterations \in Nat
    BY SessionAssumption DEF Sessions
  <2> QED
    BY <2>1, <2>2, <2>3, <2>4 DEF StepEnd
<1>8. ASSUME NEW t \in Threads, Prune(t)
      PROVE  Meaning'
  <2>1. inner' \in FinalizeResults(inner)
    BY <1>8 DEF Prune
  <2>2. inner'.state = "finalized"
    BY <2>1, FinalizeFields
  <2> QED
    BY <2>2
<1>9. ASSUME NEW t \in Threads, Publish(t)
      PROVE  Meaning'
  BY <1>9 DEF Publish, Goto, Detached
<1>10. ASSUME NEW t \in Threads, ReadDone(t)
      PROVE  Meaning'
  BY <1>10 DEF ReadDone, Ends, Goto, Detached
<1>11. ASSUME NEW t \in Threads, Attach(t)
      PROVE  Meaning'
  BY <1>11 DEF Attach, Returns, Goto, Value
<1>12. ASSUME NEW t \in Threads, CallbackResumes(t)
      PROVE  Meaning'
  BY <1>12 DEF CallbackResumes, Goto
<1>13. ASSUME NEW t \in Threads, CallbackReturns(t)
      PROVE  Meaning'
  BY <1>13 DEF CallbackReturns, Goto, Returns
<1>14. ASSUME NEW t \in Threads, Panic(t)
      PROVE  Meaning'
  BY <1>14 DEF Panic, Ends, Goto, Detached
<1>15. ASSUME NEW t \in Threads, CallbackCancels(t)
      PROVE  Meaning'
  BY <1>15 DEF CallbackCancels
<1>16. ASSUME NEW t \in Threads, CallbackYields(t)
      PROVE  Meaning'
  BY <1>16 DEF CallbackYields, Goto
<1> QED
  BY <1>1, <1>2, <1>3, <1>4, <1>5, <1>6, <1>7, <1>8, <1>9, <1>10, <1>11, <1>12, <1>13, <1>14, <1>15, <1>16 DEF Next, HostCalls, Continues

\* A run keeps what it has seen: nobody else changes its session.
LEMMA RunSeenNext ==
  ASSUME Types, Places, Claimed, Meaning, RunSeen, [Next]_vars
  PROVE  RunSeen'
<1> USE PyAssumption DEF Types, Places, Claimed, ClaimIsExclusive, RunSeen, IsDone, PyLabels, Outcomes, Claimants, Sessions, States, core
<1>1. CASE UNCHANGED vars
  BY <1>1 DEF vars
<1>2. ASSUME NEW t \in Threads, Cancel(t)
      PROVE  RunSeen'
  BY <1>2 DEF Cancel, Call, Answers
<1>3. ASSUME NEW t \in Threads, NEW name \in Claimants, Claim(t, name)
      PROVE  RunSeen'
  <2>1. UNCHANGED <<inner, outcome>> /\ pc[t] = "idle" /\ op[t] = "none"
    BY <1>3 DEF Claim, Call
  <2>2. CASE UNCHANGED <<running, pc, op, fresh>>
    BY <2>1, <2>2
  <2>3. CASE /\ ~running /\ op' = [op EXCEPT ![t] = name] /\ pc' = [pc EXCEPT ![t] = EntryPoint[name]]
             /\ fresh' = IF name = "run" THEN inner.state = "running" ELSE fresh
    <3>1. \A u \in Threads : op[u] # "run"
      BY <2>3 DEF ClaimIsExclusive
    <3>2. name = "run" => pc'[t] = "loop"
      BY <2>3 DEF EntryPoint
    <3>3. \A u \in Threads : op'[u] = "run" => u = t /\ name = "run"
      BY <2>3, <3>1
    <3> HIDE DEF Types, Places, Claimed, ClaimIsExclusive
    <3> QED
      BY <2>1, <2>3, <3>2, <3>3
  <2> QED
    BY <1>3, <2>2, <2>3 DEF Claim, Answers, Conflicts, Goto
<1>4. ASSUME NEW t \in Threads, Read(t)
      PROVE  RunSeen'
  BY <1>4 DEF Read, Call, Goto
<1>5. ASSUME NEW t \in Threads, Loop(t)
      PROVE  RunSeen'
  BY <1>5 DEF Loop, Goto, Returns
<1>6. ASSUME NEW t \in Threads, Lock(t)
      PROVE  RunSeen'
  BY <1>6, SMTT(30) DEF Lock, Ends, Goto, HeldPlace
<1>7. ASSUME NEW t \in Threads, Train(t)
      PROVE  RunSeen'
  <2>1. inner' \in StepResults(inner)
    BY <1>7 DEF Train
  <2>2. inner'.state # "finalized"
    BY <2>1, StepFields DEF StepEnd
  <2>3. op[t] \in Claimants
    BY <1>7 DEF Train
  <2>4. \A u \in Threads : op[u] = "run" => u = t
    BY <2>3 DEF ClaimIsExclusive
  <2>5. op' = op /\ pc'[t] = "publish" /\ outcome'[t] = "stepped"
    BY <1>7 DEF Train, Goto, Detached
  <2> QED
    BY <2>2, <2>4, <2>5
<1>8. ASSUME NEW t \in Threads, Prune(t)
      PROVE  RunSeen'
  <2>1. inner' \in FinalizeResults(inner)
    BY <1>8 DEF Prune
  <2>2. inner'.state = "finalized" /\ inner'.iteration = inner.iteration /\ inner'.last = inner.last
    <3>1. inner \in Sessions /\ inner.spheres # <<>>
      OBVIOUS
    <3> HIDE DEF Types, Places, Claimed, RunSeen, Meaning, Sessions
    <3> QED
      BY <2>1, <3>1, FinalizeFields
  <2>3. op[t] \in Claimants
    BY <1>8 DEF Prune
  <2>4. \A u \in Threads : op[u] = "run" => u = t
    BY <2>3 DEF ClaimIsExclusive
  <2>5. op' = op /\ fresh' = fresh /\ pc[t] = "prune" /\ pc'[t] = "publish"
    BY <1>8 DEF Prune, Goto, Detached
  <2>6. outcome'[t] = IF inner.state = "converged" THEN "converged" ELSE "completed"
    BY <1>8 DEF Prune
  <2>7. ASSUME op[t] = "run", fresh
        PROVE  /\ outcome'[t] \in {"completed", "converged"}
               /\ inner'.iteration = Iterations \/ inner'.last.converged
               /\ outcome'[t] = "converged" => inner'.last.converged
    <3>1. inner.state \in {"completed", "converged"}
      BY <2>5, <2>7
    <3> QED
      BY <3>1, <2>2, <2>6 DEF Meaning
  <2> HIDE DEF Types, Places, Claimed, Meaning
  <2>8. SUFFICES ASSUME NEW u \in Threads, op'[u] = "run", fresh'
                 PROVE  pc'[u] = "publish" /\ outcome'[u] \in {"completed", "converged"}
                        /\ inner'.state = "finalized"
                        /\ (inner'.iteration = Iterations \/ inner'.last.converged)
                        /\ (outcome'[u] = "converged" => inner'.last.converged)
    BY DEF RunSeen
  <2> QED
    BY <2>2, <2>4, <2>5, <2>7, <2>8
<1>9. ASSUME NEW t \in Threads, Publish(t)
      PROVE  RunSeen'
  BY <1>9 DEF Publish, Goto, Detached
<1>10. ASSUME NEW t \in Threads, ReadDone(t)
      PROVE  RunSeen'
  BY <1>10 DEF ReadDone, Ends, Goto, Detached
<1>11. ASSUME NEW t \in Threads, Attach(t)
      PROVE  RunSeen'
  BY <1>11, SMTT(30) DEF Attach, Returns, Goto, Value
<1>12. ASSUME NEW t \in Threads, CallbackResumes(t)
      PROVE  RunSeen'
  BY <1>12 DEF CallbackResumes, Goto
<1>13. ASSUME NEW t \in Threads, CallbackReturns(t)
      PROVE  RunSeen'
  BY <1>13 DEF CallbackReturns, Goto, Returns
<1>14. ASSUME NEW t \in Threads, Panic(t)
      PROVE  RunSeen'
  BY <1>14 DEF Panic, Ends, Goto, Detached
<1>15. ASSUME NEW t \in Threads, CallbackCancels(t)
      PROVE  RunSeen'
  BY <1>15 DEF CallbackCancels
<1>16. ASSUME NEW t \in Threads, CallbackYields(t)
      PROVE  RunSeen'
  BY <1>16 DEF CallbackYields, Goto
<1> QED
  BY <1>1, <1>2, <1>3, <1>4, <1>5, <1>6, <1>7, <1>8, <1>9, <1>10, <1>11, <1>12, <1>13, <1>14, <1>15, <1>16 DEF Next, HostCalls, Continues

\* The invariant holds when no call is under way.
LEMMA IInvInit == Init => IInv
<1> SUFFICES ASSUME Init PROVE IInv
  OBVIOUS
<1>1. PICK n \in StartCounts : inner = NewSession(n)
  BY DEF Init
<1>2. inner \in Sessions /\ inner.spheres # <<>>
  BY <1>1, NewSessionFields
<1>3. Types /\ Places /\ Held /\ RunSeen
  BY <1>2, PyAssumption DEF Init, Types, Places, Held, Inside, RunSeen, PyLabels, Outcomes, Claimants
<1>4. Claimed
  BY DEF Init, Claimed, ClaimIsExclusive, Claimants
<1>5. Published
  BY DEF Init, Published, SnapshotOf, Inside
<1>6. Meaning
  <2>1. inner.state = (IF Iterations = 0 THEN "completed" ELSE "running") /\ inner.iteration = 0
    BY <1>1 DEF NewSession
  <2> QED
    BY <2>1, SessionAssumption DEF Meaning
<1> QED
  BY <1>3, <1>4, <1>5, <1>6 DEF IInv

\* Every step keeps the invariant, layer by layer.
LEMMA IInvNext == IInv /\ [Next]_vars => IInv'
BY TypesNext, PlacesNext, HeldNext, ClaimedNext, PublishedNext, MeaningNext, RunSeenNext DEF IInv

\* The invariant holds of every session at all times.
LEMMA IInvInvariant == Spec => []IInv
BY IInvInit, IInvNext, PTL DEF Spec

(***************************************************************************)
(* The claim (session.rs, claim and Claim::drop) is held exactly while one *)
(* claiming call is under way, exceptions and panics included.             *)
(***************************************************************************)
THEOREM ClaimsAreExclusive == Spec => []ClaimIsExclusive
<1>1. IInv => ClaimIsExclusive
  BY DEF IInv, Claimed
<1> QED
  BY <1>1, IInvInvariant, PTL

(***************************************************************************)
(* No thread holds the session's mutex and the interpreter's lock          *)
(* (py.detach around every use of the mutex): they cannot deadlock.        *)
(***************************************************************************)
THEOREM NoLockIsHeldAcrossGil == Spec => []NoLockAcrossGil
<1>1. IInv => NoLockAcrossGil
  BY DEF IInv, Held, Inside, NoLockAcrossGil
<1> QED
  BY <1>1, IInvInvariant, PTL

(***************************************************************************)
(* What run returns is so: completed and converged runs saw every          *)
(* iteration through or convergence, cancelled ones leave the session      *)
(* unpruned.                                                               *)
(***************************************************************************)
THEOREM RunsAlwaysEndTruthfully == Spec => RunsEndTruthfully
<1>1. ASSUME IInv, [Next]_vars, NEW t \in Threads, op[t] = "run", op'[t] = "none", fresh
      PROVE  /\ result'[t] \in {"completed", "converged"} =>
                  /\ inner.state = "finalized"
                  /\ inner.iteration = Iterations \/ inner.last.converged
                  /\ result'[t] = "converged" => inner.last.converged
             /\ result'[t] = "cancelled" => inner.state # "finalized"
  <2>0. /\ op \in [Threads -> Claimants \cup {"none", "history"}]
        /\ result \in [Threads -> {"none", "ok", "BusyError", "raised", "cancelled"} \cup Outcomes \cup {"stop"}]
    BY <1>1 DEF IInv, Types
  <2>1. PICK u \in Threads : Loop(u) \/ Attach(u) \/ CallbackReturns(u) \/ op' = op \/ \E v \in {"run", "step", "next", "finalize", "history"} : op' = [op EXCEPT ![u] = v]
    BY <1>1, ZenonT(60) DEF Next, HostCalls, Continues, vars, Cancel, Answers, Claim, Claimants, Read, Lock, Train, Prune,
       Publish, ReadDone, CallbackResumes, Panic, CallbackCancels, CallbackYields, Detached
  <2>2. \/ Loop(t) \/ Attach(t) \/ CallbackReturns(t)
    <3>1. \A r \in Threads : Loop(r) \/ Attach(r) \/ CallbackReturns(r) => op' = op \/ op' = [op EXCEPT ![r] = "none"]
      BY DEF Loop, Attach, CallbackReturns, Returns
    <3> QED
      BY <1>1, <2>0, <2>1, <3>1
  <2>3. CASE Loop(t)
    <3>1. result'[t] \in {"cancelled", "raised"} /\ pc[t] = "loop"
      BY <1>1, <2>0, <2>3 DEF Loop, Returns
    <3> QED
      BY <1>1, <3>1 DEF IInv, RunSeen
  <2>4. CASE CallbackReturns(t)
    <3>1. result'[t] \in {"cancelled", "raised"} /\ pc[t] = "callback"
      BY <1>1, <2>0, <2>4 DEF CallbackReturns, Returns
    <3> QED
      BY <1>1, <3>1 DEF IInv, RunSeen
  <2>5. CASE Attach(t)
    <3>1. result'[t] = Value(t) /\ pc[t] = "attach"
      BY <1>1, <2>0, <2>5 DEF Attach, Returns
    <3>2. outcome[t] \notin {"stepped", "exhausted"}
      BY <1>1, <2>0, <2>5 DEF Attach, Returns
    <3>3. outcome[t] = "failed" => result'[t] = "raised"
      BY <3>1 DEF Value
    <3>4. outcome[t] \in {"completed", "converged"} => result'[t] = outcome[t]
      BY <1>1, <3>1 DEF Value
    <3> QED
      BY <1>1, <3>1, <3>2, <3>3, <3>4 DEF IInv, RunSeen
  <2> QED
    BY <2>2, <2>3, <2>4, <2>5
<1>2. IInv /\ [Next]_vars =>
        [\A t \in Threads :
           op[t] = "run" /\ op'[t] = "none" /\ fresh =>
             /\ result'[t] \in {"completed", "converged"} =>
                  /\ inner.state = "finalized"
                  /\ inner.iteration = Iterations \/ inner.last.converged
                  /\ result'[t] = "converged" => inner.last.converged
             /\ result'[t] = "cancelled" => inner.state # "finalized"]_vars
  BY <1>1
<1> QED
  BY <1>2, IInvInvariant, PTL DEF Spec, RunsEndTruthfully

\* Only the holder of the mutex publishes.
LEMMA OnlyPublishWritesSnapshot ==
  ASSUME [Next]_vars, snapshot' # snapshot
  PROVE  \E t \in Threads : Publish(t)
<1> USE DEF core, Detached
<1>1. ASSUME UNCHANGED vars PROVE FALSE
  BY <1>1 DEF vars
<1>2. ASSUME NEW t \in Threads, HostCalls(t) PROVE FALSE
  BY <1>2 DEF HostCalls, Cancel, Claim, Read, Call
<1>3. ASSUME NEW t \in Threads, Panic(t) \/ CallbackCancels(t) \/ CallbackYields(t) PROVE FALSE
  BY <1>3 DEF Panic, CallbackCancels, CallbackYields
<1>4. ASSUME NEW t \in Threads, Continues(t) PROVE Publish(t)
  BY <1>4 DEF Continues, Loop, Lock, Train, Prune, ReadDone, Attach, CallbackResumes, CallbackReturns
<1> QED
  BY <1>1, <1>2, <1>3, <1>4 DEF Next

(***************************************************************************)
(* What Python's getters see of a session, whatever threads, callbacks,    *)
(* cancels and panics do to it, is a session making progress, and it is    *)
(* up to date whenever nobody is inside the mutex.                         *)
(***************************************************************************)
THEOREM PyImplementsProgress == Spec => ImplementsProgress
<1>1. Init => Observed!Init
  <2> SUFFICES ASSUME Init PROVE Observed!Init
    OBVIOUS
  <2>1. PICK n \in StartCounts : inner = NewSession(n)
    BY DEF Init
  <2>2. Len(inner.spheres) = n
    BY <2>1, NewSessionFields
  <2>3. snapshot = Observed!View(IF Iterations = 0 THEN "completed" ELSE "running",
                                 0, n, 0, 0)
    BY <2>1, <2>2 DEF Init, SnapshotOf, ViewOf, NewSession, Observed!View
  <2> QED
    BY <2>3 DEF Observed!Init
<1>2. IInv /\ [Next]_vars => [Observed!Next]_snapshot
  <2> SUFFICES ASSUME IInv, [Next]_vars, snapshot' # snapshot
               PROVE  Observed!Next
    OBVIOUS
  <2>1. PICK t \in Threads : Publish(t)
    BY OnlyPublishWritesSnapshot
  <2>2. Advances(snapshot, snapshot') \/ Prunes(snapshot, snapshot')
    BY <2>1 DEF Publish, IInv, Published, SnapshotOf
  <2>3. Advances(snapshot, snapshot') => Observed!Advance
    BY DEF Advances, Observed!Advance, Observed!View
  <2>4. Prunes(snapshot, snapshot') => Observed!Prune
    BY DEF Prunes, Observed!Prune, Observed!View
  <2> QED
    BY <2>2, <2>3, <2>4 DEF Observed!Next
<1>3. IInv => (lock = NoThread /\ ~poisoned => snapshot = ViewOf(inner))
  BY PyAssumption DEF IInv, Published, Held, Inside
<1> QED
  BY <1>1, <1>2, <1>3, IInvInvariant, PTL DEF Spec, Observed!Spec, ImplementsProgress
-----------------------------------------------------------------------------
(***************************************************************************)
(* The page.                                                               *)
(***************************************************************************)
WebPromises ==
  [phase : {"queued", "looping", "awaiting", "resolved", "busy"}, left : Int,
   budget : BOOLEAN, ran : BOOLEAN]

WebTypes ==
  /\ task \in Seq(WebPromises)
  /\ holder \in {Wasm!Object} \cup DOMAIN task

WebInv == WebTypes /\ Wasm!SessionComesBack

\* Changing one promise leaves the others.
LEMMA OnePromise ==
  ASSUME WebTypes, NEW p \in DOMAIN task, NEW x \in WebPromises, task' = [task EXCEPT ![p] = x]
  PROVE  /\ task' \in Seq(WebPromises)
         /\ DOMAIN task' = DOMAIN task
         /\ task'[p] = x
         /\ \A q \in DOMAIN task \ {p} : task'[q] = task[q]
BY DEF WebTypes

\* What a promise is after each of its steps.
LEMMA PromiseSteps ==
  ASSUME NEW x \in WebPromises
  PROVE  /\ \A f \in {"busy", "looping", "awaiting", "resolved"} :
              [x EXCEPT !.phase = f] \in WebPromises /\ [x EXCEPT !.phase = f].phase = f
         /\ LET y == [x EXCEPT !.phase = "looping", !.left = @ - 1, !.ran = TRUE]
            IN  y \in WebPromises /\ y.phase = "looping"
<1>1. /\ x = [phase |-> x.phase, left |-> x.left, budget |-> x.budget, ran |-> x.ran]
      /\ x.left \in Int /\ x.budget \in BOOLEAN /\ x.ran \in BOOLEAN
  BY DEF WebPromises
<1>2. ASSUME NEW f \in {"busy", "looping", "awaiting", "resolved"}
      PROVE  [x EXCEPT !.phase = f] \in WebPromises /\ [x EXCEPT !.phase = f].phase = f
  <2>1. [x EXCEPT !.phase = f] = [phase |-> f, left |-> x.left, budget |-> x.budget, ran |-> x.ran]
    BY <1>1
  <2> QED
    BY <1>1, <2>1 DEF WebPromises
<1>3. LET y == [x EXCEPT !.phase = "looping", !.left = @ - 1, !.ran = TRUE]
      IN  y \in WebPromises /\ y.phase = "looping"
  <2> DEFINE y == [x EXCEPT !.phase = "looping", !.left = @ - 1, !.ran = TRUE]
             n == x.left - 1
             t == TRUE
  <2>1. n \in Int /\ t \in BOOLEAN
    BY <1>1
  <2>2. y = [x EXCEPT !.phase = "looping", !.left = n, !.ran = t]
    OBVIOUS
  <2> HIDE DEF n, t
  <2>3. [x EXCEPT !.phase = "looping", !.left = n, !.ran = t]
          = [phase |-> "looping", left |-> n, budget |-> x.budget, ran |-> t]
    <3>1. [x EXCEPT !.phase = "looping"]
            = [phase |-> "looping", left |-> x.left, budget |-> x.budget, ran |-> x.ran]
      BY <1>1
    <3>2. [[phase |-> "looping", left |-> x.left, budget |-> x.budget, ran |-> x.ran] EXCEPT !.left = n]
            = [phase |-> "looping", left |-> n, budget |-> x.budget, ran |-> x.ran]
      OBVIOUS
    <3>3. [[phase |-> "looping", left |-> n, budget |-> x.budget, ran |-> x.ran] EXCEPT !.ran = t]
            = [phase |-> "looping", left |-> n, budget |-> x.budget, ran |-> t]
      OBVIOUS
    <3>4. [x EXCEPT !.phase = "looping", !.left = n, !.ran = t]
            = [[[x EXCEPT !.phase = "looping"] EXCEPT !.left = n] EXCEPT !.ran = t]
      OBVIOUS
    <3> QED
      BY <3>1, <3>2, <3>3, <3>4
  <2> HIDE DEF y
  <2>4. y \in WebPromises /\ y.phase = "looping"
    BY <1>1, <2>1, <2>2, <2>3 DEF WebPromises
  <2> QED
    BY <2>4 DEF y
<1> QED
  BY <1>2, <1>3

\* The invariant holds before the page does anything.
LEMMA WebInvInit == Wasm!WInit => WebInv
BY DEF Wasm!WInit, WebInv, WebTypes, Wasm!SessionComesBack, Wasm!SnapshotOf, Wasm!Object

\* Every call of the page and every step of a promise keeps it.
LEMMA WebInvNext == WebInv /\ [Wasm!WNext]_webVars => WebInv'
<1> SUFFICES ASSUME WebInv, [Wasm!WNext]_webVars PROVE WebInv'
  OBVIOUS
<1> USE DEF WebInv, WebTypes, Wasm!SessionComesBack, Wasm!Object
<1>0. Iterations \in Nat
  BY SessionAssumption
<1>10. \A p \in DOMAIN task : task[p] \in WebPromises
  BY ElementOfSeq, LenProperties
<1>1. CASE UNCHANGED webVars
  BY <1>1 DEF webVars
<1>2. CASE Wasm!AskSteps
  <2>1. PICK x \in WebPromises : x.phase = "queued" /\ task' = Append(task, x)
    <3>1. PICK max \in {1, Iterations}, budget \in BOOLEAN :
            task' = Append(task, [phase |-> "queued", left |-> max, budget |-> budget, ran |-> FALSE])
      BY <1>2 DEF Wasm!AskSteps
    <3>2. max \in Int
      BY <1>0
    <3> HIDE DEF WebInv
    <3> QED
      BY <3>1, <3>2 DEF WebPromises
  <2>2. task' \in Seq(WebPromises) /\ Len(task') = Len(task) + 1
    BY <2>1, AppendProperties
  <2>3. \A p \in 1..Len(task) : task'[p] = task[p]
    BY <2>1, AppendProperties
  <2>4. task'[Len(task) + 1] = x
    BY <2>1, AppendProperties
  <2>5. DOMAIN task = 1..Len(task) /\ DOMAIN task' = 1..(Len(task) + 1) /\ Len(task) \in Nat
    BY <2>2, LenProperties
  <2>6. holder # Len(task) + 1
    BY <2>5
  <2>7. \A p \in DOMAIN task' : p \in DOMAIN task \/ p = Len(task) + 1
    BY <2>5
  <2>8. UNCHANGED <<sess, holder, snap, turn>> /\ x.phase \notin {"looping", "awaiting"}
    BY <1>2, <2>1 DEF Wasm!AskSteps
  <2>9. \A p \in DOMAIN task' : task'[p].phase \in {"looping", "awaiting"} <=> holder' = p
    BY <2>3, <2>4, <2>5, <2>6, <2>7, <2>8
  <2>10. holder' \in {Wasm!Object} \cup DOMAIN task'
    BY <2>5, <2>8
  <2> QED
    BY <2>2, <2>8, <2>9, <2>10
<1>3. CASE Wasm!StepSync
  BY <1>3 DEF Wasm!StepSync, Wasm!SnapshotOf
<1>4. CASE Wasm!Finalize
  BY <1>4 DEF Wasm!Finalize, Wasm!SnapshotOf
<1>5. ASSUME NEW p \in DOMAIN task, Wasm!TakeSession(p)
      PROVE  WebInv'
  <2>1. CASE holder # Wasm!Object /\ task' = [task EXCEPT ![p].phase = "busy"] /\ UNCHANGED <<holder, turn>>
    <3> DEFINE x == [task[p] EXCEPT !.phase = "busy"]
    <3>1. x \in WebPromises /\ x.phase = "busy" /\ task' = [task EXCEPT ![p] = x]
      BY <2>1, <1>10, PromiseSteps
    <3>2. task[p].phase = "queued"
      BY <1>5 DEF Wasm!TakeSession
    <3> HIDE DEF x
    <3> QED
      BY <1>5, <2>1, <3>1, <3>2, OnePromise DEF Wasm!TakeSession
  <2>2. CASE holder = Wasm!Object /\ task' = [task EXCEPT ![p].phase = "looping"] /\ holder' = p /\ turn' = p
    <3> DEFINE x == [task[p] EXCEPT !.phase = "looping"]
    <3>1. x \in WebPromises /\ x.phase = "looping" /\ task' = [task EXCEPT ![p] = x]
      BY <2>2, <1>10, PromiseSteps
    <3>2. \A q \in DOMAIN task : q # 0
      BY LenProperties
    <3> HIDE DEF x
    <3> QED
      BY <1>5, <2>2, <3>1, <3>2, OnePromise DEF Wasm!TakeSession
  <2> QED
    BY <1>5, <2>1, <2>2 DEF Wasm!TakeSession
<1>6. ASSUME NEW p \in DOMAIN task, Wasm!Stepped(p), holder = p, UNCHANGED <<holder, snap>>, turn' = p
      PROVE  WebInv'
  <2> DEFINE x == [task[p] EXCEPT !.phase = "looping", !.left = @ - 1, !.ran = TRUE]
  <2>1. x \in WebPromises /\ x.phase = "looping" /\ task' = [task EXCEPT ![p] = x]
    BY <1>6, <1>10, PromiseSteps DEF Wasm!Stepped
  <2>2. p # 0
    BY LenProperties
  <2> HIDE DEF x
  <2> QED
    BY <1>6, <2>1, <2>2, OnePromise
<1>7. ASSUME NEW p \in DOMAIN task, Wasm!StepAsync(p)
      PROVE  WebInv'
  <2>1. p # 0 /\ turn = p /\ holder = p
    BY <1>7, LenProperties DEF Wasm!StepAsync
  <2>2. CASE Wasm!Stepped(p) /\ UNCHANGED turn
    BY <1>6, <1>7, <2>1, <2>2 DEF Wasm!StepAsync
  <2>3. CASE task' = [task EXCEPT ![p].phase = "awaiting"] /\ turn' = 0 /\ UNCHANGED sess
    <3> DEFINE x == [task[p] EXCEPT !.phase = "awaiting"]
    <3>1. x \in WebPromises /\ x.phase = "awaiting" /\ task' = [task EXCEPT ![p] = x]
      BY <2>3, <1>10, PromiseSteps
    <3> HIDE DEF x
    <3> QED
      BY <1>7, <2>1, <2>3, <3>1, OnePromise DEF Wasm!StepAsync
  <2> QED
    BY <1>7, <2>2, <2>3 DEF Wasm!StepAsync
<1>8. ASSUME NEW p \in DOMAIN task, Wasm!Wake(p)
      PROVE  WebInv'
  <2>1. holder = p
    BY <1>8 DEF Wasm!Wake
  <2> QED
    BY <1>6, <1>8, <2>1 DEF Wasm!Wake
<1>9. ASSUME NEW p \in DOMAIN task, Wasm!PutBack(p)
      PROVE  WebInv'
  <2> DEFINE x == [task[p] EXCEPT !.phase = "resolved"]
  <2>1. x \in WebPromises /\ x.phase = "resolved" /\ task' = [task EXCEPT ![p] = x]
    BY <1>9, <1>10, PromiseSteps DEF Wasm!PutBack
  <2>2. p # 0 /\ turn = p /\ holder = p
    BY <1>9, LenProperties DEF Wasm!PutBack
  <2> HIDE DEF x
  <2> QED
    BY <1>9, <2>1, <2>2, OnePromise, SMTT(30) DEF Wasm!PutBack, Wasm!SnapshotOf
<1> QED
  BY <1>1, <1>2, <1>3, <1>4, <1>5, <1>7, <1>8, <1>9 DEF Wasm!WNext, Wasm!Runs


-----------------------------------------------------------------------------
(***************************************************************************)
(* .NET.                                                                   *)
(***************************************************************************)
\* The places in which a run has the native session claimed.
RunPlaces == {"cancel?", "iterate", "callback", "finish", "forget", "giveUp"}

CallFields == {"op", "at", "status", "message", "thrown", "converged", "buffer"}

(***************************************************************************)
(* What a call knows, given what the session published and the history: a  *)
(* run that has come to its end without an error has pruned the session,   *)
(* and one that was cancelled was asked to be, or onStep threw.            *)
(***************************************************************************)
NetCall(c, v, s) ==
  /\ DOMAIN c = CallFields /\ c.message = TRUE
  /\ c.at = "idle" => c = Dotnet!Idle
  /\ c.at \in RunPlaces => c.op \in Dotnet!Runs
  /\ c.op \in Dotnet!Runs /\ c.at \in {"queued", "register", "enter", "cancel?", "iterate", "callback", "finish"} =>
       c.status = "OK" /\ c.thrown = FALSE
  /\ c.op \in Dotnet!Runs /\ c.at \in {"forget", "giveUp", "leave"} /\ c.thrown = FALSE =>
       /\ c.status = "OK" => v.state = "finalized"
       /\ c.status = "CANCELLED" => s.cancel = TRUE
  /\ c.thrown \in BOOLEAN /\ c.converged \in BOOLEAN
  /\ c.converged = TRUE => s.converged = TRUE

NetTypes ==
  /\ DOMAIN call = Threads /\ DOMAIN netResult = Threads
  /\ DOMAIN seen = {"cancel", "converged"} /\ seen.cancel \in BOOLEAN /\ seen.converged \in BOOLEAN
  /\ handle \in {"open", "closed", "freed"} /\ netRunning \in BOOLEAN /\ netCancel \in BOOLEAN

CallsAreKnown == \A t \in Threads : NetCall(call[t], view, seen)

\* The native session is claimed by the one run inside it.
NetOwner ==
  /\ netRunning <=> \E t \in Threads : call[t].at \in RunPlaces
  /\ \A t, u \in Threads : call[t].at \in RunPlaces /\ call[u].at \in RunPlaces => t = u

\* It is freed when nobody is inside, and a cancel was asked for unless it was freed.
NetReleased ==
  /\ handle = "freed" => \A t \in Threads : ~Dotnet!Inside(t)
  /\ netCancel => seen.cancel = TRUE \/ handle = "freed"

NetResults ==
  /\ \A t \in Threads :
       handle = "open" /\ netResult[t].kind = "MorphItException" => netResult[t].message
  /\ Dotnet!ReadsAreWhole

NetInv == NetTypes /\ CallsAreKnown /\ NetOwner /\ NetReleased /\ NetResults

\* History is not forgotten, and a pruned session stays as it is.
Grows ==
  /\ DOMAIN seen' = {"cancel", "converged"} /\ seen'.cancel \in BOOLEAN /\ seen'.converged \in BOOLEAN
  /\ seen.cancel = TRUE => seen'.cancel = TRUE
  /\ seen.converged = TRUE => seen'.converged = TRUE
  /\ view.state = "finalized" => view'.state = "finalized"

\* One thread's call moves on.
Moves(t) ==
  /\ DOMAIN call' = Threads /\ \A u \in Threads : u # t => call'[u] = call[u]
  /\ NetCall(call'[t], view', seen')

LEMMA CallsKeep ==
  ASSUME CallsAreKnown, Grows, NEW t \in Threads, Moves(t)
  PROVE  CallsAreKnown'
<1> SUFFICES ASSUME NEW u \in Threads
             PROVE  NetCall(call'[u], view', seen')
  BY DEF CallsAreKnown
<1>1. CASE u = t
  BY <1>1 DEF Moves
<1>2. CASE u # t
  <2>1. call'[u] = call[u] /\ NetCall(call[u], view, seen)
    BY <1>2 DEF Moves, CallsAreKnown
  <2> QED
    BY <2>1 DEF NetCall, Grows
<1> QED
  BY <1>1, <1>2

\* A call that stays where it is among the places of a run.
LEMMA OwnerStays ==
  ASSUME NetOwner, netRunning' = netRunning, NEW t \in Threads, Moves(t),
         call'[t].at \in RunPlaces <=> call[t].at \in RunPlaces
  PROVE  NetOwner'
<1>1. \A u \in Threads : call'[u].at \in RunPlaces <=> call[u].at \in RunPlaces
  BY DEF Moves
<1> QED
  BY <1>1 DEF NetOwner

\* Nobody enters a handle that is not open.
LEMMA ReleasedStays ==
  ASSUME NetReleased, handle' = handle, NEW t \in Threads, Moves(t),
         Dotnet!Inside(t)' => Dotnet!Inside(t) \/ handle = "open",
         netCancel' => netCancel \/ seen'.cancel = TRUE, Grows
  PROVE  NetReleased'
<1>1. \A u \in Threads : u # t => Dotnet!Inside(u)' = Dotnet!Inside(u)
  BY DEF Moves, Dotnet!Inside
<1> QED
  BY <1>1 DEF NetReleased, Grows

\* The result of a call that returns.
Answered(t, value) ==
  netResult' = [netResult EXCEPT ![t] = value]

LEMMA ResultsStay ==
  ASSUME NetResults, netResult' = netResult, handle' = "open" => handle = "open"
  PROVE  NetResults'
BY DEF NetResults, Dotnet!ReadsAreWhole

LEMMA ResultsKeep ==
  ASSUME NetTypes, NetResults, NEW t \in Threads, NEW value, Answered(t, value),
         handle' = "open" => handle = "open",
         handle' = "open" /\ value.kind = "MorphItException" => value.message,
         value.kind \in Dotnet!Readers => value.length = value.of.count
  PROVE  NetResults' /\ DOMAIN netResult' = Threads
BY DEF NetTypes, NetResults, Dotnet!ReadsAreWhole, Answered

\* What an iteration and a prune leave.
LEMMA AdvanceGrows ==
  ASSUME NetTypes, Dotnet!Advances
  PROVE  Grows
BY DEF NetTypes, Dotnet!Advances, Dotnet!Native!Advance, Grows
LEMMA PruneGrows ==
  ASSUME NetTypes, Dotnet!Prunes, seen' = seen
  PROVE  Grows /\ view'.state = "finalized"
BY DEF NetTypes, Dotnet!Prunes, Dotnet!Native!Prune, Dotnet!Native!View, Grows
LEMMA NothingGrows ==
  ASSUME NetTypes, view' = view, seen' = seen \/ seen' = [seen EXCEPT !.cancel = TRUE]
  PROVE  Grows
BY DEF NetTypes, Grows

\* A call moves on, and neither the claim nor the handle nor a result changes.
LEMMA PlainMove ==
  ASSUME NetInv, NEW t \in Threads, Moves(t), Grows, UNCHANGED <<handle, netRunning, netResult>>,
         call'[t].at \in RunPlaces <=> call[t].at \in RunPlaces,
         Dotnet!Inside(t)' => Dotnet!Inside(t) \/ handle = "open",
         netCancel' \in BOOLEAN, netCancel' => netCancel \/ seen'.cancel = TRUE
  PROVE  NetInv'
<1>1. NetTypes'
  BY DEF NetInv, NetTypes, Moves, Grows
<1> QED
  BY <1>1, CallsKeep, OwnerStays, ReleasedStays, ResultsStay DEF NetInv

\* A call returns what is true, and the session is claimed by whom it was.
LEMMA ReturnMove ==
  ASSUME NetInv, NEW t \in Threads, NEW value, Dotnet!Returns(t, value), Grows,
         call[t].at \notin RunPlaces, netRunning' = netRunning,
         handle' = handle, netCancel' \in BOOLEAN, netCancel' => netCancel \/ seen'.cancel = TRUE,
         value.kind = "MorphItException" => value.message,
         value.kind \in Dotnet!Readers => value.length = value.of.count
  PROVE  NetInv'
<1>1. Moves(t) /\ call'[t] = Dotnet!Idle
  BY DEF NetInv, NetTypes, Moves, Dotnet!Returns, NetCall, Dotnet!Idle, CallFields, RunPlaces, Dotnet!Runs
<1>2. call'[t].at \notin RunPlaces /\ ~Dotnet!Inside(t)'
  BY <1>1 DEF Dotnet!Idle, RunPlaces, Dotnet!Inside, Dotnet!NativePlaces
<1>3. NetResults' /\ DOMAIN netResult' = Threads
  BY ResultsKeep DEF NetInv, Answered, Dotnet!Returns
<1>4. NetTypes'
  BY <1>1, <1>3 DEF NetInv, NetTypes, Moves, Grows
<1> QED
  BY <1>1, <1>2, <1>3, <1>4, CallsKeep, OwnerStays, ReleasedStays DEF NetInv

LEMMA CallHasFields ==
  ASSUME NetInv, NEW t \in Threads
  PROVE  DOMAIN call = Threads /\ DOMAIN call[t] = CallFields /\ NetCall(call[t], view, seen)
BY DEF NetInv, NetTypes, CallsAreKnown, NetCall

LEMMA RunStepsKeep ==
  ASSUME NetInv, NEW t \in Threads,
         \/ Dotnet!TakeCancel(t) \/ Dotnet!Iterate(t) \/ Dotnet!Callback(t)
         \/ Dotnet!Finish(t) \/ Dotnet!Forget(t) \/ Dotnet!Act(t)
  PROVE  NetInv'
<1> USE DEF Dotnet!At, Dotnet!Goto, Dotnet!Ends
<1>0. NetTypes /\ DOMAIN call = Threads /\ DOMAIN call[t] = CallFields /\ NetCall(call[t], view, seen)
  BY CallHasFields DEF NetInv
<1>1. CASE Dotnet!TakeCancel(t)
  <2>1. Grows
    BY <1>0, <1>1, NothingGrows DEF Dotnet!TakeCancel
  <2>2. netCancel => seen.cancel = TRUE
    BY <1>0, <1>1 DEF Dotnet!TakeCancel, NetInv, NetReleased, Dotnet!Inside, Dotnet!NativePlaces
  <2>3. Moves(t)
    BY <1>0, <1>1, <2>2 DEF Dotnet!TakeCancel, Moves, NetCall, CallFields, RunPlaces, Dotnet!Idle, Dotnet!Runs
  <2> QED
    BY <1>0, <1>1, <2>1, <2>3, PlainMove DEF Dotnet!TakeCancel, RunPlaces, Dotnet!Inside, Dotnet!NativePlaces, CallFields
<1>2. CASE Dotnet!Iterate(t)
  <2>1. CASE view.state # "running" /\ call' = [call EXCEPT ![t].at = "finish"] /\ UNCHANGED <<view, seen>>
    <3>1. Grows
      BY <1>0, <2>1, NothingGrows
    <3>2. Moves(t)
      BY <1>0, <1>2, <2>1 DEF Dotnet!Iterate, Moves, NetCall, CallFields, RunPlaces, Dotnet!Idle, Dotnet!Runs
    <3> QED
      BY <1>0, <1>2, <2>1, <3>1, <3>2, PlainMove
      DEF Dotnet!Iterate, RunPlaces, Dotnet!Inside, Dotnet!NativePlaces, CallFields, NetTypes
  <2>2. CASE /\ Dotnet!Advances
             /\ call' = [call EXCEPT ![t].at = "callback", ![t].converged = view'.state = "converged"]
    <3>1. Grows
      BY <1>0, <2>2, AdvanceGrows
    <3>2. Moves(t)
      BY <1>0, <1>2, <2>2, <3>1
      DEF Dotnet!Iterate, Dotnet!Advances, Moves, Grows, NetTypes, NetCall, CallFields, RunPlaces, Dotnet!Idle, Dotnet!Runs
    <3> QED
      BY <1>0, <1>2, <2>2, <3>1, <3>2, PlainMove
      DEF Dotnet!Iterate, RunPlaces, Dotnet!Inside, Dotnet!NativePlaces, CallFields, NetTypes
  <2> QED
    BY <1>2, <2>1, <2>2 DEF Dotnet!Iterate
<1>3. CASE Dotnet!Callback(t)
  <2>1. Grows
    BY <1>0, <1>3, NothingGrows DEF Dotnet!Callback
  <2>2. Moves(t)
    <3>1. CASE call' = [call EXCEPT ![t].at = "cancel?"] /\ UNCHANGED seen
      BY <1>0, <1>3, <3>1 DEF Dotnet!Callback, Moves, NetCall, CallFields, RunPlaces, Dotnet!Idle, Dotnet!Runs
    <3>2. CASE /\ call' = [call EXCEPT ![t].at = "forget", ![t].status = "CANCELLED", ![t].message = TRUE]
               /\ seen' = [seen EXCEPT !.cancel = TRUE]
      BY <1>0, <1>3, <3>2 DEF Dotnet!Callback, Moves, NetTypes, NetCall, CallFields, RunPlaces, Dotnet!Idle, Dotnet!Runs
    <3>3. CASE /\ call' = [call EXCEPT ![t].at = "forget", ![t].status = "CANCELLED", ![t].thrown = TRUE]
               /\ UNCHANGED seen
      BY <1>0, <1>3, <3>3 DEF Dotnet!Callback, Moves, NetCall, CallFields, RunPlaces, Dotnet!Idle, Dotnet!Runs
    <3> QED
      BY <1>3, <3>1, <3>2, <3>3 DEF Dotnet!Callback
  <2>3. call'[t].at \in {"cancel?", "forget"}
    BY <1>0, <1>3 DEF Dotnet!Callback, CallFields
  <2> QED
    BY <1>0, <1>3, <2>1, <2>2, <2>3, PlainMove
    DEF Dotnet!Callback, RunPlaces, Dotnet!Inside, Dotnet!NativePlaces, NetTypes
<1>4. CASE Dotnet!Finish(t)
  <2>1. Grows /\ view'.state = "finalized"
    BY <1>0, <1>4, PruneGrows DEF Dotnet!Finish
  <2>2. Moves(t)
    BY <1>0, <1>4, <2>1 DEF Dotnet!Finish, Moves, Grows, NetCall, CallFields, RunPlaces, Dotnet!Idle, Dotnet!Runs
  <2> QED
    BY <1>0, <1>4, <2>1, <2>2, PlainMove
    DEF Dotnet!Finish, RunPlaces, Dotnet!Inside, Dotnet!NativePlaces, CallFields, NetTypes
<1>5. CASE Dotnet!Forget(t)
  <2>1. Grows
    BY <1>0, <1>5, NothingGrows DEF Dotnet!Forget
  <2>2. Moves(t)
    BY <1>0, <1>5 DEF Dotnet!Forget, Moves, NetCall, CallFields, RunPlaces, Dotnet!Idle, Dotnet!Runs
  <2> QED
    BY <1>0, <1>5, <2>1, <2>2, PlainMove
    DEF Dotnet!Forget, RunPlaces, Dotnet!Inside, Dotnet!NativePlaces, CallFields, NetTypes
<1>6. CASE Dotnet!Act(t)
  <2>1. Grows
    BY <1>0, <1>6, AdvanceGrows, PruneGrows, NothingGrows DEF Dotnet!Act
  <2>2. PICK s \in {"OK", "DONE"} :
          call' = [call EXCEPT ![t].at = "leave", ![t].status = s, ![t].message = TRUE]
    BY <1>6 DEF Dotnet!Act
  <2>3. Moves(t)
    BY <1>0, <1>6, <2>1, <2>2
    DEF Dotnet!Act, Moves, Grows, NetCall, CallFields, RunPlaces, Dotnet!Idle, Dotnet!Runs
  <2>4. call'[t].at = "leave"
    BY <1>0, <2>2 DEF CallFields
  <2> QED
    BY <1>0, <1>6, <2>1, <2>3, <2>4, PlainMove
    DEF Dotnet!Act, RunPlaces, Dotnet!Inside, Dotnet!NativePlaces, NetTypes
<1> QED
  BY <1>1, <1>2, <1>3, <1>4, <1>5, <1>6

\* A cancel asks the session that is not disposed, and is remembered.
LEMMA AsksGrows ==
  ASSUME NetTypes, Dotnet!Asks, view' = view
  PROVE  Grows /\ netCancel' \in BOOLEAN /\ (netCancel' => netCancel \/ seen'.cancel = TRUE)
BY NothingGrows DEF NetTypes, Dotnet!Asks

\* A run that was cancelled may come back as OperationCanceled instead.
LEMMA ConcludesReturns ==
  ASSUME NEW t \in Threads, NEW value, Dotnet!Concludes(t, value)
  PROVE  \/ Dotnet!Returns(t, value)
         \/ Dotnet!Returns(t, Dotnet!Value("OperationCanceled")) /\ token.cancelled /\ value = Dotnet!Value("Cancelled")
BY DEF Dotnet!Concludes, Dotnet!Unregistered

LEMMA TaskStepsKeep ==
  ASSUME NetInv, NEW t \in Threads, Dotnet!Starts(t) \/ Dotnet!Queued(t) \/ Dotnet!Register(t)
  PROVE  NetInv'
<1> USE DEF Dotnet!At, Dotnet!Goto
<1>0. NetTypes /\ DOMAIN call = Threads /\ DOMAIN call[t] = CallFields /\ NetCall(call[t], view, seen)
  BY CallHasFields DEF NetInv
<1>a. ASSUME NEW k \in {"OperationCanceled", "ObjectDisposed"}
      PROVE  /\ Dotnet!Value(k).kind # "MorphItException"
             /\ Dotnet!Value(k).kind \notin Dotnet!Readers
  BY DEF Dotnet!Value, Dotnet!Readers
<1>1. CASE Dotnet!Starts(t)
  <2>1. Grows
    BY <1>0, <1>1, NothingGrows DEF Dotnet!Starts
  <2>2. PICK new \in Dotnet!Ops : call' = [call EXCEPT ![t].op = new, ![t].at = Dotnet!Entry(new)]
    BY <1>1 DEF Dotnet!Starts
  <2>a. call[t].status = "OK" /\ call[t].thrown = FALSE /\ call[t].converged = FALSE
    <3>1. call[t] = Dotnet!Idle
      BY <1>0, <1>1 DEF Dotnet!Starts, NetCall
    <3> QED
      BY <3>1 DEF Dotnet!Idle
  <2>b. Dotnet!Entry(new) \in {"queued", "enter"}
    BY DEF Dotnet!Entry
  <2>3. Moves(t)
    BY <1>0, <1>1, <2>2, <2>a, <2>b
    DEF Dotnet!Starts, Moves, NetCall, CallFields, RunPlaces, Dotnet!Idle, Dotnet!Runs
  <2>4. call'[t].at \in {"queued", "enter"}
    BY <1>0, <2>2 DEF CallFields, Dotnet!Entry
  <2> QED
    BY <1>0, <1>1, <2>1, <2>3, <2>4, PlainMove
    DEF Dotnet!Starts, RunPlaces, Dotnet!Inside, Dotnet!NativePlaces, NetTypes
<1>2. CASE Dotnet!Queued(t)
  <2>1. Grows
    BY <1>0, <1>2, NothingGrows DEF Dotnet!Queued
  <2>2. CASE Dotnet!Returns(t, Dotnet!Value("OperationCanceled"))
    BY <1>0, <1>2, <1>a, <2>1, <2>2, ReturnMove DEF Dotnet!Queued, RunPlaces, NetTypes
  <2>3. CASE call' = [call EXCEPT ![t].at = "register"] /\ UNCHANGED netResult
    <3>1. Moves(t)
      BY <1>0, <1>2, <2>3 DEF Dotnet!Queued, Moves, NetCall, CallFields, RunPlaces, Dotnet!Idle, Dotnet!Runs
    <3> QED
      BY <1>0, <1>2, <2>1, <2>3, <3>1, PlainMove
      DEF Dotnet!Queued, RunPlaces, Dotnet!Inside, Dotnet!NativePlaces, CallFields, NetTypes
  <2> QED
    BY <1>2, <2>2, <2>3 DEF Dotnet!Queued
<1>3. CASE Dotnet!Register(t)
  <2>1. Grows /\ netCancel' \in BOOLEAN /\ (netCancel' => netCancel \/ seen'.cancel = TRUE)
    BY <1>0, <1>3, NothingGrows, AsksGrows DEF Dotnet!Register, NetTypes
  <2>2. CASE Dotnet!Returns(t, Dotnet!Value("ObjectDisposed"))
    BY <1>0, <1>3, <1>a, <2>1, <2>2, ReturnMove DEF Dotnet!Register, RunPlaces
  <2>3. CASE call' = [call EXCEPT ![t].at = "enter"] /\ UNCHANGED netResult
    <3>1. Moves(t)
      BY <1>0, <1>3, <2>1, <2>3
      DEF Dotnet!Register, Moves, Grows, NetCall, CallFields, RunPlaces, Dotnet!Idle, Dotnet!Runs
    <3> QED
      BY <1>0, <1>3, <2>1, <2>3, <3>1, PlainMove
      DEF Dotnet!Register, RunPlaces, Dotnet!Inside, Dotnet!NativePlaces, CallFields
  <2> QED
    BY <1>3, <2>2, <2>3 DEF Dotnet!Register
<1> QED
  BY <1>1, <1>2, <1>3

LEMMA ReadStepsKeep ==
  ASSUME NetInv, NEW t \in Threads, Dotnet!AskSize(t) \/ Dotnet!Copy(t)
  PROVE  NetInv'
<1> USE DEF Dotnet!At, Dotnet!Ends
<1>0. NetTypes /\ DOMAIN call = Threads /\ DOMAIN call[t] = CallFields /\ NetCall(call[t], view, seen)
  BY CallHasFields DEF NetInv
<1>1. Grows
  BY <1>0, NothingGrows DEF Dotnet!AskSize, Dotnet!Copy
<1>2. /\ DOMAIN call' = Threads /\ \A u \in Threads : u # t => call'[u] = call[u]
      /\ DOMAIN call'[t] = CallFields /\ call'[t].at = "leave" /\ call'[t].op = call[t].op
      /\ call'[t].message = TRUE /\ call'[t].thrown = call[t].thrown
      /\ call'[t].converged = call[t].converged
  <2>1. CASE Dotnet!AskSize(t)
    BY <1>0, <2>1 DEF Dotnet!AskSize, CallFields, NetCall
  <2>2. CASE Dotnet!Copy(t)
    BY <1>0, <2>2 DEF Dotnet!Copy, CallFields, NetCall
  <2> QED
    BY <2>1, <2>2
<1>3. call[t].op \in Dotnet!Readers
  BY DEF Dotnet!AskSize, Dotnet!Copy
<1>4. Moves(t)
  BY <1>0, <1>1, <1>2, <1>3
  DEF Dotnet!AskSize, Dotnet!Copy, Grows, Moves, Dotnet!Readers, NetCall, CallFields, RunPlaces, Dotnet!Idle, Dotnet!Runs
<1>5. /\ handle = "open" /\ call[t].at = "enter"
      /\ UNCHANGED <<handle, netRunning, netResult, netCancel>>
  BY DEF Dotnet!AskSize, Dotnet!Copy
<1>6. call'[t].at \in RunPlaces <=> call[t].at \in RunPlaces
  BY <1>2, <1>5 DEF RunPlaces
<1> QED
  BY <1>0, <1>1, <1>4, <1>5, <1>6, PlainMove DEF NetTypes

\* Whoever claims the session finds it free, and gives it up on the way out.
LEMMA EnterKeeps ==
  ASSUME NetInv, NEW t \in Threads, Dotnet!Enter(t)
  PROVE  NetInv'
<1> USE DEF Dotnet!At, Dotnet!Goto, Dotnet!Ends
<1>0. NetTypes /\ DOMAIN call = Threads /\ DOMAIN call[t] = CallFields /\ NetCall(call[t], view, seen)
  BY CallHasFields DEF NetInv
<1>1. Grows
  BY <1>0, NothingGrows DEF Dotnet!Enter
<1>2. /\ call[t].at = "enter" /\ call[t].at \notin RunPlaces /\ netCancel' = netCancel /\ handle' = handle
      /\ view' = view /\ seen' = seen
  BY DEF Dotnet!Enter, RunPlaces
<1>3. CASE Dotnet!Concludes(t, Dotnet!Value("ObjectDisposed")) /\ UNCHANGED netRunning
  <2>1. PICK k \in {"OperationCanceled", "ObjectDisposed"} : Dotnet!Returns(t, Dotnet!Value(k))
    BY <1>3, ConcludesReturns
  <2>2. /\ Dotnet!Value(k).kind # "MorphItException"
        /\ Dotnet!Value(k).kind \notin Dotnet!Readers
    BY DEF Dotnet!Value, Dotnet!Readers
  <2> QED
    BY <1>0, <1>1, <1>2, <1>3, <2>1, <2>2, ReturnMove DEF NetTypes
<1>4. CASE /\ handle = "open" /\ UNCHANGED <<netRunning, netResult>>
           /\ call[t].op \notin Dotnet!Runs
           /\ call' = [call EXCEPT ![t].at = "act"]
  <2>1. Moves(t) /\ call'[t].at = "act"
    BY <1>0, <1>2, <1>4 DEF Moves, NetCall, CallFields, RunPlaces, Dotnet!Idle
  <2> QED
    BY <1>0, <1>1, <1>2, <1>4, <2>1, PlainMove DEF RunPlaces, NetTypes
<1>5. CASE /\ handle = "open" /\ UNCHANGED <<netRunning, netResult>>
           /\ call' = [call EXCEPT ![t].at = "leave", ![t].status = "BUSY", ![t].message = TRUE]
  <2>1. Moves(t) /\ call'[t].at = "leave"
    BY <1>0, <1>2, <1>5 DEF Moves, NetCall, CallFields, RunPlaces, Dotnet!Idle
  <2> QED
    BY <1>0, <1>1, <1>2, <1>5, <2>1, PlainMove DEF RunPlaces, NetTypes
<1>6. CASE /\ handle = "open" /\ UNCHANGED netResult /\ call[t].op \in Dotnet!Runs
           /\ ~netRunning /\ netRunning' = TRUE
           /\ call' = [call EXCEPT ![t].at = "cancel?"]
  <2>1. Moves(t) /\ call'[t].at = "cancel?"
    BY <1>0, <1>2, <1>6 DEF Moves, NetCall, CallFields, RunPlaces, Dotnet!Idle
  <2>2. \A u \in Threads : u # t => call'[u].at \notin RunPlaces
    BY <1>0, <1>6, <2>1 DEF NetInv, NetOwner, Moves
  <2>3. NetOwner'
    BY <1>6, <2>1, <2>2 DEF NetOwner, RunPlaces
  <2>4. NetTypes'
    BY <1>0, <1>1, <1>2, <1>6, <2>1 DEF NetTypes, Moves, Grows
  <2> QED
    BY <1>1, <1>2, <1>6, <2>1, <2>3, <2>4, CallsKeep, ReleasedStays, ResultsStay DEF NetInv
<1> QED
  BY <1>3, <1>4, <1>5, <1>6 DEF Dotnet!Enter

LEMMA GiveUpKeeps ==
  ASSUME NetInv, NEW t \in Threads, Dotnet!GiveUp(t)
  PROVE  NetInv'
<1> USE DEF Dotnet!At, Dotnet!Goto
<1>0. NetTypes /\ DOMAIN call = Threads /\ DOMAIN call[t] = CallFields /\ NetCall(call[t], view, seen)
  BY CallHasFields DEF NetInv
<1>1. Grows
  BY <1>0, NothingGrows DEF Dotnet!GiveUp
<1>2. /\ call[t].at = "giveUp" /\ netRunning' = FALSE
      /\ UNCHANGED <<netCancel, handle, netResult, view, seen>>
  BY DEF Dotnet!GiveUp
<1>3. Moves(t) /\ call'[t].at = "leave"
  BY <1>0, <1>2 DEF Dotnet!GiveUp, Moves, NetCall, CallFields, RunPlaces, Dotnet!Idle, Dotnet!Runs
<1>4. \A u \in Threads : call'[u].at \notin RunPlaces
  BY <1>2, <1>3 DEF NetInv, NetOwner, Moves, RunPlaces
<1>5. NetOwner'
  BY <1>2, <1>4 DEF NetOwner
<1>6. NetTypes'
  BY <1>0, <1>1, <1>2, <1>3 DEF NetTypes, Moves, Grows
<1>7. Dotnet!Inside(t)
  BY <1>2 DEF Dotnet!Inside, Dotnet!NativePlaces
<1> QED
  BY <1>1, <1>2, <1>3, <1>5, <1>6, <1>7, CallsKeep, ReleasedStays, ResultsStay DEF NetInv

\* Whoever leaves last frees a disposed session; what it says of itself is whole.
LEMMA LeaveKeeps ==
  ASSUME NetInv, NEW t \in Threads, Dotnet!Leave(t)
  PROVE  NetInv'
<1> USE DEF Dotnet!At, Dotnet!Goto
<1>0. NetTypes /\ DOMAIN call = Threads /\ DOMAIN call[t] = CallFields /\ NetCall(call[t], view, seen)
  BY CallHasFields DEF NetInv
<1>1. Grows
  BY <1>0, NothingGrows DEF Dotnet!Leave
<1>2. /\ call[t].at = "leave" /\ UNCHANGED <<view, netRunning, seen>>
      /\ call[t].at \notin RunPlaces
      /\ handle' = "open" => handle = "open" /\ ~Dotnet!Releases(t)
      /\ handle' \in {handle, "freed"}
  BY DEF Dotnet!Leave, Dotnet!Releases, RunPlaces
<1>3. /\ DOMAIN call' = Threads /\ \A u \in Threads : u # t => call'[u] = call[u]
      /\ \/ call'[t] = Dotnet!Idle
         \/ call'[t] = [call[t] EXCEPT !.at = "enter"] /\ call[t].op \in Dotnet!Readers
  <2>1. CASE \E value : Dotnet!Concludes(t, value)
    <3>1. PICK value : Dotnet!Returns(t, value)
      BY <2>1, ConcludesReturns
    <3> QED
      BY <1>0, <3>1 DEF Dotnet!Returns, NetTypes
  <2>2. CASE \E value : Dotnet!Returns(t, value)
    BY <1>0, <2>2 DEF Dotnet!Returns, NetTypes
  <2>3. CASE call' = [call EXCEPT ![t].at = "enter"] /\ call[t].op \in Dotnet!Readers
    BY <1>0, <2>3 DEF NetTypes
  <2> QED
    BY <2>1, <2>2, <2>3 DEF Dotnet!Leave
<1>4. Moves(t)
  <2>1. CASE call'[t] = Dotnet!Idle
    BY <1>3, <2>1 DEF Moves, NetCall, Dotnet!Idle, CallFields, RunPlaces, Dotnet!Runs
  <2>2. CASE call'[t] = [call[t] EXCEPT !.at = "enter"] /\ call[t].op \in Dotnet!Readers
    BY <1>0, <1>1, <1>2, <1>3, <2>2
    DEF Moves, Grows, NetCall, CallFields, RunPlaces, Dotnet!Readers, Dotnet!Runs
  <2> QED
    BY <1>3, <2>1, <2>2
<1>5. call'[t].at \notin RunPlaces /\ ~Dotnet!Inside(t)'
  BY <1>0, <1>3 DEF CallFields, Dotnet!Idle, RunPlaces, Dotnet!Inside, Dotnet!NativePlaces
<1>6. NetOwner'
  BY <1>2, <1>4, <1>5, OwnerStays DEF NetInv
<1>7. NetReleased' /\ netCancel' \in BOOLEAN
  <2>1. CASE Dotnet!Releases(t)
    <3>1. \A u \in Threads : u # t => ~Dotnet!Inside(u)'
      BY <1>3, <2>1 DEF Dotnet!Releases, Dotnet!Inside
    <3>2. handle' = "freed" /\ netCancel' = TRUE
      BY <2>1 DEF Dotnet!Leave
    <3> QED
      BY <1>5, <3>1, <3>2 DEF NetReleased
  <2>2. CASE ~Dotnet!Releases(t)
    <3>1. UNCHANGED <<handle, netCancel>>
      BY <2>2 DEF Dotnet!Leave
    <3> QED
      BY <1>0, <1>1, <1>4, <1>5, <3>1, ReleasedStays DEF NetInv, NetTypes
  <2> QED
    BY <2>1, <2>2
<1>8. NetResults' /\ DOMAIN netResult' = Threads
  <2>1. ASSUME NEW value, Dotnet!Returns(t, value),
               value.kind = "MorphItException" => value.message = (call[t].message /\ ~Dotnet!Releases(t)),
               value.kind \in Dotnet!Readers => value.length = value.of.count
        PROVE  NetResults' /\ DOMAIN netResult' = Threads
    BY <1>0, <1>2, <2>1, ResultsKeep DEF NetInv, Answered, Dotnet!Returns, NetCall
  <2> DEFINE message == call[t].message /\ ~Dotnet!Releases(t)
  <2>2. ASSUME NEW k \in {"ok", "onStep", "Cancelled", "Converged", "Completed", "OperationCanceled"}
        PROVE  /\ Dotnet!Value(k).kind # "MorphItException"
               /\ Dotnet!Value(k).kind \notin Dotnet!Readers
    BY DEF Dotnet!Value, Dotnet!Readers
  <2>3. ASSUME NEW s
        PROVE  /\ Dotnet!Exception(s, message).message = message
               /\ Dotnet!Exception(s, message).kind \notin Dotnet!Readers
    BY DEF Dotnet!Exception, Dotnet!Readers
  <2>4. CASE Dotnet!Concludes(t, Dotnet!RunValue(call[t], message))
    <3>1. CASE Dotnet!Returns(t, Dotnet!Value("OperationCanceled"))
      BY <2>1, <2>2, <3>1
    <3>2. CASE Dotnet!Returns(t, Dotnet!RunValue(call[t], message))
      <4>1. \/ Dotnet!RunValue(call[t], message) = Dotnet!Exception(call[t].status, message)
            \/ \E k \in {"onStep", "Cancelled", "Converged", "Completed"} :
                  Dotnet!RunValue(call[t], message) = Dotnet!Value(k)
        BY DEF Dotnet!RunValue
      <4> QED
        BY <2>1, <2>2, <2>3, <3>2, <4>1
    <3> QED
      BY <2>4, <3>1, <3>2, ConcludesReturns
  <2>5. CASE Dotnet!Returns(t, Dotnet!Exception(call[t].status, message))
    BY <2>1, <2>3, <2>5
  <2>6. CASE Dotnet!Returns(t, Dotnet!ReadValue(call[t])) /\ call[t].op \in Dotnet!Readers
    <3>1. /\ Dotnet!ReadValue(call[t]).kind = call[t].op /\ call[t].op # "MorphItException"
          /\ Dotnet!ReadValue(call[t]).length = Dotnet!ReadValue(call[t]).of.count
      BY <2>6 DEF Dotnet!ReadValue, Dotnet!Readers
    <3> QED
      BY <2>1, <2>6, <3>1
  <2>7. CASE Dotnet!Returns(t, Dotnet!Value("ok"))
    BY <2>1, <2>2, <2>7
  <2>8. CASE UNCHANGED netResult
    BY <1>0, <1>2, <2>8, ResultsStay DEF NetInv, NetTypes
  <2> QED
    BY <2>4, <2>5, <2>6, <2>7, <2>8 DEF Dotnet!Leave
<1>9. NetTypes'
  BY <1>0, <1>1, <1>2, <1>4, <1>7, <1>8 DEF NetTypes, Moves, Grows
<1> QED
  BY <1>1, <1>4, <1>6, <1>7, <1>8, <1>9, CallsKeep DEF NetInv

\* Cancelling and disposing, and the token that cancels, move no call.
LEMMA OthersKeep ==
  ASSUME NetInv, view' = view, netRunning' = netRunning, call' = call,
         \/ \E t \in Threads : Dotnet!Cancel(t) \/ Dotnet!Dispose(t)
         \/ Dotnet!CancelToken \/ Dotnet!CallRegistered
         \/ UNCHANGED netVars
  PROVE  NetInv'
<1>0. NetTypes
  BY DEF NetInv
<1>1. Grows /\ netCancel' \in BOOLEAN
  <2>1. CASE Dotnet!Asks
    BY <1>0, <2>1, AsksGrows
  <2>2. CASE seen' = seen /\ netCancel' \in BOOLEAN
    BY <1>0, <2>2, NothingGrows
  <2> QED
    BY <1>0, <2>1, <2>2
    DEF Dotnet!Cancel, Dotnet!Dispose, Dotnet!CancelToken, Dotnet!CallRegistered, netVars, NetTypes
<1>2. CallsAreKnown'
  BY <1>1 DEF NetInv, CallsAreKnown, NetCall, Grows
<1>3. NetOwner'
  BY DEF NetInv, NetOwner
<1>4. \A t \in Threads : Dotnet!Inside(t)' <=> Dotnet!Inside(t)
  BY DEF Dotnet!Inside
<1>5. /\ handle' \in {handle, "closed", "freed"}
      /\ handle' # "freed" /\ netCancel' => netCancel \/ seen'.cancel = TRUE
      /\ handle' = "freed" => handle = "freed" \/ \A t \in Threads : ~Dotnet!Inside(t)
      /\ handle = "freed" => handle' = "freed"
  <2>1. CASE Dotnet!Asks /\ handle' = handle
    BY <1>0, <2>1, AsksGrows
  <2>2. CASE \E t \in Threads : Dotnet!Dispose(t)
    BY <2>2 DEF Dotnet!Dispose
  <2>3. CASE netCancel' = netCancel /\ handle' = handle
    BY <2>3
  <2> QED
    BY <2>1, <2>2, <2>3 DEF Dotnet!Cancel, Dotnet!CancelToken, Dotnet!CallRegistered, netVars
<1>6. NetReleased'
  BY <1>1, <1>4, <1>5 DEF NetInv, NetReleased, Grows
<1>7. NetResults' /\ DOMAIN netResult' = Threads
  <2>1. CASE UNCHANGED netResult
    BY <1>0, <1>5, <2>1, ResultsStay DEF NetInv, NetTypes
  <2>2. ASSUME NEW t \in Threads, NEW k \in {"ok", "ObjectDisposed"},
               netResult' = [netResult EXCEPT ![t] = Dotnet!Value(k)], handle' = "open" => handle = "open"
        PROVE  NetResults' /\ DOMAIN netResult' = Threads
    <3>1. /\ Dotnet!Value(k).kind # "MorphItException"
          /\ Dotnet!Value(k).kind \notin Dotnet!Readers
      BY DEF Dotnet!Value, Dotnet!Readers
    <3> QED
      BY <1>0, <2>2, <3>1, ResultsKeep DEF NetInv, Answered
  <2>3. ASSUME NEW t \in Threads, Dotnet!Cancel(t)
        PROVE  NetResults' /\ DOMAIN netResult' = Threads
    BY <2>2, <2>3 DEF Dotnet!Cancel, Dotnet!Answer
  <2>4. ASSUME NEW t \in Threads, Dotnet!Dispose(t)
        PROVE  NetResults' /\ DOMAIN netResult' = Threads
    BY <2>2, <2>4 DEF Dotnet!Dispose
  <2> QED
    BY <2>1, <2>3, <2>4 DEF Dotnet!CancelToken, Dotnet!CallRegistered, netVars
<1>8. NetTypes'
  BY <1>0, <1>1, <1>5, <1>7 DEF NetTypes, Grows
<1> QED
  BY <1>2, <1>3, <1>6, <1>7, <1>8 DEF NetInv

LEMMA NetInvInit == Dotnet!Init => NetInv
<1> SUFFICES ASSUME Dotnet!Init
             PROVE  NetInv
  OBVIOUS
<1> USE DEF Dotnet!Init
<1>1. \A t \in Threads : call[t] = Dotnet!Idle /\ netResult[t] = Dotnet!None
  OBVIOUS
<1>2. NetCall(Dotnet!Idle, view, seen)
  BY DEF NetCall, Dotnet!Idle, CallFields, RunPlaces, Dotnet!Runs
<1>3. Dotnet!Idle.at = "idle" /\ Dotnet!None.kind = "none"
  BY DEF Dotnet!Idle, Dotnet!None
<1>4. NetTypes /\ CallsAreKnown
  BY <1>1, <1>2 DEF NetTypes, CallsAreKnown
<1>5. NetOwner /\ NetReleased
  BY <1>1, <1>3 DEF NetOwner, NetReleased, RunPlaces
<1>6. NetResults
  BY <1>1, <1>3 DEF NetResults, Dotnet!ReadsAreWhole, Dotnet!Readers
<1> QED
  BY <1>4, <1>5, <1>6 DEF NetInv

LEMMA NetInvNext == NetInv /\ [Dotnet!Next]_netVars => NetInv'
<1> SUFFICES ASSUME NetInv, [Dotnet!Next]_netVars
             PROVE  NetInv'
  OBVIOUS
<1>1. CASE Dotnet!CancelToken \/ Dotnet!CallRegistered \/ UNCHANGED netVars
  BY <1>1, OthersKeep DEF Dotnet!CancelToken, Dotnet!CallRegistered, netVars
<1>2. ASSUME NEW t \in Threads, Dotnet!Cancel(t) \/ Dotnet!Dispose(t)
      PROVE  NetInv'
  BY <1>2, OthersKeep DEF Dotnet!Cancel, Dotnet!Dispose
<1>3. ASSUME NEW t \in Threads, Dotnet!Starts(t) \/ Dotnet!Continues(t)
      PROVE  NetInv'
  BY <1>3, TaskStepsKeep, EnterKeeps, ReadStepsKeep, LeaveKeeps, RunStepsKeep, GiveUpKeeps
  DEF Dotnet!Continues
<1> QED
  BY <1>1, <1>2, <1>3 DEF Dotnet!Next

\* A call that comes back from C does so by its own step.
LEMMA OnlyLeaveLeaves ==
  ASSUME NetTypes, [Dotnet!Next]_netVars, NEW t \in Threads, call[t].at = "leave", call'[t].at # "leave"
  PROVE  Dotnet!Leave(t)
<1> USE DEF Dotnet!At, Dotnet!Goto, Dotnet!Ends, Dotnet!Returns, NetTypes
<1>1. call' # call
  OBVIOUS
<1>2. ASSUME NEW u \in Threads, call[u].at # "leave", NEW c, call' = [call EXCEPT ![u] = c]
      PROVE  FALSE
  BY <1>2
<1>3. ASSUME NEW u \in Threads, Dotnet!Starts(u) PROVE FALSE
  <2>1. call[u].at # "leave"
    BY <1>3 DEF Dotnet!Starts
  <2>2. PICK new : call' = [call EXCEPT ![u].op = new, ![u].at = Dotnet!Entry(new)]
    BY <1>3 DEF Dotnet!Starts
  <2> QED
    BY <2>1, <2>2
<1>4. ASSUME NEW u \in Threads, Dotnet!Queued(u) \/ Dotnet!Register(u) PROVE FALSE
  BY <1>4 DEF Dotnet!Queued, Dotnet!Register
<1>5. ASSUME NEW u \in Threads, Dotnet!Enter(u) PROVE FALSE
  BY <1>5 DEF Dotnet!Enter, Dotnet!Concludes, Dotnet!Unregistered
<1>6. ASSUME NEW u \in Threads, Dotnet!AskSize(u) \/ Dotnet!Copy(u) PROVE FALSE
  BY <1>6 DEF Dotnet!AskSize, Dotnet!Copy
<1>7. ASSUME NEW u \in Threads,
             Dotnet!TakeCancel(u) \/ Dotnet!Iterate(u) \/ Dotnet!Callback(u) \/ Dotnet!Finish(u)
      PROVE  FALSE
  BY <1>7 DEF Dotnet!TakeCancel, Dotnet!Iterate, Dotnet!Callback, Dotnet!Finish
<1>8. ASSUME NEW u \in Threads, Dotnet!Forget(u) \/ Dotnet!GiveUp(u) \/ Dotnet!Act(u) PROVE FALSE
  BY <1>8 DEF Dotnet!Forget, Dotnet!GiveUp, Dotnet!Act
<1>9. ASSUME NEW u \in Threads, Dotnet!Leave(u) PROVE u = t
  <2>1. \E c : call' = [call EXCEPT ![u] = c]
    BY <1>9 DEF Dotnet!Leave, Dotnet!Concludes, Dotnet!Unregistered
  <2> QED
    BY <2>1
<1> QED
  BY <1>1, <1>3, <1>4, <1>5, <1>6, <1>7, <1>8, <1>9
  DEF Dotnet!Next, Dotnet!Continues, Dotnet!Cancel, Dotnet!Dispose, Dotnet!CancelToken, Dotnet!CallRegistered, netVars

\* What the end of a run says, from what its call knows.
LEMMA RunsSayWhatHappened ==
  ASSUME NetInv, NEW t \in Threads, Dotnet!Leave(t), call[t].op \in Dotnet!Runs
  PROVE  /\ call[t].thrown <=> netResult'[t].kind = "onStep"
         /\ netResult'[t].kind \in {"Completed", "Converged"} => view.state = "finalized"
         /\ netResult'[t].kind = "Converged" => seen.converged
         /\ netResult'[t].kind = "Cancelled" => seen.cancel
         /\ netResult'[t].kind = "OperationCanceled" => token.cancelled
<1> DEFINE c == call[t]
           m == c.message /\ ~Dotnet!Releases(t)
<1>0. c.thrown \in BOOLEAN /\ c.converged \in BOOLEAN /\ DOMAIN netResult = Threads
  BY DEF NetInv, CallsAreKnown, NetCall, NetTypes
<1>1. /\ c.thrown = FALSE /\ c.status = "OK" => view.state = "finalized"
      /\ c.thrown = FALSE /\ c.status = "CANCELLED" => seen.cancel = TRUE
      /\ c.converged = TRUE => seen.converged = TRUE
  BY DEF Dotnet!Leave, Dotnet!At, NetInv, CallsAreKnown, NetCall
<1>2. Dotnet!Concludes(t, Dotnet!RunValue(c, m))
  BY DEF Dotnet!Leave, Dotnet!Runs, Dotnet!Readers
<1>3. \/ netResult'[t] = Dotnet!RunValue(c, m)
      \/ /\ netResult'[t] = Dotnet!Value("OperationCanceled") /\ token.cancelled
         /\ Dotnet!RunValue(c, m) = Dotnet!Value("Cancelled")
  BY <1>0, <1>2, ConcludesReturns DEF Dotnet!Returns
<1>4. /\ \A k : Dotnet!Value(k).kind = k
      /\ \A s : Dotnet!Exception(s, m).kind = "MorphItException"
  BY DEF Dotnet!Value, Dotnet!Exception
<1>5. c.thrown = TRUE <=> Dotnet!RunValue(c, m).kind = "onStep"
  BY <1>0, <1>4 DEF Dotnet!RunValue
<1>6. /\ Dotnet!RunValue(c, m).kind \in {"Completed", "Converged"} => c.thrown = FALSE /\ c.status = "OK"
      /\ Dotnet!RunValue(c, m).kind = "Converged" => c.converged = TRUE
      /\ Dotnet!RunValue(c, m).kind = "Cancelled" => c.thrown = FALSE /\ c.status = "CANCELLED"
      /\ Dotnet!RunValue(c, m).kind # "OperationCanceled"
  BY <1>0, <1>4 DEF Dotnet!RunValue
<1> HIDE DEF c, m
<1>7. CASE netResult'[t] = Dotnet!RunValue(c, m)
  BY <1>0, <1>1, <1>5, <1>6, <1>7 DEF c
<1>8. CASE /\ netResult'[t] = Dotnet!Value("OperationCanceled") /\ token.cancelled
           /\ Dotnet!RunValue(c, m) = Dotnet!Value("Cancelled")
  <2>1. netResult'[t].kind = "OperationCanceled" /\ Dotnet!RunValue(c, m).kind = "Cancelled"
    BY <1>4, <1>8
  <2> QED
    BY <1>0, <1>5, <1>6, <1>8, <2>1 DEF c
<1> QED
  BY <1>3, <1>7, <1>8
-----------------------------------------------------------------------------
AllVars == <<binding, vars, webVars, netVars>>

\* A behaviour of the bindings is one of each of them, two of which stand still.
LEMMA BindingsAreEach ==
  FairSpec => /\ Spec
              /\ Wasm!WInit /\ [][Wasm!WNext]_webVars
              /\ Dotnet!Init /\ [][Dotnet!Next]_netVars
<1>1. BindingsInit => Init /\ Wasm!WInit /\ Dotnet!Init
  BY DEF BindingsInit
<1>2. [BindingsNext]_AllVars => [Next]_vars /\ [Wasm!WNext]_webVars /\ [Dotnet!Next]_netVars
  BY DEF BindingsNext, AllVars
<1> QED
  BY <1>1, <1>2, PTL DEF FairSpec, Spec, AllVars

LEMMA WebInvariant == FairSpec => []WebInv
BY BindingsAreEach, WebInvInit, WebInvNext, PTL

LEMMA NetInvariant == FairSpec => []NetInv
BY BindingsAreEach, NetInvInit, NetInvNext, PTL

(***************************************************************************)
(* The session is in its object or in exactly one unfinished promise       *)
(* (session.rs, JsSession::run takes it out and puts it back), and what    *)
(* the page reads of an idle object is current.                            *)
(***************************************************************************)
THEOREM SessionAlwaysComesBack == FairSpec => []SessionComesBack
<1>1. WebInv => SessionComesBack
  BY DEF WebInv, SessionComesBack
<1> QED
  BY <1>1, WebInvariant, PTL

(***************************************************************************)
(* A reader of .NET returns one snapshot (Session.cs, Read; Handles.cs,    *)
(* ReadString), also when a run ends and prunes between its two calls.     *)
(***************************************************************************)
THEOREM ReadsAreAlwaysWhole == FairSpec => []ReadsAreWhole
<1>1. NetInv => ReadsAreWhole
  BY DEF NetInv, NetResults, ReadsAreWhole
<1> QED
  BY <1>1, NetInvariant, PTL

(***************************************************************************)
(* What run returns in Python is so; and what Run and RunAsync return or   *)
(* throw in .NET is so, a busy or used session is never freed, and an      *)
(* exception has its message unless the session was disposed, for every    *)
(* interleaving of threads, onStep, cancels, the token and Dispose.        *)
(***************************************************************************)
THEOREM OutcomesAreAlwaysTrue == FairSpec => OutcomesAreTrue
<1>1. NetInv /\ [Dotnet!Next]_netVars =>
        [\A t \in Threads :
          call[t].op \in Dotnet!Runs /\ Dotnet!At(t, "leave") /\ call'[t].at = "idle" =>
            /\ call[t].thrown <=> netResult'[t].kind = "onStep"
            /\ netResult'[t].kind \in {"Completed", "Converged"} => view.state = "finalized"
            /\ netResult'[t].kind = "Converged" => seen.converged
            /\ netResult'[t].kind = "Cancelled" => seen.cancel
            /\ netResult'[t].kind = "OperationCanceled" => token.cancelled]_(Dotnet!vars)
  <2> SUFFICES ASSUME NetInv, [Dotnet!Next]_netVars, NEW t \in Threads, call[t].op \in Dotnet!Runs,
                      Dotnet!At(t, "leave"), call'[t].at = "idle"
               PROVE  /\ call[t].thrown <=> netResult'[t].kind = "onStep"
                      /\ netResult'[t].kind \in {"Completed", "Converged"} => view.state = "finalized"
                      /\ netResult'[t].kind = "Converged" => seen.converged
                      /\ netResult'[t].kind = "Cancelled" => seen.cancel
                      /\ netResult'[t].kind = "OperationCanceled" => token.cancelled
    OBVIOUS
  <2>1. Dotnet!Leave(t)
    BY OnlyLeaveLeaves DEF NetInv, Dotnet!At
  <2> QED
    BY <2>1, RunsSayWhatHappened
<1>2. NetInv => /\ handle = "freed" => ~netRunning /\ \A t \in Threads : ~Dotnet!Inside(t)
                /\ handle = "open" => \A t \in Threads :
                                        netResult[t].kind = "MorphItException" => netResult[t].message
  <2> SUFFICES ASSUME NetInv
               PROVE  /\ handle = "freed" => ~netRunning /\ \A t \in Threads : ~Dotnet!Inside(t)
                      /\ handle = "open" => \A t \in Threads :
                                        netResult[t].kind = "MorphItException" => netResult[t].message
    OBVIOUS
  <2>1. \A t \in Threads : call[t].at \in RunPlaces => Dotnet!Inside(t)
    BY DEF Dotnet!Inside, Dotnet!NativePlaces, RunPlaces
  <2> QED
    BY <2>1 DEF NetInv, NetReleased, NetOwner, NetResults
<1>3. FairSpec => RunsEndTruthfully
  BY BindingsAreEach, RunsAlwaysEndTruthfully, PTL
<1>4. FairSpec => Dotnet!OutcomesAreTrue
  BY <1>1, <1>2, BindingsAreEach, NetInvariant, PTL DEF Dotnet!OutcomesAreTrue
<1> QED
  BY <1>3, <1>4 DEF OutcomesAreTrue
=============================================================================
