------------------------- MODULE PackSessionProofs -------------------------
(***************************************************************************)
(* What PackSession guarantees for every target, interval, patience,       *)
(* cooling factor, number of iterations and initial population: its        *)
(* invariants, its action property, and that it implements                 *)
(* SessionProgress.  Then what the geometry adds: for every segment,       *)
(* samples, spheres and moves, a session on a line is one of PackSession's *)
(* and its final prune changes no metric; and the gradients it descends    *)
(* are derivatives of the losses.                                          *)
(*                                                                         *)
(* IInv is inductive.  Beyond the properties it says that the last pass    *)
(* lies in the past, which is what bounds the distance to it.  LineInv is  *)
(* the inductive invariant of the session on a line.                       *)
(***************************************************************************)
EXTENDS LineSession, SessionProofs, WellFoundedInduction

(***************************************************************************)
(* The session always has its type: THEOREM PackTypeCorrect.               *)
(***************************************************************************)
LEMMA PackTypeInit == Init => TypeOK
BY NewSessionFields DEF Init, TypeOK

\* Training, passes and the final prune keep every field in its type.
LEMMA PackTypeNext == TypeOK /\ [Next]_sess => TypeOK'
<1> SUFFICES ASSUME TypeOK, [Next]_sess PROVE TypeOK'
  OBVIOUS
<1> USE DEF TypeOK
<1>1. CASE Step
  BY <1>1, StepFields DEF Step
<1>2. CASE Finalize
  BY <1>2, FinalizeFields DEF Finalize
<1>3. CASE UNCHANGED sess
  BY <1>3
<1> QED
  BY <1>1, <1>2, <1>3 DEF Next

(***************************************************************************)
(* Every field of the session has its type and a session is never left     *)
(* without spheres, whatever a pass or the final prune removes.            *)
(***************************************************************************)
THEOREM PackTypeCorrect == Spec => []TypeOK
BY PackTypeInit, PackTypeNext, PTL DEF Spec
-----------------------------------------------------------------------------
(***************************************************************************)
(* The inductive invariant.                                                *)
(***************************************************************************)
PassInThePast == sess.lastPass <= sess.iteration

IInv ==
  /\ TypeOK
  /\ MomentsMatchSpheres
  /\ SpheresDistinct
  /\ PassInThePast
  /\ PassNeverOverdue
  /\ DoneIsReported

\* A new session satisfies the invariant.
LEMMA IInvInit == Init => IInv
<1> SUFFICES ASSUME Init PROVE IInv
  OBVIOUS
<1>1. PICK n \in StartCounts : sess = NewSession(n)
  BY DEF Init
<1>2. /\ TypeOK
      /\ Len(sess.spheres) = n
      /\ sess.moments = [i \in 1..n |-> 0]
      /\ Placed(sess.spheres, sess.born)
  BY <1>1, NewSessionFields DEF TypeOK
<1>3. /\ sess.iteration = 0
      /\ sess.lastPass = 0
      /\ sess.last = NoStep
  BY <1>1 DEF NewSession
<1>4. MomentsMatchSpheres
  <2>1. n \in Nat
    BY ConstantTypes
  <2>2. sess.moments \in [1..n -> Nat]
    BY <1>2
  <2>3. Len(sess.moments) = n
    BY <2>1, <2>2, FunctionIsSeq
  <2> QED
    BY <1>2, <2>3 DEF MomentsMatchSpheres
<1>5. SpheresDistinct
  BY <1>2 DEF Placed, SpheresDistinct
<1>6. PassInThePast /\ PassNeverOverdue /\ DoneIsReported
  BY <1>3, ConstantTypes DEF PassInThePast, PassNeverOverdue, DoneIsReported
<1> QED
  BY <1>2, <1>4, <1>5, <1>6 DEF IInv

(***************************************************************************)
(* When a pass is decided against, the last one (or the beginning) is at   *)
(* most 2 * MinInterval iterations ago; one is decided for only MinInterval *)
(* iterations after the last.                                              *)
(***************************************************************************)
LEMMA TriggerBounds ==
  ASSUME NEW iteration \in Nat, NEW lastPass \in Nat, NEW recorded,
         lastPass <= iteration
  PROVE  /\ FALSE \in TriggerVerdicts(iteration, lastPass, recorded) =>
              iteration - lastPass <= 2 * MinInterval
         /\ TRUE \in TriggerVerdicts(iteration, lastPass, recorded) =>
              iteration - lastPass >= MinInterval
<1> DEFINE since == iteration - lastPass
<1>1. /\ MinInterval \in Nat
      /\ since \in Nat
      /\ since = IF iteration < lastPass THEN 0 ELSE iteration - lastPass
  BY ConstantTypes
<1> HIDE DEF since
<1>2. TriggerVerdicts(iteration, lastPass, recorded) =
        IF since < MinInterval THEN {FALSE}
        ELSE IF since > 2 * MinInterval THEN {TRUE}
        ELSE IF recorded < Patience THEN {FALSE}
        ELSE BOOLEAN
  BY <1>1 DEF TriggerVerdicts
<1>3. since > 2 * MinInterval => ~(since < MinInterval)
  BY <1>1
<1>4. FALSE \in TriggerVerdicts(iteration, lastPass, recorded) =>
        ~(since > 2 * MinInterval)
  BY <1>2, <1>3
<1>5. TRUE \in TriggerVerdicts(iteration, lastPass, recorded) =>
        ~(since < MinInterval)
  BY <1>2
<1>6. /\ ~(since > 2 * MinInterval) => iteration - lastPass <= 2 * MinInterval
      /\ ~(since < MinInterval) => iteration - lastPass >= MinInterval
  BY <1>1 DEF since
<1> QED
  BY <1>4, <1>5, <1>6

\* The same facts for a session about to step.
LEMMA TriggerFacts ==
  ASSUME NEW s \in Sessions, s.lastPass <= s.iteration
  PROVE  /\ DensityEnabled /\ FALSE \in PassVerdicts(s, FALSE) =>
              s.iteration - s.lastPass <= 2 * MinInterval
         /\ \A converged : TRUE \in PassVerdicts(s, converged) =>
              s.iteration - s.lastPass >= MinInterval
<1>1. s.iteration \in Nat /\ s.lastPass \in Nat
  BY DEF Sessions
<1> QED
  BY <1>1, TriggerBounds DEF PassVerdicts

(***************************************************************************)
(* A step preserves the invariant.                                         *)
(***************************************************************************)
LEMMA StepPreservesIInv == IInv /\ Step => IInv'
<1> SUFFICES ASSUME IInv, Step PROVE IInv'
  OBVIOUS
<1>1. /\ sess \in Sessions /\ sess.spheres # <<>>
      /\ sess' \in StepResults(sess)
  BY DEF IInv, TypeOK, Step
<1>2. /\ sess' \in Sessions /\ sess'.spheres # <<>>
      /\ Len(sess'.spheres) = Len(sess.spheres)
  BY <1>1, StepFields
<1>3. PICK converged \in ConvergenceVerdicts(sess) :
        /\ StepEnd(sess, sess', converged)
        /\ \/ FALSE \in PassVerdicts(sess, converged) /\ Unpassed(sess, sess', converged)
           \/ /\ TRUE \in PassVerdicts(sess, converged)
              /\ \E out \in Repacks(sess.spheres, sess.born, sess.temperature) :
                   Passed(sess, sess', converged, out)
  BY <1>1, StepFields
<1>4. /\ sess.spheres \in Seq(Nat) /\ sess.born \in Nat /\ sess.temperature \in Nat
      /\ sess.iteration \in Nat /\ sess.lastPass \in Nat /\ converged \in BOOLEAN
  BY <1>1, VerdictTypes DEF Sessions
<1>5. /\ sess'.iteration = sess.iteration + 1
      /\ sess'.last.iteration = sess.iteration
      /\ sess'.last.done = (sess'.state # "running")
      /\ sess'.last.converged = converged
      /\ sess'.state = "running" => ~converged
  BY <1>3, <1>4 DEF StepEnd
<1>6. CASE FALSE \in PassVerdicts(sess, converged) /\ Unpassed(sess, sess', converged)
  <2>1. /\ sess'.spheres = sess.spheres /\ sess'.moments = sess.spheres
        /\ sess'.born = sess.born /\ sess'.lastPass = sess.lastPass
        /\ sess'.last.fired = FALSE
    BY <1>6 DEF Unpassed
  <2>2. TypeOK' /\ SpheresDistinct'
    BY <1>2, <2>1 DEF TypeOK, SpheresDistinct, IInv
  <2>3. MomentsMatchSpheres'
    BY <2>1 DEF MomentsMatchSpheres
  <2>4. PassInThePast'
    BY <1>4, <1>5, <2>1 DEF PassInThePast, IInv
  <2>5. PassNeverOverdue'
    <3> SUFFICES ASSUME DensityEnabled, sess'.state = "running"
                 PROVE  sess'.iteration - sess'.lastPass <= 2 * MinInterval + 1
      BY DEF PassNeverOverdue
    <3>1. converged = FALSE
      BY <1>4, <1>5
    <3>2. sess.iteration - sess.lastPass <= 2 * MinInterval
      BY <1>1, <1>6, <3>1, TriggerFacts DEF IInv, PassInThePast
    <3> QED
      BY <1>4, <1>5, <2>1, <3>2, ConstantTypes
  <2>6. DoneIsReported'
    BY <1>5, <2>1 DEF DoneIsReported
  <2> QED
    BY <2>2, <2>3, <2>4, <2>5, <2>6 DEF IInv
<1>7. CASE /\ TRUE \in PassVerdicts(sess, converged)
           /\ \E out \in Repacks(sess.spheres, sess.born, sess.temperature) :
                Passed(sess, sess', converged, out)
  <2>1. PICK out \in Repacks(sess.spheres, sess.born, sess.temperature) :
          Passed(sess, sess', converged, out)
    BY <1>7
  <2>2. /\ sess'.spheres = out.spheres
        /\ sess'.moments = IF out.removed > 0
                           THEN [i \in 1..Len(out.spheres) |-> 0]
                           ELSE sess.spheres
        /\ sess'.born = out.born /\ sess'.lastPass = sess.iteration
    BY <2>1 DEF Passed
  <2>3. Placed(sess.spheres, sess.born)
    BY DEF IInv, SpheresDistinct, Placed
  <2>4. TypeOK'
    BY <1>2 DEF TypeOK
  <2>5. SpheresDistinct'
    <3>1. Placed(out.spheres, out.born)
      BY <1>1, <1>4, <2>3, RepackDistinct
    <3> QED
      BY <2>2, <3>1 DEF Placed, SpheresDistinct
  <2>6. MomentsMatchSpheres'
    <3>1. out.removed \in Nat /\ (out.removed = 0 => out.spheres = sess.spheres)
      BY <1>1, <1>4, RepackType
    <3>2. CASE out.removed > 0
      <4>1. Len(sess'.spheres) \in Nat
        BY <1>2, LenProperties DEF Sessions
      <4>2. sess'.moments = [i \in 1..Len(sess'.spheres) |-> 0]
        BY <2>2, <3>2
      <4>3. sess'.moments \in [1..Len(sess'.spheres) -> Nat]
        BY <4>2
      <4>4. Len(sess'.moments) = Len(sess'.spheres)
        BY <4>1, <4>3, FunctionIsSeq
      <4> QED
        BY <4>2, <4>4 DEF MomentsMatchSpheres
    <3>3. CASE out.removed = 0
      <4>1. sess'.moments = sess'.spheres
        BY <2>2, <3>1, <3>3
      <4> QED
        BY <4>1 DEF MomentsMatchSpheres
    <3> QED
      BY <3>1, <3>2, <3>3
  <2>7. PassInThePast' /\ PassNeverOverdue'
    BY <1>4, <1>5, <2>2, ConstantTypes DEF PassInThePast, PassNeverOverdue
  <2>8. DoneIsReported'
    <3>1. converged = FALSE
      BY <1>4, <1>7, VerdictTypes
    <3> QED
      BY <1>5, <3>1 DEF DoneIsReported
  <2> QED
    BY <2>4, <2>5, <2>6, <2>7, <2>8 DEF IInv
<1> QED
  BY <1>3, <1>6, <1>7

\* The final prune keeps the invariant.
LEMMA FinalizePreservesIInv == IInv /\ Finalize => IInv'
<1> SUFFICES ASSUME IInv, Finalize PROVE IInv'
  OBVIOUS
<1>1. /\ sess \in Sessions /\ sess.spheres # <<>>
      /\ sess' \in FinalizeResults(sess)
  BY DEF IInv, TypeOK, Finalize
<1>2. /\ sess' \in Sessions /\ sess'.spheres # <<>>
      /\ sess'.state = "finalized"
      /\ sess'.iteration = sess.iteration
      /\ sess'.lastPass = sess.lastPass
      /\ sess'.last = sess.last
      /\ Placed(sess.spheres, sess.born) => Placed(sess'.spheres, sess'.born)
  BY <1>1, FinalizeFields
<1>3. TypeOK' /\ MomentsMatchSpheres' /\ PassInThePast' /\ PassNeverOverdue'
  BY <1>2 DEF IInv, TypeOK, MomentsMatchSpheres, PassInThePast, PassNeverOverdue
<1>4. SpheresDistinct'
  BY <1>2 DEF IInv, Placed, SpheresDistinct
<1>5. DoneIsReported'
  BY <1>2 DEF IInv, DoneIsReported
<1> QED
  BY <1>3, <1>4, <1>5 DEF IInv

\* Every call a caller can make keeps the invariant.
LEMMA IInvNext == IInv /\ [Next]_sess => IInv'
<1> SUFFICES ASSUME IInv, [Next]_sess PROVE IInv'
  OBVIOUS
<1>1. CASE UNCHANGED sess
  BY <1>1 DEF IInv, TypeOK, MomentsMatchSpheres, SpheresDistinct,
              PassInThePast, PassNeverOverdue, DoneIsReported
<1> QED
  BY <1>1, StepPreservesIInv, FinalizePreservesIInv DEF Next

\* The invariant holds of every session at all times.
LEMMA IInvInvariant == Spec => []IInv
BY IInvInit, IInvNext, PTL DEF Spec

(***************************************************************************)
(* The Adam moments of a session that can still train belong to the        *)
(* spheres in their slots, over every pass that reorders them.             *)
(***************************************************************************)
THEOREM MomentsAlwaysMatch == Spec => []MomentsMatchSpheres
<1>1. IInv => MomentsMatchSpheres
  BY DEF IInv
<1> QED
  BY <1>1, IInvInvariant, PTL

(***************************************************************************)
(* No sphere is ever in two slots.                                         *)
(***************************************************************************)
THEOREM SpheresAlwaysDistinct == Spec => []SpheresDistinct
<1>1. IInv => SpheresDistinct
  BY DEF IInv
<1> QED
  BY <1>1, IInvInvariant, PTL

(***************************************************************************)
(* Density control never falls silent, whatever the losses do.             *)
(***************************************************************************)
THEOREM PassesKeepComing == Spec => []PassNeverOverdue
<1>1. IInv => PassNeverOverdue
  BY DEF IInv
<1> QED
  BY <1>1, IInvInvariant, PTL

(***************************************************************************)
(* `done' is reported exactly when no iteration remains.                   *)
(***************************************************************************)
THEOREM DoneAlwaysReported == Spec => []DoneIsReported
<1>1. IInv => DoneIsReported
  BY DEF IInv
<1> QED
  BY <1>1, IInvInvariant, PTL

(***************************************************************************)
(* A pass respects the interval, keeps a survivor and leaves no bad sphere *)
(* behind unless it already culls all it may.                              *)
(***************************************************************************)
LEMMA PassStepHolds == IInv /\ [Next]_sess => [PassStep]_sess
<1> SUFFICES ASSUME IInv, Next, sess'.passes # sess.passes
             PROVE  /\ sess'.lastPass - sess.lastPass >= MinInterval
                    /\ Range(sess'.spheres) \cap Range(sess.spheres) # {}
                    /\ \/ sess'.last.bad \cap Range(sess'.spheres) = {}
                       \/ sess'.last.removed = AtMost(Target, Len(sess.spheres)) - 1
  BY DEF PassStep
<1>1. /\ sess \in Sessions /\ sess.spheres # <<>>
      /\ Placed(sess.spheres, sess.born)
      /\ sess.lastPass <= sess.iteration
  BY DEF IInv, TypeOK, SpheresDistinct, Placed, PassInThePast
<1>2. CASE Finalize
  BY <1>1, <1>2, FinalizeFields DEF Finalize
<1>3. CASE Step
  <2>1. sess' \in StepResults(sess)
    BY <1>3 DEF Step
  <2>2. PICK converged :
          \/ FALSE \in PassVerdicts(sess, converged) /\ Unpassed(sess, sess', converged)
          \/ /\ TRUE \in PassVerdicts(sess, converged)
             /\ \E out \in Repacks(sess.spheres, sess.born, sess.temperature) :
                  Passed(sess, sess', converged, out)
    BY <1>1, <2>1, StepFields
  <2>3. ~Unpassed(sess, sess', converged)
    BY DEF Unpassed
  <2>4. PICK out \in Repacks(sess.spheres, sess.born, sess.temperature) :
          Passed(sess, sess', converged, out)
    BY <2>2, <2>3
  <2>5. /\ sess'.spheres = out.spheres
        /\ sess'.lastPass = sess.iteration
        /\ sess'.last.removed = out.removed
        /\ sess'.last.bad = out.bad
    BY <2>4 DEF Passed
  <2>6. sess.iteration - sess.lastPass >= MinInterval
    BY <1>1, <2>2, <2>3, TriggerFacts
  <2>7. sess.spheres \in Seq(Nat) /\ sess.born \in Nat /\ sess.temperature \in Nat
    BY <1>1 DEF Sessions
  <2>8. /\ Range(out.spheres) \cap Range(sess.spheres) # {}
        /\ \/ out.bad \cap Range(out.spheres) = {}
           \/ out.removed = AtMost(Target, Len(sess.spheres)) - 1
    BY <1>1, <2>7, RepackCulls
  <2> QED
    BY <2>5, <2>6, <2>8
<1> QED
  BY <1>2, <1>3 DEF Next

\* Every pass comes in time and culls every bad sphere it may: the action
\* property PassesCullEveryBadSphere of repack_async.
THEOREM PassesAlwaysCull == Spec => PassesCullEveryBadSphere
<1>1. Spec => [][PassStep]_sess
  BY IInvInvariant, PassStepHolds, PTL DEF Spec
<1> QED
  BY <1>1 DEF PassesCullEveryBadSphere
-----------------------------------------------------------------------------
(***************************************************************************)
(* The session implements the abstract specification.                      *)
(***************************************************************************)
THEOREM PackImplementsProgress == Spec => ImplementsProgress
<1>1. Init => Progress!Init
  <2> SUFFICES ASSUME Init PROVE Progress!Init
    OBVIOUS
  <2>1. PICK n \in StartCounts : sess = NewSession(n)
    BY DEF Init
  <2>2. Len(sess.spheres) = n
    BY <2>1, NewSessionFields
  <2>3. ViewOf(sess) = Progress!View(IF Iterations = 0 THEN "completed" ELSE "running",
                                     0, n, 0, 0)
    BY <2>1, <2>2 DEF ViewOf, NewSession, Progress!View
  <2> QED
    BY <2>3 DEF Progress!Init
<1>2. TypeOK /\ [Next]_sess => [Progress!Next]_(ViewOf(sess))
  <2> SUFFICES ASSUME TypeOK, [Next]_sess
               PROVE  Progress!Next \/ UNCHANGED ViewOf(sess)
    OBVIOUS
  <2>1. CASE Step
    <3>1. Advances(ViewOf(sess), ViewOf(sess)')
      BY <2>1, StepIsAdvance DEF TypeOK, Step
    <3>2. Progress!Advance
      BY <3>1 DEF Advances, Progress!Advance, Progress!View
    <3> QED
      BY <3>2 DEF Progress!Next
  <2>2. CASE Finalize
    <3>1. UNCHANGED ViewOf(sess) \/ Prunes(ViewOf(sess), ViewOf(sess)')
      BY <2>2, FinalizeIsPrune DEF TypeOK, Finalize
    <3>2. UNCHANGED ViewOf(sess) \/ Progress!Prune
      BY <3>1 DEF Prunes, Progress!Prune, Progress!View
    <3> QED
      BY <3>2 DEF Progress!Next
  <2>3. CASE UNCHANGED sess
    BY <2>3 DEF ViewOf
  <2> QED
    BY <2>1, <2>2, <2>3 DEF Next
<1>3. Spec => Progress!Spec
  BY <1>1, <1>2, PackTypeCorrect, PTL DEF Spec, Progress!Spec
<1> QED
  BY <1>3 DEF ImplementsProgress
-----------------------------------------------------------------------------
(***************************************************************************)
(* InOrder lists each number once, by key and then by number: where a      *)
(* number comes is how many come no later.                                 *)
(***************************************************************************)
Precedes(key, i, j) == key[i] < key[j] \/ (key[i] = key[j] /\ i < j)

\* Each number has a place, and the places follow the keys.
LEMMA InOrderIsOrder ==
  ASSUME NEW N \in Nat, NEW S \in SUBSET (1..N), NEW key \in [S -> Int]
  PROVE  /\ IsFiniteSet(S) /\ Cardinality(S) \in Nat
         /\ InOrder(key) \in Bijection(1..Cardinality(S), S)
         /\ \A k, l \in 1..Cardinality(S) :
              k < l => Precedes(key, InOrder(key)[k], InOrder(key)[l])
<1> DEFINE c == Cardinality(S)
           rank == [i \in S |-> Cardinality(UpTo(key, i))]
           list == InOrder(key)
<1>1. IsFiniteSet(S) /\ c \in Nat
  <2>1. IsFiniteSet(1..N)
    BY FS_Interval
  <2> QED
    BY <2>1, FS_Subset, FS_CardinalityType
<1>2. ASSUME NEW i \in S
      PROVE  /\ UpTo(key, i) \in SUBSET S /\ i \in UpTo(key, i)
             /\ IsFiniteSet(UpTo(key, i)) /\ rank[i] \in 1..c
  <2>1. UpTo(key, i) \in SUBSET S /\ i \in UpTo(key, i)
    BY DEF UpTo
  <2>2. IsFiniteSet(UpTo(key, i)) /\ rank[i] \in Nat /\ rank[i] <= c
    BY <1>1, <2>1, FS_Subset, FS_CardinalityType
  <2>3. rank[i] # 0
    BY <2>1, <2>2, FS_EmptySet
  <2> QED
    BY <1>1, <2>1, <2>2, <2>3
<1>3. ASSUME NEW i \in S, NEW j \in S, Precedes(key, i, j)
      PROVE  rank[i] < rank[j]
  <2>0. DOMAIN key = S /\ \A m \in S : key[m] \in Int /\ m \in Int
    OBVIOUS
  <2>1. UpTo(key, i) \in SUBSET UpTo(key, j) /\ j \notin UpTo(key, i)
    <3>1. ASSUME NEW m \in UpTo(key, i)
          PROVE  m \in UpTo(key, j)
      BY <1>3, <2>0 DEF UpTo, Precedes
    <3>2. j \notin UpTo(key, i)
      BY <1>3, <2>0 DEF UpTo, Precedes
    <3> QED
      BY <3>1, <3>2
  <2>2. rank[i] <= rank[j] /\ rank[i] # rank[j]
    BY <1>2, <2>1, FS_Subset
  <2> QED
    BY <1>2, <2>2
<1>4. \A i, j \in S : i # j => Precedes(key, i, j) \/ Precedes(key, j, i)
  BY DEF Precedes
<1>5. rank \in Bijection(S, 1..c)
  <2>1. rank \in [S -> 1..c]
    BY <1>2
  <2>2. \A i, j \in S : rank[i] = rank[j] => i = j
    <3> HIDE DEF rank, c
    <3>1. \A i \in S : rank[i] \in Int
      BY <2>1
    <3> QED
      BY <1>3, <1>4, <3>1
  <2>3. rank \in Injection(S, 1..c)
    BY <2>1, <2>2 DEF Injection, IsInjective
  <2>4. IsFiniteSet(1..c) /\ Cardinality(1..c) = c
    BY <1>1, FS_Interval
  <2>5. rank \in Surjection(S, 1..c)
    BY <2>3, <2>4, FS_Injection
  <2> QED
    BY <2>3, <2>5 DEF Bijection
<1>6. ASSUME NEW k \in 1..c
      PROVE  list[k] \in S /\ rank[list[k]] = k
  <2>1. DOMAIN key = S
    OBVIOUS
  <2>2. list[k] = CHOOSE i \in S : Cardinality(UpTo(key, i)) = k
    BY <2>1 DEF InOrder
  <2>3. \E i \in S : Cardinality(UpTo(key, i)) = k
    BY <1>5 DEF Bijection, Surjection
  <2> HIDE DEF list
  <2>4. list[k] \in S /\ Cardinality(UpTo(key, list[k])) = k
    BY <2>2, <2>3
  <2> QED
    BY <2>4
<1>7. list \in [1..c -> S]
  <2>1. DOMAIN key = S
    OBVIOUS
  <2>2. list = [k \in 1..c |-> list[k]]
    BY <2>1 DEF InOrder
  <2> HIDE DEF list
  <2> QED
    BY <1>6, <2>2
<1> HIDE DEF list, rank, c
<1>8. list \in Injection(1..c, S)
  BY <1>6, <1>7 DEF Injection, IsInjective
<1>9. \A i \in S : \E k \in 1..c : list[k] = i
  <2> SUFFICES ASSUME NEW i \in S
               PROVE  \E k \in 1..c : list[k] = i
    OBVIOUS
  <2>1. rank[i] \in 1..c /\ rank[list[rank[i]]] = rank[i] /\ list[rank[i]] \in S
    BY <1>5, <1>6 DEF Bijection, Surjection
  <2>2. list[rank[i]] = i
    BY <1>5, <2>1 DEF Bijection, Injection, IsInjective
  <2> QED
    BY <2>1, <2>2
<1>10. list \in Bijection(1..c, S)
  BY <1>7, <1>8, <1>9 DEF Bijection, Surjection
<1>11. ASSUME NEW k \in 1..c, NEW l \in 1..c, k < l
       PROVE  Precedes(key, list[k], list[l])
  <2>1. list[k] \in S /\ list[l] \in S /\ list[k] # list[l]
    BY <1>6, <1>11
  <2>2. ASSUME Precedes(key, list[l], list[k]) PROVE FALSE
    <3>1. rank[list[l]] < rank[list[k]]
      BY <1>3, <2>1, <2>2
    <3> QED
      BY <1>1, <1>6, <1>11, <3>1
  <2> QED
    BY <1>4, <2>1, <2>2
<1> QED
  BY <1>1, <1>10, <1>11 DEF list, c

\* In particular the numbers of a set in ascending order.
LEMMA AscendingIsOrder ==
  ASSUME NEW N \in Nat, NEW S \in SUBSET (1..N)
  PROVE  /\ IsFiniteSet(S) /\ Cardinality(S) \in Nat
         /\ Ascending(S) \in [1..Cardinality(S) -> S]
         /\ \A k, l \in 1..Cardinality(S) : k < l => Ascending(S)[k] < Ascending(S)[l]
         /\ {Ascending(S)[k] : k \in 1..Cardinality(S)} = S
<1> DEFINE key == [i \in S |-> i]
<1>1. key \in [S -> Int]
  OBVIOUS
<1>2. /\ IsFiniteSet(S) /\ Cardinality(S) \in Nat
      /\ Ascending(S) \in Bijection(1..Cardinality(S), S)
      /\ \A k, l \in 1..Cardinality(S) :
           k < l => Precedes(key, Ascending(S)[k], Ascending(S)[l])
  BY <1>1, InOrderIsOrder DEF Ascending
<1>3. \A i, j \in S : Precedes(key, i, j) => i < j
  BY DEF Precedes
<1>4. Ascending(S) \in [1..Cardinality(S) -> S]
  BY <1>2 DEF Bijection, Injection
<1> DEFINE list == Ascending(S)
<1> HIDE DEF list
<1>5. \A k, l \in 1..Cardinality(S) : k < l => list[k] < list[l]
  BY <1>2, <1>3, <1>4 DEF list
<1>6. {list[k] : k \in 1..Cardinality(S)} = S
  <2>1. \A i \in S : \E k \in 1..Cardinality(S) : list[k] = i
    BY <1>2 DEF Bijection, Surjection, list
  <2> QED
    BY <1>4, <2>1 DEF list
<1> QED
  BY <1>2, <1>4, <1>5, <1>6 DEF list
-----------------------------------------------------------------------------
\* Distances on the line.
LEMMA DistIs ==
  ASSUME NEW p \in Int, NEW q \in Int
  PROVE  Dist(p, q) = IF p > q THEN p - q ELSE q - p
<1>1. CASE p > q
  BY <1>1 DEF Dist, Sign
<1>2. CASE p < q
  BY <1>2 DEF Dist, Sign
<1>3. CASE p = q
  BY <1>3 DEF Dist, Sign
<1> QED
  BY <1>1, <1>2, <1>3

\* A distance is a number, the same both ways.
LEMMA Triangle ==
  ASSUME NEW p \in Int, NEW q \in Int
  PROVE  Dist(p, q) \in Nat /\ Dist(p, q) = Dist(q, p) /\ Dist(p, p) = 0
BY DistIs

\* No detour is shorter.
LEMMA TriangleInequality ==
  ASSUME NEW p \in Int, NEW q \in Int, NEW r \in Int
  PROVE  Dist(p, r) <= Dist(p, q) + Dist(q, r)
<1>1. /\ Dist(p, r) = IF p > r THEN p - r ELSE r - p
      /\ Dist(p, q) = IF p > q THEN p - q ELSE q - p
      /\ Dist(q, r) = IF q > r THEN q - r ELSE r - q
  BY DistIs
<1> QED
  BY <1>1

\* The first of some numbers: none has a smaller key, or the same and is smaller.
LEMMA OneIsFirst ==
  ASSUME NEW N \in Nat, NEW S \in SUBSET (1..N), S # {}, NEW key \in [S -> Int]
  PROVE  \E m \in S : \A i \in S : i = m \/ Precedes(key, m, i)
<1> DEFINE c == Cardinality(S)
           list == InOrder(key)
<1>1. /\ c \in Nat /\ list \in Bijection(1..c, S)
      /\ \A k, l \in 1..c : k < l => Precedes(key, list[k], list[l])
  BY InOrderIsOrder
<1> HIDE DEF c, list
<1>2. list \in [1..c -> S] /\ \A i \in S : \E k \in 1..c : list[k] = i
  BY <1>1 DEF Bijection, Injection, Surjection
<1>3. 1 \in 1..c
  <2>1. PICK i \in S : TRUE
    OBVIOUS
  <2>2. PICK k \in 1..c : list[k] = i
    BY <1>2
  <2> QED
    BY <1>1, <2>2
<1>4. ASSUME NEW i \in S
      PROVE  i = list[1] \/ Precedes(key, list[1], i)
  <2>1. PICK k \in 1..c : list[k] = i
    BY <1>2
  <2>2. k = 1 \/ 1 < k
    BY <1>1
  <2> QED
    BY <1>1, <1>3, <2>1, <2>2
<1> QED
  BY <1>2, <1>3, <1>4

\* Some numbers have a smallest and a largest.
LEMMA Extremes ==
  ASSUME NEW N \in Nat, NEW S \in SUBSET (1..N), S # {}, NEW f \in [S -> Int]
  PROVE  /\ Smallest({f[i] : i \in S}) \in {f[i] : i \in S}
         /\ \A i \in S : Smallest({f[k] : k \in S}) <= f[i]
         /\ Largest({f[i] : i \in S}) \in {f[i] : i \in S}
         /\ \A i \in S : Largest({f[k] : k \in S}) >= f[i]
<1> DEFINE all == {f[i] : i \in S}
           down == [i \in S |-> -f[i]]
<1>1. \E x \in all : \A y \in all : x <= y
  <2>1. PICK m \in S : \A i \in S : i = m \/ Precedes(f, m, i)
    BY OneIsFirst
  <2>2. \A i \in S : f[m] <= f[i]
    BY <2>1 DEF Precedes
  <2> QED
    BY <2>2
<1>2. \E x \in all : \A y \in all : x >= y
  <2>1. down \in [S -> Int]
    OBVIOUS
  <2>2. PICK m \in S : \A i \in S : i = m \/ Precedes(down, m, i)
    BY <2>1, OneIsFirst
  <2>3. \A i \in S : f[m] >= f[i]
    BY <2>2 DEF Precedes
  <2> QED
    BY <2>3
<1>3. \A i \in S : f[i] \in all
  OBVIOUS
<1> HIDE DEF all
<1>4. Smallest(all) \in all /\ \A x \in all : Smallest(all) <= x
  BY <1>1 DEF Smallest
<1>5. Largest(all) \in all /\ \A x \in all : Largest(all) >= x
  BY <1>2 DEF Largest
<1>6. \A i \in S : Smallest(all) <= f[i] /\ Largest(all) >= f[i]
  BY <1>3, <1>4, <1>5
<1> QED
  BY <1>4, <1>5, <1>6 DEF all

-----------------------------------------------------------------------------
(***************************************************************************)
(* Pruning: every sphere inside another one is inside one that stays.      *)
(***************************************************************************)
Encloses(a, b) == Dist(a.center, b.center) + b.radius <= a.radius

\* To enclose is an order but for twins, and what is enclosed is no nearer to a point.
LEMMA EnclosesFacts ==
  ASSUME NEW a \in Balls, NEW b \in Balls
  PROVE  /\ Encloses(a, a)
         /\ Encloses(a, b) => b.radius <= a.radius
         /\ \A c \in Balls : Encloses(a, b) /\ Encloses(b, c) => Encloses(a, c)
         /\ \A p \in Int : Encloses(a, b) => Gap(p, a) <= Gap(p, b)
<1>1. a.center \in Int /\ a.radius \in Int /\ b.center \in Int /\ b.radius \in Int
  BY DEF Balls
<1>2. Dist(a.center, b.center) \in Nat /\ Dist(a.center, a.center) = 0
      /\ Dist(b.center, a.center) = Dist(a.center, b.center)
  BY <1>1, Triangle
<1>3. ASSUME NEW c \in Balls, Encloses(a, b), Encloses(b, c)
      PROVE  Encloses(a, c)
  <2>1. c.center \in Int /\ c.radius \in Int
    BY DEF Balls
  <2>2. Dist(a.center, c.center) <= Dist(a.center, b.center) + Dist(b.center, c.center)
    BY <1>1, <2>1, TriangleInequality
  <2>3. Dist(a.center, c.center) \in Nat /\ Dist(b.center, c.center) \in Nat
    BY <1>1, <2>1, Triangle
  <2> QED
    BY <1>1, <1>2, <1>3, <2>1, <2>2, <2>3 DEF Encloses
<1>4. ASSUME NEW p \in Int, Encloses(a, b)
      PROVE  Gap(p, a) <= Gap(p, b)
  <2>1. Dist(p, a.center) <= Dist(p, b.center) + Dist(b.center, a.center)
    BY <1>1, TriangleInequality
  <2>2. Dist(p, a.center) \in Nat /\ Dist(p, b.center) \in Nat
    BY <1>1, Triangle
  <2> QED
    BY <1>1, <1>2, <1>4, <2>1, <2>2 DEF Encloses, Gap
<1> QED
  BY <1>1, <1>2, <1>3, <1>4 DEF Encloses

\* Every sphere is inside one that no other makes redundant: the largest around it.
LEMMA OutermostStays ==
  ASSUME NEW n \in Nat, NEW bs \in [1..n -> Balls], NEW j \in 1..n
  PROVE  \E i \in 1..n : i \notin ContainedInAnother(bs) /\ Encloses(bs[i], bs[j])
<1> DEFINE S == {i \in 1..n : Encloses(bs[i], bs[j])}
           key == [i \in S |-> -bs[i].radius]
<1>1. S \in SUBSET (1..n) /\ j \in S /\ \A i \in 1..n : bs[i] \in Balls /\ bs[i].radius \in Int
  BY EnclosesFacts DEF Balls
<1>2. key \in [S -> Int]
  BY <1>1
<1>3. PICK m \in S : \A i \in S : i = m \/ Precedes(key, m, i)
  <2> HIDE DEF S, key
  <2> QED
    BY <1>1, <1>2, OneIsFirst
<1>4. ASSUME NEW i \in 1..n, Within(bs, m, i)
      PROVE  FALSE
  <2> DEFINE d == Dist(bs[i].center, bs[m].center)
  <2>1. /\ i # m /\ d + bs[m].radius <= bs[i].radius
        /\ i < m \/ d + bs[i].radius > bs[m].radius
    BY <1>4 DEF Within
  <2>2. Encloses(bs[i], bs[m]) /\ Encloses(bs[m], bs[j])
    BY <2>1 DEF Encloses
  <2>3. i \in S
    BY <1>1, <2>2, EnclosesFacts
  <2>4. Precedes(key, m, i)
    BY <1>3, <2>1, <2>3
  <2>5. \/ bs[i].radius < bs[m].radius
        \/ bs[i].radius = bs[m].radius /\ m < i
    BY <1>1, <2>3, <2>4 DEF Precedes
  <2>6. d \in Nat
    BY <1>1, Triangle DEF Balls
  <2> HIDE DEF d, S, key
  <2> QED
    BY <1>1, <2>1, <2>5, <2>6
<1>5. m \notin ContainedInAnother(bs)
  BY <1>4 DEF ContainedInAnother
<1> QED
  BY <1>5

\* The nearest sphere's distance to a point is a number, and its own.
LEMMA MinGapIs ==
  ASSUME NEW n \in Nat, n # 0, NEW bs \in [1..n -> Balls], NEW p \in Int
  PROVE  /\ \A i \in 1..n : Gap(p, bs[i]) \in Int /\ MinGap(p, bs) <= Gap(p, bs[i])
         /\ MinGap(p, bs) \in Int /\ \E i \in 1..n : MinGap(p, bs) = Gap(p, bs[i])
<1> DEFINE f == [i \in 1..n |-> Gap(p, bs[i])]
<1>1. ASSUME NEW i \in 1..n PROVE Gap(p, bs[i]) \in Int
  <2>1. bs[i].center \in Int /\ bs[i].radius \in Int
    BY DEF Balls
  <2>2. Dist(p, bs[i].center) \in Nat
    BY <2>1, Triangle
  <2> QED
    BY <2>1, <2>2 DEF Gap
<1>2. f \in [1..n -> Int] /\ 1..n # {} /\ 1..n \in SUBSET (1..n)
  <2>1. 1 \in 1..n
    OBVIOUS
  <2> QED
    BY <1>1, <2>1
<1>3. {f[i] : i \in 1..n} = {Gap(p, bs[i]) : i \in DOMAIN bs}
  OBVIOUS
<1>4. /\ Smallest({f[i] : i \in 1..n}) \in {f[i] : i \in 1..n}
      /\ \A i \in 1..n : Smallest({f[k] : k \in 1..n}) <= f[i]
  <2> HIDE DEF f
  <2> QED
    BY <1>2, Extremes
<1>5. MinGap(p, bs) \in {f[i] : i \in 1..n} /\ \A i \in 1..n : MinGap(p, bs) <= f[i]
  BY <1>3, <1>4 DEF MinGap
<1> QED
  BY <1>1, <1>5

\* A selection is a list of what is selected.
Lists(sel, list, keep) ==
  /\ \A m \in DOMAIN sel : \E i \in keep : sel[m] = list[i]
  /\ \A i \in keep : \E m \in DOMAIN sel : sel[m] = list[i]

\* Select lists what it is told to keep, and nothing else.
LEMMA SelectFacts ==
  ASSUME NEW n \in Nat, NEW T, NEW list \in [1..n -> T], NEW keep \in SUBSET (1..n)
  PROVE  /\ Cardinality(keep) \in 0..n /\ (keep # {} => Cardinality(keep) # 0)
         /\ Select(list, keep) \in [1..Cardinality(keep) -> T]
         /\ Lists(Select(list, keep), list, keep)
<1> DEFINE c == Cardinality(keep)
           order == Ascending(keep)
<1>1. c \in 0..n
  BY IntervalSize
<1>2. order \in [1..c -> keep] /\ {order[k] : k \in 1..c} = keep
  BY AscendingIsOrder
<1>3. Select(list, keep) = [m \in 1..c |-> list[order[m]]]
  BY DEF Select
<1> HIDE DEF c, order
<1>4. \A m \in 1..c : order[m] \in keep
  BY <1>2
<1>5. \A i \in keep : \E m \in 1..c : order[m] = i
  BY <1>2
<1>6. keep # {} => c # 0
  <2> SUFFICES ASSUME NEW i \in keep, c = 0 PROVE FALSE
    OBVIOUS
  <2>1. PICK m \in 1..c : order[m] = i
    BY <1>5
  <2> QED
    BY <2>1
<1> DEFINE sel == Select(list, keep)
<1> HIDE DEF sel
<1>7. sel = [m \in 1..c |-> list[order[m]]]
  BY <1>3 DEF sel
<1>8. \A m \in 1..c : sel[m] = list[order[m]]
  BY <1>7
<1>9. /\ sel \in [1..c -> T]
      /\ \A m \in 1..c : \E i \in keep : sel[m] = list[i]
      /\ \A i \in keep : \E m \in 1..c : sel[m] = list[i]
  BY <1>4, <1>5, <1>7, <1>8
<1>10. Lists(sel, list, keep)
  <2>1. DOMAIN sel = 1..c
    BY <1>9
  <2> QED
    BY <1>9, <2>1 DEF Lists
<1> QED
  BY <1>1, <1>6, <1>9, <1>10 DEF c, sel

\* What pruning keeps of the spheres inside the mesh.
LEMMA KeptFacts ==
  ASSUME NEW n \in Nat, n # 0, NEW bs \in [1..n -> Balls]
  PROVE  /\ InsideMesh(bs) \in SUBSET (1..n) /\ InsideMesh(bs) # {}
         /\ Kept(bs) \in SUBSET InsideMesh(bs)
         /\ ~PruneContained => Kept(bs) = InsideMesh(bs)
         /\ \A j \in InsideMesh(bs) : \E i \in Kept(bs) : Encloses(bs[i], bs[j])
<1> DEFINE I == InsideMesh(bs)
           c == Cardinality(I)
           ins == Ascending(I)
           sub == [k \in 1..c |-> bs[ins[k]]]
<1>1. I \in SUBSET (1..n) /\ I # {}
  <2>1. 1 \in 1..n /\ DOMAIN bs = 1..n
    OBVIOUS
  <2> QED
    BY <2>1 DEF InsideMesh
<1>2. c \in Nat /\ ins \in [1..c -> I] /\ {ins[k] : k \in 1..c} = I
  BY <1>1, AscendingIsOrder
<1> HIDE DEF I, c, ins
<1>3. sub \in [1..c -> Balls]
  BY <1>1, <1>2
<1>4. Kept(bs) = IF PruneContained THEN {ins[k] : k \in (1..c) \ ContainedInAnother(sub)}
                 ELSE I
  BY <1>2 DEF Kept, ins, Range, I
<1> HIDE DEF sub
<1>5. Kept(bs) \in SUBSET I
  BY <1>2, <1>4
<1>6. ASSUME NEW j \in I
      PROVE  \E i \in Kept(bs) : Encloses(bs[i], bs[j])
  <2>1. CASE PruneContained
    <3>1. PICK k \in 1..c : ins[k] = j
      BY <1>2
    <3>2. PICK l \in 1..c : l \notin ContainedInAnother(sub) /\ Encloses(sub[l], sub[k])
      BY <1>2, <1>3, OutermostStays
    <3>3. sub[l] = bs[ins[l]] /\ sub[k] = bs[j]
      BY <3>1 DEF sub
    <3> QED
      BY <1>4, <2>1, <3>2, <3>3
  <2>2. CASE ~PruneContained
    <3>1. bs[j] \in Balls /\ j \in Kept(bs)
      BY <1>1, <1>4, <2>2
    <3> QED
      BY <3>1, EnclosesFacts
  <2> QED
    BY <2>1, <2>2
<1> QED
  BY <1>1, <1>4, <1>5, <1>6 DEF I

\* A sphere covers what it is not away from.
LEMMA CoveredIsGap ==
  ASSUME NEW p \in Int, NEW b \in Balls
  PROVE  Dist(p, b.center) <= b.radius <=> Gap(p, b) <= 0
<1>1. b.center \in Int /\ b.radius \in Int
  BY DEF Balls
<1>2. Dist(p, b.center) \in Nat
  BY <1>1, Triangle
<1> QED
  BY <1>1, <1>2 DEF Gap

\* Some of the spheres bs, such that each of bs is inside one of them.
Thinned(cs, bs) ==
  /\ \A i \in DOMAIN cs : \E j \in DOMAIN bs : cs[i] = bs[j]
  /\ \A j \in DOMAIN bs : \E i \in DOMAIN cs : Encloses(cs[i], bs[j])

(***************************************************************************)
(* Where each sphere is inside one of some others, which are among them,   *)
(* these cover the same points and are as near to each point.              *)
(***************************************************************************)
LEMMA SameUnion ==
  ASSUME NEW n \in Nat, n # 0, NEW bs \in [1..n -> Balls],
         NEW m \in Nat, m # 0, NEW cs \in [1..m -> Balls],
         Thinned(cs, bs),
         NEW p \in Int
  PROVE  MinGap(p, cs) = MinGap(p, bs) /\ Covers(cs, p) = Covers(bs, p)
<1>0. /\ \A i \in 1..m : \E j \in 1..n : cs[i] = bs[j]
      /\ \A j \in 1..n : \E i \in 1..m : Encloses(cs[i], bs[j])
  BY DEF Thinned
<1>1. ASSUME NEW j \in 1..n
      PROVE  \E i \in 1..m : Gap(p, cs[i]) <= Gap(p, bs[j])
  <2>1. PICK i \in 1..m : Encloses(cs[i], bs[j])
    BY <1>0
  <2>2. cs[i] \in Balls /\ bs[j] \in Balls
    OBVIOUS
  <2> QED
    BY <2>1, <2>2, EnclosesFacts
<1>2. MinGap(p, cs) <= MinGap(p, bs)
  <2>1. PICK j \in 1..n : MinGap(p, bs) = Gap(p, bs[j])
    BY MinGapIs
  <2>2. PICK i \in 1..m : Gap(p, cs[i]) <= Gap(p, bs[j])
    BY <1>1
  <2>3. MinGap(p, cs) \in Int /\ Gap(p, cs[i]) \in Int /\ MinGap(p, cs) <= Gap(p, cs[i])
    BY MinGapIs
  <2>4. Gap(p, bs[j]) \in Int /\ MinGap(p, bs) \in Int
    BY MinGapIs
  <2> QED
    BY <2>1, <2>2, <2>3, <2>4
<1>3. MinGap(p, bs) <= MinGap(p, cs)
  <2>1. PICK i \in 1..m : MinGap(p, cs) = Gap(p, cs[i])
    BY MinGapIs
  <2>2. PICK j \in 1..n : cs[i] = bs[j]
    BY <1>0
  <2>3. MinGap(p, bs) <= Gap(p, bs[j])
    BY MinGapIs
  <2> QED
    BY <2>1, <2>2, <2>3
<1>4. MinGap(p, cs) \in Int /\ MinGap(p, bs) \in Int
  BY MinGapIs
<1>5. \A b \in Balls : Dist(p, b.center) <= b.radius <=> Gap(p, b) <= 0
  BY CoveredIsGap
<1>6. Covers(bs, p) <=> \E j \in 1..n : Gap(p, bs[j]) <= 0
  BY <1>5 DEF Covers
<1>7. Covers(cs, p) <=> \E i \in 1..m : Gap(p, cs[i]) <= 0
  BY <1>5 DEF Covers
<1>8. (\E j \in 1..n : Gap(p, bs[j]) <= 0) => \E i \in 1..m : Gap(p, cs[i]) <= 0
  <2> SUFFICES ASSUME NEW j \in 1..n, Gap(p, bs[j]) <= 0
               PROVE  \E i \in 1..m : Gap(p, cs[i]) <= 0
    OBVIOUS
  <2>1. PICK i \in 1..m : Gap(p, cs[i]) <= Gap(p, bs[j])
    BY <1>1
  <2>2. Gap(p, cs[i]) \in Int
    BY MinGapIs
  <2>3. Gap(p, bs[j]) \in Int
    BY MinGapIs
  <2> QED
    BY <2>1, <2>2, <2>3
<1>9. Covers(bs, p) \in BOOLEAN /\ Covers(cs, p) \in BOOLEAN
  BY DEF Covers
<1>10. Covers(bs, p) <=> Covers(cs, p)
  BY <1>0, <1>6, <1>7, <1>8
<1>11. MinGap(p, cs) = MinGap(p, bs)
  BY <1>2, <1>3, <1>4
<1> QED
  BY <1>9, <1>10, <1>11

\* The points the scores look at.
LEMMA PointsAreWhole ==
  /\ Box \subseteq Int
  /\ \A s \in DOMAIN Problem.surface : Problem.surface[s] \in Int
  /\ \A s \in DOMAIN InsideSamples : InsideSamples[s] \in Int
<1>1. Length \in Nat /\ InsideSamples \in Seq(0..Length)
  BY LineAssumption
<1>2. Problem.surface = <<0, Length>>
  BY DEF Problem
<1> QED
  BY <1>1, <1>2 DEF Box

\* Every metric of a packing depends on its union and on how many spheres are outside.
LEMMA SameMetrics ==
  ASSUME NEW n \in Nat, n # 0, NEW bs \in [1..n -> Balls],
         NEW m \in Nat, m # 0, NEW cs \in [1..m -> Balls],
         Thinned(cs, bs),
         Cardinality({i \in DOMAIN cs : ~IsInside(cs[i].center)}) =
           Cardinality({i \in DOMAIN bs : ~IsInside(bs[i].center)})
  PROVE  EvaluatePacking(cs) = EvaluatePacking(bs) /\ LinkQuality(cs) = LinkQuality(bs)
<1>1. \A p \in Int : MinGap(p, cs) = MinGap(p, bs) /\ Covers(cs, p) = Covers(bs, p)
  BY SameUnion
<1>2. SurfaceGaps(cs) = SurfaceGaps(bs)
  BY <1>1, PointsAreWhole DEF SurfaceGaps
<1>3. /\ {p \in Box : Covers(cs, p) /\ IsInside(p)} = {p \in Box : Covers(bs, p) /\ IsInside(p)}
      /\ {p \in Box : Covers(cs, p) /\ ~IsInside(p)} = {p \in Box : Covers(bs, p) /\ ~IsInside(p)}
  BY <1>1, PointsAreWhole
<1>4. {s \in DOMAIN InsideSamples : MinGap(InsideSamples[s], cs) <= 0} =
        {s \in DOMAIN InsideSamples : MinGap(InsideSamples[s], bs) <= 0}
  BY <1>1, PointsAreWhole
<1>5. EvaluatePacking(cs) = EvaluatePacking(bs)
  BY <1>2, <1>3 DEF EvaluatePacking
<1>6. LinkQuality(cs) = LinkQuality(bs)
  BY <1>2, <1>4 DEF LinkQuality
<1> QED
  BY <1>5, <1>6
-----------------------------------------------------------------------------
(***************************************************************************)
(* Induction, as a statement about a set of numbers.                       *)
(***************************************************************************)
LEMMA Induction ==
  ASSUME NEW S \in SUBSET Nat, 0 \in S, \A n \in S : n + 1 \in S
  PROVE  \A n \in Nat : n \in S
<1> SUFFICES ASSUME NEW k \in Nat \ S PROVE FALSE
  OBVIOUS
<1> DEFINE Less == OpToRel(<, Nat)
<1>1. Less = {ss \in Nat \X Nat : ss[1] < ss[2]}
  BY DEF OpToRel
<1>2. IsWellFoundedOn(Less, Nat)
  BY NatLessThanWellFounded
<1> HIDE DEF Less
<1>3. PICK m \in Nat \ S : \A l \in Nat \ S : ~ (<<l, m>> \in Less)
  <2>1. Nat \ S \in SUBSET Nat /\ Nat \ S # {}
    OBVIOUS
  <2> QED
    BY <1>2, <2>1, WFMin
<1>4. m # 0 /\ m - 1 \in Nat
  OBVIOUS
<1>5. <<m - 1, m>> \in Less
  BY <1>1, <1>4
<1>6. m - 1 \in S
  BY <1>3, <1>4, <1>5
<1> QED
  BY <1>4, <1>6

\* The sum of finitely many natural numbers is one.
PickOf(T) == CHOOSE x \in T : TRUE

\* A sum of natural numbers is one: SumFunction adds up one number at a time.
LEMMA SumOfNaturals ==
  ASSUME NEW S, IsFiniteSet(S), NEW f \in [S -> Nat]
  PROVE  SumFunction(f) \in Nat
<1> DEFINE UpToSize(n) == {T \in SUBSET S : Cardinality(T) <= n}
           Rest(T) == T \ {PickOf(T)}
           Sums(g, n) == g = [T \in UpToSize(n) |->
                                IF T = {} THEN 0 ELSE f[PickOf(T)] + g[Rest(T)]]
           iter == CHOOSE g : g = [T \in SUBSET S |->
                                     IF T = {} THEN 0 ELSE f[PickOf(T)] + g[Rest(T)]]
<1>1. SumFunction(f) = iter[S]
  <2>1. DOMAIN f = S
    OBVIOUS
  <2> QED
    BY <2>1 DEF SumFunction, SumFunctionOnSet, FoldFunctionOnSet, MapThenFoldSet, PickOf
<1>2. ASSUME NEW n \in Nat, NEW T \in UpToSize(n + 1), T # {}
      PROVE  PickOf(T) \in S /\ Rest(T) \in UpToSize(n)
  <2>1. T \in SUBSET S /\ IsFiniteSet(T) /\ Cardinality(T) \in Nat
    BY FS_Subset, FS_CardinalityType
  <2>2. PickOf(T) \in T
    BY <1>2 DEF PickOf
  <2>3. Cardinality(Rest(T)) = Cardinality(T) - 1
    BY <2>1, <2>2, FS_RemoveElement
  <2> QED
    BY <1>2, <2>1, <2>2, <2>3
<1>3. \A T \in UpToSize(0) : T = {}
  <2> SUFFICES ASSUME NEW T \in UpToSize(0) PROVE T = {}
    OBVIOUS
  <2>1. IsFiniteSet(T) /\ Cardinality(T) \in Nat /\ Cardinality(T) <= 0
    BY FS_Subset, FS_CardinalityType
  <2> QED
    BY <2>1, FS_EmptySet
<1>4. \A n \in Nat : UpToSize(n) \in SUBSET UpToSize(n + 1)
  <2> SUFFICES ASSUME NEW n \in Nat, NEW T \in UpToSize(n) PROVE T \in UpToSize(n + 1)
    OBVIOUS
  <2>1. Cardinality(T) \in Nat
    BY FS_Subset, FS_CardinalityType
  <2> QED
    BY <2>1
<1>5. Cardinality(S) \in Nat /\ UpToSize(Cardinality(S)) = SUBSET S
  BY FS_Subset, FS_CardinalityType
<1> HIDE DEF UpToSize, Rest
<1>6. \A n \in Nat : \E g : Sums(g, n)
  <2> DEFINE Good == {n \in Nat : \E g : Sums(g, n)}
  <2>1. 0 \in Good
    <3> DEFINE g0 == [T \in UpToSize(0) |-> 0]
    <3>1. Sums(g0, 0)
      BY <1>3
    <3> QED
      BY <3>1
  <2>2. ASSUME NEW n \in Good PROVE n + 1 \in Good
    <3>1. n \in Nat
      OBVIOUS
    <3>2. PICK g : Sums(g, n)
      OBVIOUS
    <3> DEFINE h == [T \in UpToSize(n + 1) |->
                       IF T = {} THEN 0 ELSE f[PickOf(T)] + g[Rest(T)]]
    <3>3. \A T \in UpToSize(n) : h[T] = g[T]
      BY <1>4, <3>1, <3>2
    <3>4. h = [T \in UpToSize(n + 1) |->
                 IF T = {} THEN 0 ELSE f[PickOf(T)] + h[Rest(T)]]
      BY <1>2, <3>1, <3>3
    <3>5. Sums(h, n + 1)
      BY <3>4
    <3> HIDE DEF h
    <3>6. \E k : Sums(k, n + 1)
      BY <3>5
    <3> HIDE DEF Sums
    <3> QED
      BY <3>1, <3>6
  <2> HIDE DEF Good
  <2>3. Good \in SUBSET Nat
    BY DEF Good
  <2>4. \A n \in Nat : n \in Good
    BY <2>1, <2>2, <2>3, Induction
  <2> QED
    BY <2>4 DEF Good
<1>7. iter = [T \in SUBSET S |-> IF T = {} THEN 0 ELSE f[PickOf(T)] + iter[Rest(T)]]
  <2>1. PICK g : Sums(g, Cardinality(S))
    BY <1>5, <1>6
  <2>2. g = [T \in SUBSET S |-> IF T = {} THEN 0 ELSE f[PickOf(T)] + g[Rest(T)]]
    BY <1>5, <2>1
  <2> QED
    BY <2>2
<1> HIDE DEF iter
<1>8. \A n \in Nat : \A T \in UpToSize(n) : iter[T] \in Nat
  <2> DEFINE Good == {n \in Nat : \A T \in UpToSize(n) : iter[T] \in Nat}
  <2>0. \A n \in Nat : UpToSize(n) \in SUBSET SUBSET S
    BY DEF UpToSize
  <2>1. 0 \in Good
    BY <1>3, <1>7, <2>0
  <2>2. ASSUME NEW n \in Good PROVE n + 1 \in Good
    <3>1. n \in Nat /\ n + 1 \in Nat /\ \A T \in UpToSize(n) : iter[T] \in Nat
      OBVIOUS
    <3>2. ASSUME NEW T \in UpToSize(n + 1)
          PROVE  iter[T] \in Nat
      <4>1. iter[T] = IF T = {} THEN 0 ELSE f[PickOf(T)] + iter[Rest(T)]
        BY <1>7, <2>0, <3>1
      <4>2. T # {} => f[PickOf(T)] \in Nat /\ iter[Rest(T)] \in Nat
        BY <1>2, <3>1
      <4> QED
        BY <4>1, <4>2
    <3> QED
      BY <3>1, <3>2
  <2> HIDE DEF Good
  <2>3. Good \in SUBSET Nat
    BY DEF Good
  <2>4. \A n \in Nat : n \in Good
    BY <2>1, <2>2, <2>3, Induction
  <2> QED
    BY <2>4 DEF Good
<1>9. S \in UpToSize(Cardinality(S))
  BY <1>5
<1> QED
  BY <1>1, <1>5, <1>8, <1>9
-----------------------------------------------------------------------------
(***************************************************************************)
(* What a pass computes from the geometry is of its type, and its ranking  *)
(* is a ranking as DensityControl means it.                                *)
(***************************************************************************)
LEMMA SmallestIndex ==
  ASSUME NEW N \in Nat, NEW S \in SUBSET (1..N), S # {}
  PROVE  Smallest(S) \in S
<1> DEFINE f == [i \in S |-> i]
<1>1. \A i \in S : i \in Int /\ f[i] = i
  OBVIOUS
<1>2. f \in [S -> Int]
  BY <1>1
<1> HIDE DEF f
<1>3. {f[i] : i \in S} = S
  BY <1>1
<1> QED
  BY <1>2, <1>3, Extremes

\* The nearest sphere is one of the spheres and is as near as the nearest.
LEMMA NearestIs ==
  ASSUME NEW n \in Nat, n # 0, NEW bs \in [1..n -> Balls], NEW p \in Int
  PROVE  Nearest(p, bs) \in 1..n /\ Gap(p, bs[Nearest(p, bs)]) = MinGap(p, bs)
<1> DEFINE S == {i \in 1..n : Gap(p, bs[i]) = MinGap(p, bs)}
<1>1. S \in SUBSET (1..n) /\ S # {}
  BY MinGapIs
<1>2. Nearest(p, bs) = Smallest(S)
  BY DEF Nearest
<1> HIDE DEF S
<1>3. Nearest(p, bs) \in S
  BY <1>1, <1>2, SmallestIndex
<1> QED
  BY <1>3 DEF S

\* A hole is never negative as long as there are two spheres.
LEMMA HoleIsNatural ==
  ASSUME NEW n \in Nat, n > 1, NEW bs \in [1..n -> Balls], NEW p \in Int
  PROVE  Hole(p, bs) \in Nat
<1>1. n # 0
  OBVIOUS
<1>2. /\ \A i \in 1..n : Gap(p, bs[i]) \in Int /\ MinGap(p, bs) <= Gap(p, bs[i])
      /\ MinGap(p, bs) \in Int
  BY <1>1, MinGapIs
<1> DEFINE near == Nearest(p, bs)
           S == (1..n) \ {near}
           f == [j \in S |-> Gap(p, bs[j])]
           second == {Gap(p, bs[j]) : j \in Others(bs, near)}
<1>3. near \in 1..n
  BY NearestIs
<1>4. S \in SUBSET (1..n) /\ S # {} /\ Others(bs, near) = S
  <2>1. 1 \in 1..n /\ 2 \in 1..n
    OBVIOUS
  <2>2. 1 \in S \/ 2 \in S
    BY <2>1
  <2> QED
    BY <2>2 DEF Others
<1>5. f \in [S -> Int] /\ second = {f[j] : j \in S}
  <2>1. \A j \in 1..n : Gap(p, bs[j]) \in Int
    BY <1>2
  <2>2. \A j \in S : j \in 1..n
    BY <1>4
  <2> HIDE DEF S
  <2>3. f \in [S -> Int] /\ \A j \in S : f[j] = Gap(p, bs[j])
    BY <2>1, <2>2
  <2>4. second = {Gap(p, bs[j]) : j \in S}
    BY <1>4
  <2> HIDE DEF f, second
  <2> QED
    BY <2>3, <2>4
<1> HIDE DEF f, S
<1>6. PICK j \in S : Smallest(second) = f[j]
  BY <1>4, <1>5, Extremes
<1>7. f[j] = Gap(p, bs[j]) /\ j \in 1..n
  BY <1>4 DEF f
<1>8. MinGap(p, bs) <= Gap(p, bs[j]) /\ Gap(p, bs[j]) \in Int /\ MinGap(p, bs) \in Int
  BY <1>7, <1>2
<1>9. second # {}
  BY <1>4, <1>5
<1> HIDE DEF second, near
<1>10. Hole(p, bs) = Smallest(second) - MinGap(p, bs)
  BY <1>9 DEF Hole, second, near
<1> QED
  BY <1>6, <1>7, <1>8, <1>10

\* A marginal value is never negative: bad spheres (-1) rank behind all others.
LEMMA MarginalValueIsNatural ==
  ASSUME NEW n \in Nat, n > 1, NEW bs \in [1..n -> Balls], NEW i
  PROVE  MarginalValue(i, bs) \in Nat
<1>1. ASSUME NEW samples, NEW m \in Nat, samples \in [1..m -> Int]
      PROVE  Score(i, bs, samples) \in Nat
  <2> DEFINE S == Own(samples, bs, i)
             f == [s \in S |-> Hole(samples[s], bs)]
  <2>1. S \in SUBSET (1..m)
    BY <1>1 DEF Own
  <2>2. IsFiniteSet(S)
    <3> HIDE DEF S
    <3> QED
      BY <2>1, IntervalSize
  <2>3. f \in [S -> Nat]
    <3> HIDE DEF S
    <3>1. \A s \in S : Hole(samples[s], bs) \in Nat
      BY <1>1, <2>1, HoleIsNatural
    <3> QED
      BY <3>1
  <2>4. SumFunction(f) \in Nat
    <3> HIDE DEF S, f
    <3> QED
      BY <2>2, <2>3, SumOfNaturals
  <2> QED
    BY <2>4 DEF Score
<1>2. Len(InsideSamples) \in Nat /\ InsideSamples \in [1..Len(InsideSamples) -> Int]
  BY LineAssumption
<1>3. Score(i, bs, Problem.inside) \in Nat
  BY <1>1, <1>2 DEF Problem
<1>4. 2 \in Nat /\ Problem.surface \in [1..2 -> Int]
  BY PointsAreWhole DEF Problem
<1>5. Score(i, bs, Problem.surface) \in Nat
  BY <1>1, <1>4
<1>6. {Weights["coverage"], Weights["surface"], Weights["boundary"], Weights["sqem"]} \subseteq Nat
  BY LineAssumption
<1>7. \A a, b, c, d, x, y \in Nat : a * x + (b + c + d) * y \in Nat
  OBVIOUS
<1> QED
  BY <1>3, <1>5, <1>6, <1>7 DEF MarginalValue

\* A pass keeps the first spheres of a ranking, the bad ones last and in index order.
LEMMA RankingIsRanking ==
  ASSUME NEW n \in Nat, n > 1, NEW bs \in [1..n -> Balls], NEW bad \in SUBSET (1..n),
         NEW k \in 1..(n - 1)
  PROVE  /\ SubSeq(Ranking(bs, bad), 1, n - k) \in Rankings(n, k, bad)
         /\ SubSeq(Ranking(bs, bad), 1, n - k) \in [1..(n - k) -> 1..n]
<1> DEFINE key == [i \in 1..n |-> -(IF i \in bad THEN -1 ELSE MarginalValue(i, bs))]
           order == Ranking(bs, bad)
           keep == SubSeq(order, 1, n - k)
<1>1. order = InOrder(key)
  BY DEF Ranking
<1>2. key \in [1..n -> Int] /\ \A i \in 1..n : i \in bad <=> key[i] > 0
  BY MarginalValueIsNatural
<1>3. Cardinality(1..n) = n /\ 1..n \in SUBSET (1..n)
  BY IntervalSize
<1> HIDE DEF key, order
<1>4. order \in Bijection(1..n, 1..n) /\ \A a, b \in 1..n : a < b => Precedes(key, order[a], order[b])
  BY <1>1, <1>2, <1>3, InOrderIsOrder
<1>5. /\ order \in [1..n -> 1..n]
      /\ \A a, b \in 1..n : order[a] = order[b] => a = b
      /\ \A i \in 1..n : \E h \in 1..n : order[h] = i
  BY <1>4 DEF Bijection, Injection, Surjection, IsInjective
<1>6. order \in Seq(1..n) /\ Len(order) = n
  BY <1>5, FunctionIsSeq
<1>7. keep = [i \in 1..(n - k) |-> order[i]]
  BY <1>6
<1> HIDE DEF keep
<1>8. /\ keep \in [1..(n - k) -> 1..n]
      /\ \A i \in 1..(n - k) : i \in 1..n /\ keep[i] = order[i]
  <2>1. \A i \in 1..(n - k) : i \in 1..n
    OBVIOUS
  <2> QED
    BY <1>5, <1>7, <2>1
<1>9. keep \in Injection(1..(n - k), 1..n)
  BY <1>5, <1>8 DEF Injection, IsInjective
<1>10. ASSUME NEW i \in 1..(n - k), keep[i] \in bad, NEW j \in 1..n, j \notin bad \/ j < keep[i]
       PROVE  \E h \in 1..(i - 1) : keep[h] = j
  <2>1. PICK h \in 1..n : order[h] = j
    BY <1>5
  <2>2. i \in 1..n /\ keep[i] = order[i] /\ keep[i] \in 1..n
    BY <1>8
  <2>3. Precedes(key, j, keep[i])
    <3>1. key[j] \in Int /\ key[keep[i]] \in Int /\ key[keep[i]] > 0
      BY <1>2, <1>10, <2>2
    <3>2. CASE j \notin bad
      <4>1. ~(key[j] > 0)
        BY <1>2, <3>2
      <4> QED
        BY <3>1, <4>1 DEF Precedes
    <3>3. CASE j \in bad /\ j < keep[i]
      <4>1. key[j] = key[keep[i]]
        BY <1>10, <2>2, <3>3 DEF key
      <4> QED
        BY <3>3, <4>1 DEF Precedes
    <3> QED
      BY <1>10, <3>2, <3>3
  <2>4. ASSUME i <= h PROVE FALSE
    <3>1. i = h \/ Precedes(key, keep[i], j)
      BY <1>4, <2>1, <2>2, <2>4
    <3>2. key[j] \in Int /\ key[keep[i]] \in Int
      BY <1>2, <2>2
    <3> QED
      BY <2>1, <2>2, <2>3, <3>1, <3>2 DEF Precedes
  <2>5. h \in 1..(i - 1) /\ h \in 1..(n - k)
    BY <2>2, <2>4
  <2> QED
    BY <1>8, <2>1, <2>5
<1>11. keep \in Rankings(n, k, bad)
  BY <1>9, <1>10 DEF Rankings
<1>12. SubSeq(Ranking(bs, bad), 1, n - k) = keep
  BY DEF keep, order
<1>13. keep \in [1..(n - k) -> 1..n]
  BY <1>8
<1> HIDE DEF Rankings
<1> QED
  BY <1>11, <1>12, <1>13
-----------------------------------------------------------------------------
(***************************************************************************)
(* Reseeding places as many spheres as it is asked to, and what moves a    *)
(* sphere leaves a sphere.                                                 *)
(***************************************************************************)
LEMMA BallIsBall ==
  ASSUME NEW c \in Int, NEW r \in Int
  PROVE  Ball(c, r) \in Balls
BY DEF Ball, Balls

\* A list of known length as a function.
LEMMA SeqIsFunction ==
  ASSUME NEW S, NEW s \in Seq(S), NEW n \in Nat, Len(s) = n
  PROVE  s \in [1..n -> S]
OBVIOUS

\* The radius of a new sphere, from the median of the survivors.
LEMMA ReseedRadiusIsWhole ==
  ASSUME NEW m \in Nat, m # 0, NEW survivors \in [1..m -> Balls], NEW gap \in Int
  PROVE  ReseedRadius(gap, survivors) \in Int
<1> DEFINE radii == [i \in DOMAIN survivors |-> survivors[i].radius]
           mid == (m + 1) \div 2
<1>1. radii \in [1..m -> Int]
  BY DEF Balls
<1>2. Len(radii) = m
  BY <1>1, FunctionIsSeq
<1>3. mid \in 1..m
  OBVIOUS
<1>4. Cardinality(1..m) = m /\ 1..m \in SUBSET (1..m)
  BY IntervalSize
<1> HIDE DEF radii, mid
<1>5. InOrder(radii) \in Bijection(1..m, 1..m)
  BY <1>1, <1>4, InOrderIsOrder
<1>6. InOrder(radii)[mid] \in 1..m
  BY <1>3, <1>5 DEF Bijection, Injection
<1>7. TorchMedian(radii) \in Int
  BY <1>1, <1>2, <1>6 DEF TorchMedian, mid
<1>8. Length \in Nat
  BY LineAssumption
<1> HIDE DEF radii
<1> QED
  BY <1>7, <1>8 DEF ReseedRadius, AtMost, AtLeast, radii

\* The worst sample is a sample.
LEMMA ArgmaxIsIndex ==
  ASSUME NEW m \in Nat, m # 0, NEW values \in [1..m -> Int]
  PROVE  ArgmaxFirst(values) \in 1..m
<1> DEFINE top == Largest({values[i] : i \in 1..m})
           S == {i \in 1..m : values[i] = top}
<1>1. 1..m # {} /\ 1..m \in SUBSET (1..m)
  <2>1. 1 \in 1..m
    OBVIOUS
  <2> QED
    BY <2>1
<1>2. top \in {values[i] : i \in 1..m}
  BY <1>1, Extremes
<1>3. Range(values) = {values[i] : i \in 1..m}
  BY DEF Range
<1>4. ArgmaxFirst(values) = Smallest(S)
  BY <1>3 DEF ArgmaxFirst
<1>5. S \in SUBSET (1..m) /\ S # {}
  BY <1>2
<1> HIDE DEF S
<1>6. ArgmaxFirst(values) \in S
  BY <1>4, <1>5, SmallestIndex
<1> QED
  BY <1>5, <1>6

\* One sphere more, at the sample that is covered worst.
Extended(soFar, survivors) ==
  LET gaps  == [s \in DOMAIN InsideSamples |-> MinGap(InsideSamples[s], soFar)]
      worst == ArgmaxFirst(gaps)
  IN  Append(soFar, Ball(InsideSamples[worst], ReseedRadius(gaps[worst], survivors)))

\* One sphere is placed at a time.
LEMMA ExtendedIsOneMore ==
  ASSUME NEW m \in Nat, m # 0, NEW survivors \in [1..m -> Balls],
         NEW l \in Nat, l # 0, NEW soFar \in [1..l -> Balls]
  PROVE  Extended(soFar, survivors) \in [1..(l + 1) -> Balls]
<1> DEFINE gaps == [s \in DOMAIN InsideSamples |-> MinGap(InsideSamples[s], soFar)]
           worst == ArgmaxFirst(gaps)
           new == Ball(InsideSamples[worst], ReseedRadius(gaps[worst], survivors))
           N == Len(InsideSamples)
<1>1. N \in Nat /\ N # 0 /\ InsideSamples \in [1..N -> Int] /\ DOMAIN InsideSamples = 1..N
  BY LineAssumption
<1>2. \A s \in 1..N : MinGap(InsideSamples[s], soFar) \in Int
  BY <1>1, MinGapIs
<1>3. gaps \in [1..N -> Int]
  BY <1>1, <1>2
<1> HIDE DEF gaps, N
<1>4. worst \in 1..N
  BY <1>1, <1>3, ArgmaxIsIndex
<1> HIDE DEF worst
<1>5. gaps[worst] \in Int /\ InsideSamples[worst] \in Int
  BY <1>1, <1>3, <1>4
<1>6. new \in Balls
  BY <1>5, ReseedRadiusIsWhole, BallIsBall
<1> HIDE DEF new
<1>7. soFar \in Seq(Balls) /\ Len(soFar) = l
  BY FunctionIsSeq
<1>8. Append(soFar, new) \in Seq(Balls) /\ Len(Append(soFar, new)) = l + 1
  BY <1>6, <1>7
<1>9. Append(soFar, new) \in [1..(l + 1) -> Balls]
  <2> DEFINE longer == Append(soFar, new)
  <2>1. longer \in Seq(Balls) /\ Len(longer) = l + 1
    BY <1>8
  <2> HIDE DEF longer
  <2>2. longer \in [1..(l + 1) -> Balls]
    BY <2>1, SeqIsFunction
  <2> QED
    BY <2>2 DEF longer
<1> QED
  BY <1>9 DEF Extended, new, worst, gaps

\* After k of them there are k more.
LEMMA ReseededIsWhole ==
  ASSUME NEW m \in Nat, m # 0, NEW survivors \in [1..m -> Balls], NEW k \in Nat
  PROVE  Reseeded(survivors, k) \in [1..(m + k) -> Balls]
<1> DEFINE Places(g, n) == g = [j \in 0..n |->
                                  IF j = 0 THEN survivors ELSE Extended(g[j - 1], survivors)]
           iter == CHOOSE g : Places(g, k)
<1>1. Reseeded(survivors, k) = iter[k]
  BY DEF Reseeded, Extended
<1>2. \A n \in Nat : \E g : Places(g, n)
  <2> DEFINE Good == {n \in Nat : \E g : Places(g, n)}
  <2>1. 0 \in Good
    <3> DEFINE g0 == [j \in 0..0 |-> survivors]
    <3>1. Places(g0, 0)
      OBVIOUS
    <3> QED
      BY <3>1
  <2>2. ASSUME NEW n \in Good PROVE n + 1 \in Good
    <3>1. n \in Nat
      OBVIOUS
    <3>2. PICK g : Places(g, n)
      OBVIOUS
    <3> DEFINE h == [j \in 0..(n + 1) |->
                       IF j = 0 THEN survivors ELSE Extended(g[j - 1], survivors)]
    <3>3. \A j \in 0..n : h[j] = g[j]
      BY <3>1, <3>2
    <3>4. \A j \in 0..(n + 1) : j # 0 => j - 1 \in 0..n
      BY <3>1
    <3>5. Places(h, n + 1)
      BY <3>3, <3>4
    <3> HIDE DEF h
    <3>6. \E f : Places(f, n + 1)
      BY <3>5
    <3> HIDE DEF Places
    <3> QED
      BY <3>1, <3>6
  <2> HIDE DEF Good
  <2>3. Good \in SUBSET Nat
    BY DEF Good
  <2>4. \A n \in Nat : n \in Good
    BY <2>1, <2>2, <2>3, Induction
  <2> QED
    BY <2>4 DEF Good
<1>3. Places(iter, k)
  <2>1. \E g : Places(g, k)
    BY <1>2
  <2> HIDE DEF Places
  <2> QED
    BY <2>1
<1> HIDE DEF iter
<1>4. /\ iter[0] = survivors
      /\ \A j \in 1..k : iter[j] = Extended(iter[j - 1], survivors)
  BY <1>3
<1>5. \A n \in Nat : n <= k => iter[n] \in [1..(m + n) -> Balls]
  <2> DEFINE Good == {n \in Nat : n <= k => iter[n] \in [1..(m + n) -> Balls]}
  <2>1. 0 \in Good
    BY <1>4
  <2>2. ASSUME NEW n \in Good PROVE n + 1 \in Good
    <3>1. n \in Nat /\ n + 1 \in Nat
      OBVIOUS
    <3>2. SUFFICES ASSUME n + 1 <= k
                   PROVE  iter[n + 1] \in [1..(m + (n + 1)) -> Balls]
      BY <3>1
    <3>3. iter[n] \in [1..(m + n) -> Balls] /\ m + n \in Nat /\ m + n # 0
      BY <3>1, <3>2
    <3>4. iter[n + 1] = Extended(iter[n], survivors)
      <4>1. n + 1 \in 1..k /\ (n + 1) - 1 = n
        BY <3>1, <3>2
      <4> QED
        BY <1>4, <4>1
    <3>5. iter[n + 1] \in [1..((m + n) + 1) -> Balls]
      BY <3>3, <3>4, ExtendedIsOneMore
    <3>6. (m + n) + 1 = m + (n + 1)
      BY <3>1
    <3> QED
      BY <3>5, <3>6
  <2> HIDE DEF Good
  <2>3. Good \in SUBSET Nat
    BY DEF Good
  <2>4. \A n \in Nat : n \in Good
    BY <2>1, <2>2, <2>3, Induction
  <2> QED
    BY <2>4 DEF Good
<1> QED
  BY <1>1, <1>5

\* The optimizer leaves a sphere,
LEMMA MovedIsBall ==
  ASSUME NEW b \in Balls, NEW move \in Moves
  PROVE  Moved(b, move) \in Balls
<1>1. move \in Balls
  BY LineSessionAssumption
<1> QED
  BY <1>1 DEF Moved, AtLeast, Ball, Balls

\* so does the warmup,
LEMMA WarmupIsWhole ==
  ASSUME NEW n \in Nat, NEW bs \in [1..n -> Balls], NEW kept \in Nat,
         NEW warm \in Warmups(bs, kept)
  PROVE  warm \in [1..n -> Balls]
<1>1. Len(bs) = n
  BY FunctionIsSeq
<1>2. PICK f \in [(kept + 1)..n -> Moves] :
        warm = [i \in 1..n |-> IF i <= kept THEN bs[i] ELSE Moved(bs[i], f[i])]
  BY <1>1 DEF Warmups
<1>3. ASSUME NEW i \in 1..n
      PROVE  warm[i] \in Balls
  <2>1. CASE i <= kept
    BY <1>2, <2>1
  <2>2. CASE ~(i <= kept)
    <3>1. i \in (kept + 1)..n
      BY <2>2
    <3> QED
      BY <1>2, <2>2, <3>1, MovedIsBall
  <2> QED
    BY <2>1, <2>2
<1> QED
  BY <1>2, <1>3

\* snapping a center back to the mesh,
LEMMA ProjectedIsBall ==
  ASSUME NEW b \in Balls
  PROVE  ProjectInside(b) \in Balls
<1> DEFINE c == b.center
           s == NearestSample(Problem, c)
<1>1. c \in Int /\ b.radius \in Int /\ Length \in Nat /\ Epsilon \in Nat
  BY LineAssumption, LineSessionAssumption DEF Balls
<1>2. /\ DOMAIN Problem.surface = {1, 2} /\ Problem.surface[1] = 0 /\ Problem.surface[2] = Length
      /\ Problem.normals[1] = -1 /\ Problem.normals[2] = 1
  BY DEF Problem
<1>3. s \in 1..2
  <2> DEFINE near == {i \in DOMAIN Problem.surface : \A k \in DOMAIN Problem.surface :
                        Dist(Problem.surface[i], c) <= Dist(Problem.surface[k], c)}
  <2>1. Dist(0, c) \in Nat /\ Dist(Length, c) \in Nat
    <3>1. \A x, y \in Int : Dist(x, y) \in Nat
      BY Triangle
    <3>2. 0 \in Int /\ Length \in Int /\ c \in Int
      BY <1>1
    <3> HIDE DEF c
    <3> QED
      BY <3>1, <3>2
  <2>2. 1 \in near \/ 2 \in near
    BY <1>2, <2>1
  <2>3. near \in SUBSET (1..2)
    BY <1>2
  <2>4. s = Smallest(near)
    BY DEF NearestSample
  <2> HIDE DEF near
  <2> QED
    BY <2>2, <2>3, <2>4, SmallestIndex
<1> HIDE DEF s
<1>4. Problem.surface[s] \in Int /\ Problem.normals[s] \in {-1, 1}
  BY <1>1, <1>2, <1>3
<1>5. \A h \in Int : c - Problem.normals[s] * (h + Epsilon) \in Int
  BY <1>1, <1>4
<1>6. Height(Problem, c) \in Int
  BY <1>1, <1>4 DEF Height, s
<1>7. \A x \in Int : [b EXCEPT !.center = x] \in Balls
  BY DEF Balls
<1> QED
  BY <1>5, <1>6, <1>7 DEF ProjectInside, s

\* and an iteration as a whole.
LEMMA TrainedIsWhole ==
  ASSUME NEW n \in Nat, NEW bs \in [1..n -> Balls], NEW trained \in TrainedBalls(bs)
  PROVE  trained \in [1..n -> Balls]
<1>1. PICK j \in 1..n, move \in Moves :
        trained = [i \in 1..n |-> ProjectInside(IF i = j THEN Moved(bs[i], move) ELSE bs[i])]
  <2>1. PICK j \in DOMAIN bs, move \in Moves :
          trained = [i \in DOMAIN bs |->
                       ProjectInside(IF i = j THEN Moved(bs[i], move) ELSE bs[i])]
    BY SMT DEF TrainedBalls
  <2>2. DOMAIN bs = 1..n
    OBVIOUS
  <2> QED
    BY <2>1, <2>2
<1>2. ASSUME NEW i \in 1..n
      PROVE  trained[i] \in Balls
  <2>1. (IF i = j THEN Moved(bs[i], move) ELSE bs[i]) \in Balls
    BY MovedIsBall
  <2> QED
    BY <1>1, <2>1, ProjectedIsBall
<1> QED
  BY <1>1, <1>2
-----------------------------------------------------------------------------
(***************************************************************************)
(* A session on a line takes the steps of PackSession.                     *)
(***************************************************************************)
\* A step may end in each way its verdicts allow.
LEMMA StepIntro ==
  ASSUME NEW s, NEW converged \in ConvergenceVerdicts(s)
  PROVE  /\ TRUE \in PassVerdicts(s, converged) =>
              \A out \in Repacks(s.spheres, s.born, s.temperature) :
                Ended(WithPass(Trained(s), out), converged, TRUE, out.removed, out.bad)
                  \in StepResults(s)
         /\ FALSE \in PassVerdicts(s, converged) =>
              Ended(Trained(s), converged, FALSE, 0, {}) \in StepResults(s)
<1> DEFINE With == {Ended(WithPass(Trained(s), out), converged, TRUE, out.removed, out.bad) :
                      out \in Repacks(s.spheres, s.born, s.temperature)}
           Without == {Ended(Trained(s), converged, FALSE, 0, {})}
           Ends(fired) == IF fired THEN With ELSE Without
           All == UNION {Ends(fired) : fired \in PassVerdicts(s, converged)}
           AllAfter(c) ==
             UNION {IF fired
                    THEN {Ended(WithPass(Trained(s), out), c, TRUE, out.removed, out.bad) :
                            out \in Repacks(s.spheres, s.born, s.temperature)}
                    ELSE {Ended(Trained(s), c, FALSE, 0, {})} : fired \in PassVerdicts(s, c)}
<1>1. All \subseteq StepResults(s)
  <2>1. StepResults(s) = UNION {AllAfter(c) : c \in ConvergenceVerdicts(s)}
    BY DEF StepResults
  <2>2. AllAfter(converged) = All
    OBVIOUS
  <2> HIDE DEF All, AllAfter
  <2> QED
    BY <2>1, <2>2
<1> HIDE DEF AllAfter
<1>2. Ends(TRUE) = With /\ Ends(FALSE) = Without
  OBVIOUS
<1> HIDE DEF With, Without, Ends
<1>3. /\ TRUE \in PassVerdicts(s, converged) => With \subseteq All
      /\ FALSE \in PassVerdicts(s, converged) => Without \subseteq All
  BY <1>2
<1> HIDE DEF All
<1>4. \A out \in Repacks(s.spheres, s.born, s.temperature) :
        Ended(WithPass(Trained(s), out), converged, TRUE, out.removed, out.bad) \in With
  BY DEF With
<1>5. Ended(Trained(s), converged, FALSE, 0, {}) \in Without
  BY DEF Without
<1> QED
  BY <1>1, <1>3, <1>4, <1>5

\* The verdicts the losses give are among those Session explores.
LEMMA VerdictsAreExplored ==
  ASSUME NEW s \in Sessions, NEW h, Len(h) = s.iteration + 1, NEW converged \in BOOLEAN
  PROVE  /\ Converged(s, h) \in ConvergenceVerdicts(s)
         /\ ~converged /\ DensityEnabled /\ ShouldTrigger(s, h) =>
              TRUE \in PassVerdicts(s, converged)
         /\ ~(~converged /\ DensityEnabled /\ ShouldTrigger(s, h)) =>
              FALSE \in PassVerdicts(s, converged)
<1>1. Converged(s, h) \in ConvergenceVerdicts(s)
  BY DEF Converged, ConvergenceVerdicts
<1> DEFINE since == IF s.iteration < s.lastPass THEN 0 ELSE s.iteration - s.lastPass
<1>2. /\ s.iteration \in Nat /\ s.lastPass \in Nat /\ MinInterval \in Nat /\ Patience \in Nat
      /\ since \in Nat
  BY ConstantTypes, DensityAssumption DEF Sessions
<1>3. TriggerVerdicts(s.iteration, s.lastPass, s.iteration + 1) =
        IF since < MinInterval THEN {FALSE}
        ELSE IF since > 2 * MinInterval THEN {TRUE}
        ELSE IF s.iteration + 1 < Patience THEN {FALSE}
        ELSE BOOLEAN
  BY DEF TriggerVerdicts
<1>4. ShouldTrigger(s, h) =>
        /\ ~(since < MinInterval)
        /\ since > 2 * MinInterval \/ ~(s.iteration + 1 < Patience)
  BY <1>2 DEF ShouldTrigger
<1>5. since > 2 * MinInterval => ShouldTrigger(s, h) /\ ~(since < MinInterval)
  BY <1>2 DEF ShouldTrigger
<1> HIDE DEF since
<1>6. ShouldTrigger(s, h) => TRUE \in TriggerVerdicts(s.iteration, s.lastPass, s.iteration + 1)
  BY <1>3, <1>4
<1>7. ~ShouldTrigger(s, h) => FALSE \in TriggerVerdicts(s.iteration, s.lastPass, s.iteration + 1)
  BY <1>3, <1>5
<1> QED
  BY <1>1, <1>6, <1>7 DEF PassVerdicts

\* So is what a pass does to the slots, and each slot keeps one sphere.
LEMMA RepackIsExplored ==
  ASSUME NEW s \in Sessions, s.spheres # <<>>, NEW bs \in [1..Len(s.spheres) -> Balls],
         NEW r \in Repack(s, bs)
  PROVE  /\ r.out \in Repacks(s.spheres, s.born, s.temperature)
         /\ r.balls \in [1..Len(s.spheres) -> Balls]
<1> DEFINE n == Len(s.spheres)
           bad == IdentifyBad(bs)
           k == CullCount(s.temperature, n, Cardinality(bad))
           keep == SubSeq(Ranking(bs, bad), 1, n - k)
           survivors == [i \in 1..(n - k) |-> bs[keep[i]]]
           badSpheres == {s.spheres[i] : i \in bad}
           out(list) == Outcome([i \in 1..n |-> IF i <= n - k THEN s.spheres[list[i]]
                                                ELSE s.born + i - (n - k)],
                                s.born + k, Cooled(s.temperature), k, badSpheres)
           same == Outcome(s.spheres, s.born, s.temperature, 0, badSpheres)
<1>1. n \in Nat \ {0} /\ s.temperature \in Nat
  BY LenProperties DEF Sessions
<1>2. Len(bs) = n /\ DOMAIN bs = 1..n
  BY <1>1, FunctionIsSeq
<1>3. bad \in SUBSET (1..n)
  BY <1>2 DEF IdentifyBad
<1>4. k \in 0..(n - 1)
  <2>1. Cardinality(bad) \in Nat
    BY <1>1, <1>3, IntervalSize
  <2> QED
    BY <1>1, <2>1, CullCountBounds
<1>5. Repack(s, bs) =
        IF k = 0 THEN {[out |-> same, balls |-> bs]}
        ELSE {[out |-> out(keep), balls |-> warm] :
                warm \in Warmups(Reseeded([i \in DOMAIN keep |-> bs[keep[i]]], k), n - k)}
  BY <1>2 DEF Repack
<1> DEFINE Outs(b) ==
             LET c == CullCount(s.temperature, n, Cardinality(b))
                 gone == {s.spheres[i] : i \in b}
             IN  IF c = 0
                 THEN {Outcome(s.spheres, s.born, s.temperature, 0, gone)}
                 ELSE {Outcome([i \in 1..n |-> IF i <= n - c THEN s.spheres[list[i]]
                                                ELSE s.born + i - (n - c)],
                               s.born + c, Cooled(s.temperature), c, gone) :
                         list \in Rankings(n, c, b)}
<1>6. /\ k = 0 => same \in Repacks(s.spheres, s.born, s.temperature)
      /\ k # 0 => \A list \in Rankings(n, k, bad) :
                    out(list) \in Repacks(s.spheres, s.born, s.temperature)
  <2>1. Repacks(s.spheres, s.born, s.temperature) = UNION {Outs(b) : b \in SUBSET (1..n)}
    BY DEF Repacks
  <2>2. Outs(bad) = IF k = 0 THEN {same} ELSE {out(list) : list \in Rankings(n, k, bad)}
    OBVIOUS
  <2> HIDE DEF Outs, bad, k, same, out
  <2>3. Outs(bad) \subseteq Repacks(s.spheres, s.born, s.temperature)
    BY <1>3, <2>1
  <2> QED
    BY <2>2, <2>3
<1> HIDE DEF Outs
<1> HIDE DEF bad, k, keep, out, same
<1>7. CASE k = 0
  BY <1>5, <1>6, <1>7
<1>8. CASE k # 0
  <2>1. k \in 1..(n - 1) /\ n > 1 /\ n - k \in Nat /\ n - k # 0 /\ k \in Nat
    BY <1>1, <1>4, <1>8
  <2>2. keep \in Rankings(n, k, bad) /\ keep \in [1..(n - k) -> 1..n]
    BY <1>1, <1>3, <2>1, RankingIsRanking DEF keep
  <2>3. DOMAIN keep = 1..(n - k)
    BY <2>2
  <2>4. survivors \in [1..(n - k) -> Balls]
    BY <2>2
  <2>5. PICK warm \in Warmups(Reseeded(survivors, k), n - k) :
          r = [out |-> out(keep), balls |-> warm]
    BY <1>5, <1>8, <2>3
  <2> HIDE DEF survivors
  <2>6. Reseeded(survivors, k) \in [1..n -> Balls]
    <3>1. Reseeded(survivors, k) \in [1..((n - k) + k) -> Balls]
      BY <2>1, <2>4, ReseededIsWhole
    <3>2. (n - k) + k = n
      BY <2>1, <1>1
    <3> QED
      BY <3>1, <3>2
  <2> DEFINE placed == Reseeded(survivors, k)
  <2> HIDE DEF placed
  <2>7. placed \in [1..n -> Balls] /\ warm \in Warmups(placed, n - k)
    BY <2>5, <2>6 DEF placed
  <2>8. warm \in [1..n -> Balls]
    BY <1>1, <2>1, <2>7, WarmupIsWhole
  <2>9. r.out = out(keep) /\ r.balls = warm
    BY <2>5
  <2> QED
    BY <1>6, <1>8, <2>2, <2>8, <2>9
<1> QED
  BY <1>7, <1>8

\* The final prune selects as Session lets it select.
LEMMA KeptIsExplored ==
  ASSUME NEW n \in Nat, n # 0, NEW bs \in [1..n -> Balls]
  PROVE  /\ Kept(bs) \in SUBSET (1..n) /\ Kept(bs) # {}
         /\ Ascending(Kept(bs)) \in Selections(n)
         /\ DOMAIN Ascending(Kept(bs)) = 1..Cardinality(Kept(bs))
<1> DEFINE inside == {i \in 1..n : IsInside(bs[i].center)}
           keep == Kept(bs)
           c == Cardinality(keep)
           order == Ascending(keep)
<1>1. InsideMesh(bs) = IF inside = {} THEN {1} ELSE inside
  BY DEF InsideMesh
<1>2. /\ InsideMesh(bs) \in SUBSET (1..n) /\ InsideMesh(bs) # {}
      /\ keep \in SUBSET InsideMesh(bs) /\ (~PruneContained => keep = InsideMesh(bs))
      /\ \A j \in InsideMesh(bs) : \E i \in keep : Encloses(bs[i], bs[j])
  BY KeptFacts
<1> HIDE DEF keep
<1>3. keep # {} /\ keep \in SUBSET (1..n)
  BY <1>2
<1>4. keep \in Survivors(n)
  <2> DEFINE Insides == {IF in = {} THEN {1} ELSE in : in \in SUBSET (1..n)}
             Subsets(set) == (SUBSET set) \ {{}}
  <2>1. InsideMesh(bs) \in Insides
    <3>1. inside \in SUBSET (1..n)
      OBVIOUS
    <3> HIDE DEF inside
    <3> QED
      BY <1>1, <3>1
  <2>2. Survivors(n) = IF PruneContained THEN UNION {Subsets(set) : set \in Insides} ELSE Insides
    BY DEF Survivors
  <2>3. keep \in Subsets(InsideMesh(bs))
    BY <1>2, <1>3
  <2> HIDE DEF Insides, Subsets
  <2>4. keep \in UNION {Subsets(set) : set \in Insides}
    BY <2>1, <2>3
  <2> QED
    BY <1>2, <2>1, <2>2, <2>4
<1>5. /\ order \in [1..c -> keep] /\ {order[m] : m \in 1..c} = keep
      /\ \A m, l \in 1..c : m < l => order[m] < order[l]
      /\ c \in Nat
  BY <1>3, AscendingIsOrder
<1>6. c \in 0..n
  BY <1>3, IntervalSize
<1> HIDE DEF order, c
<1>7. DOMAIN order = 1..c /\ Range(order) = keep /\ order \in [1..c -> 1..n]
  BY <1>3, <1>5 DEF Range
<1>8. order \in UNION {[1..m -> 1..n] : m \in 0..n}
  BY <1>6, <1>7
<1>9. order \in Selections(n)
  BY <1>4, <1>5, <1>7, <1>8 DEF Selections
<1> QED
  BY <1>3, <1>7, <1>9 DEF order, c, keep

(***************************************************************************)
(* LineInv: slot by slot one sphere, and one entry in the history for each *)
(* iteration, which is what the trigger counts.                            *)
(***************************************************************************)
LineInv ==
  /\ TypeOK
  /\ balls \in [1..Len(sess.spheres) -> Balls]
  /\ history = [i \in 1..sess.iteration |-> history[i]]

\* A new session satisfies it, and is a new session of PackSession.
LEMMA LineInvInit == LineInit => LineInv /\ Init
<1> SUFFICES ASSUME LineInit PROVE LineInv /\ Init
  OBVIOUS
<1>1. /\ balls \in Seq(Balls) /\ Len(balls) \in StartCounts
      /\ sess = NewSession(Len(balls)) /\ history = <<>>
  BY LineSessionAssumption DEF LineInit
<1>2. /\ sess \in Sessions /\ sess.spheres # <<>> /\ Len(sess.spheres) = Len(balls)
      /\ sess.iteration = 0
  BY <1>1, NewSessionFields DEF NewSession
<1>3. balls \in [1..Len(sess.spheres) -> Balls]
  BY <1>1, <1>2
<1>4. history = [i \in 1..0 |-> history[i]]
  BY <1>1
<1> QED
  BY <1>1, <1>2, <1>3, <1>4 DEF LineInv, TypeOK, Init

\* The history grows by one.
LEMMA HistoryGrows ==
  ASSUME NEW n \in Nat, NEW h, h = [i \in 1..n |-> h[i]], NEW e
  PROVE  LET longer == Append(h, e)
         IN  longer = [i \in 1..(n + 1) |-> longer[i]] /\ Len(longer) = n + 1
<1> DEFINE S == {h[i] : i \in 1..n} \cup {e}
           longer == Append(h, e)
<1>1. h \in [1..n -> S]
  <2> DEFINE g == [i \in 1..n |-> h[i]]
  <2>1. g \in [1..n -> S]
    OBVIOUS
  <2>2. h = g
    OBVIOUS
  <2> HIDE DEF g
  <2> QED
    BY <2>1, <2>2
<1> HIDE DEF S
<1>2. h \in Seq(S) /\ Len(h) = n
  BY <1>1, FunctionIsSeq
<1>3. e \in S
  BY DEF S
<1>4. longer \in Seq(S) /\ Len(longer) = n + 1
  BY <1>2, <1>3
<1> HIDE DEF longer
<1>5. longer \in [1..(n + 1) -> S]
  BY <1>4, SeqIsFunction
<1>6. longer = [i \in 1..(n + 1) |-> longer[i]]
  BY <1>5
<1> QED
  BY <1>4, <1>6 DEF longer

\* An iteration on the line is one of Step's.
LEMMA LineStepIsStep ==
  ASSUME LineInv, LineStep
  PROVE  Step /\ LineInv' /\ sess'.state # "finalized"
<1> DEFINE converged == Converged(sess, history')
           fired == ~converged /\ DensityEnabled /\ ShouldTrigger(sess, history')
           n == Len(sess.spheres)
<1>1. /\ sess \in Sessions /\ sess.spheres # <<>> /\ balls \in [1..n -> Balls]
      /\ history = [i \in 1..sess.iteration |-> history[i]]
      /\ sess.iteration \in Nat /\ n \in Nat /\ ~IsDone(sess)
  BY LenProperties DEF LineInv, TypeOK, Sessions, LineStep
<1>2. history' = [i \in 1..(sess.iteration + 1) |-> history'[i]] /\ Len(history') = sess.iteration + 1
  <2>1. history' = Append(history, Record(balls))
    BY DEF LineStep
  <2> QED
    BY <1>1, <2>1, HistoryGrows
<1>3. PICK bs \in TrainedBalls(balls) :
        IF fired
        THEN \E r \in Repack(Trained(sess), bs) :
               /\ sess' = Ended(WithPass(Trained(sess), r.out), converged, TRUE,
                                r.out.removed, r.out.bad)
               /\ balls' = r.balls
        ELSE /\ sess' = Ended(Trained(sess), converged, FALSE, 0, {})
             /\ balls' = bs
  BY DEF LineStep
<1>4. bs \in [1..n -> Balls]
  BY <1>1, TrainedIsWhole
<1>5. converged \in ConvergenceVerdicts(sess) /\ converged \in BOOLEAN
  BY <1>1, <1>2, VerdictsAreExplored, VerdictTypes
<1>6. /\ fired => TRUE \in PassVerdicts(sess, converged)
      /\ ~fired => FALSE \in PassVerdicts(sess, converged)
  <2> DEFINE trigger == ShouldTrigger(sess, history')
  <2>1. \A c \in BOOLEAN :
          /\ ~c /\ DensityEnabled /\ trigger => TRUE \in PassVerdicts(sess, c)
          /\ ~(~c /\ DensityEnabled /\ trigger) => FALSE \in PassVerdicts(sess, c)
    BY <1>1, <1>2, VerdictsAreExplored
  <2> HIDE DEF trigger
  <2>2. fired <=> ~converged /\ DensityEnabled /\ trigger
    BY DEF trigger
  <2> HIDE DEF converged, fired
  <2> QED
    BY <1>5, <2>1, <2>2
<1> HIDE DEF converged, fired
<1>7. sess' \in StepResults(sess) /\ balls' \in [1..n -> Balls]
  <2>1. CASE fired
    <3> DEFINE t == Trained(sess)
    <3>1. /\ t \in Sessions /\ t.spheres = sess.spheres /\ t.born = sess.born
          /\ t.temperature = sess.temperature
      BY <1>1, TrainedType DEF Trained, Sessions
    <3>2. PICK r \in Repack(t, bs) :
            /\ sess' = Ended(WithPass(t, r.out), converged, TRUE, r.out.removed, r.out.bad)
            /\ balls' = r.balls
      BY <1>3, <2>1
    <3> HIDE DEF t
    <3>3. r.out \in Repacks(sess.spheres, sess.born, sess.temperature) /\ r.balls \in [1..n -> Balls]
      BY <1>1, <1>4, <3>1, RepackIsExplored
    <3>4. \A out \in Repacks(sess.spheres, sess.born, sess.temperature) :
            Ended(WithPass(t, out), converged, TRUE, out.removed, out.bad) \in StepResults(sess)
      BY <1>5, <1>6, <2>1, StepIntro DEF t
    <3> QED
      BY <3>2, <3>3, <3>4
  <2>2. CASE ~fired
    <3>1. sess' = Ended(Trained(sess), converged, FALSE, 0, {}) /\ balls' = bs
      BY <1>3, <2>2
    <3>2. Ended(Trained(sess), converged, FALSE, 0, {}) \in StepResults(sess)
      BY <1>5, <1>6, <2>2, StepIntro
    <3> QED
      BY <1>4, <3>1, <3>2
  <2> QED
    BY <2>1, <2>2
<1>8. Step
  BY <1>1, <1>7 DEF Step
<1>9. PICK c \in ConvergenceVerdicts(sess) : StepEnd(sess, sess', c)
  BY <1>1, <1>7, StepFields
<1>10. /\ sess' \in Sessions /\ sess'.spheres # <<>> /\ Len(sess'.spheres) = n
       /\ sess'.iteration = sess.iteration + 1 /\ sess'.state # "finalized"
  BY <1>1, <1>7, <1>9, StepFields DEF StepEnd
<1>11. LineInv'
  BY <1>2, <1>7, <1>10 DEF LineInv, TypeOK
<1> QED
  BY <1>8, <1>10, <1>11

\* The final prune on the line is one of Finalize's.
LEMMA LineFinalizeIsFinalize ==
  ASSUME LineInv, LineFinalize
  PROVE  Finalize /\ LineInv'
<1> DEFINE n == Len(sess.spheres)
           keep == Kept(balls)
           c == Cardinality(keep)
           order == Ascending(keep)
<1>1. /\ sess \in Sessions /\ sess.spheres # <<>> /\ balls \in [1..n -> Balls]
      /\ history = [i \in 1..sess.iteration |-> history[i]]
      /\ n \in Nat /\ n # 0 /\ sess.spheres \in [1..n -> Nat]
  BY LenProperties DEF LineInv, TypeOK, Sessions
<1>2. Len(balls) = n
  BY <1>1, FunctionIsSeq
<1>3. CASE sess.state = "finalized"
  <2>1. sess' = sess /\ balls' = balls /\ history' = history
    BY <1>3 DEF LineFinalize, lineVars
  <2>2. Finalize
    BY <1>3, <2>1 DEF Finalize, FinalizeResults
  <2> QED
    BY <2>1, <2>2 DEF LineInv, TypeOK
<1>4. CASE sess.state # "finalized"
  <2>1. /\ sess' = [sess EXCEPT !.spheres = Select(sess.spheres, keep), !.state = "finalized",
                                !.pruned = n - c]
        /\ balls' = Select(balls, keep) /\ history' = history
    BY <1>2, <1>4 DEF LineFinalize
  <2>2. keep \in SUBSET (1..n) /\ keep # {} /\ order \in Selections(n) /\ DOMAIN order = 1..c
    BY <1>1, KeptIsExplored
  <2>3. /\ c \in Nat /\ balls' \in [1..c -> Balls] /\ Select(sess.spheres, keep) \in [1..c -> Nat]
    <3>1. c \in 0..n /\ Select(balls, keep) \in [1..c -> Balls]
      BY <1>1, <2>2, SelectFacts
    <3>2. Select(sess.spheres, keep) \in [1..c -> Nat]
      BY <1>1, <2>2, SelectFacts
    <3> QED
      BY <2>1, <3>1, <3>2
  <2>4. /\ Select(sess.spheres, keep) = [i \in DOMAIN order |-> sess.spheres[order[i]]]
        /\ Cardinality(DOMAIN order) = c
    BY <2>2, <2>3, IntervalSize DEF Select
  <2> HIDE DEF n, c, order, keep
  <2>5. sess' \in FinalizeResults(sess)
    BY <1>4, <2>1, <2>2, <2>4 DEF FinalizeResults, n
  <2>6. sess' \in Sessions /\ sess'.spheres # <<>> /\ sess'.iteration = sess.iteration
    BY <1>1, <2>5, FinalizeFields
  <2>7. Len(sess'.spheres) = c
    <3>1. sess'.spheres = Select(sess.spheres, keep)
      BY <1>1, <2>1 DEF Sessions
    <3> QED
      BY <2>3, <3>1, FunctionIsSeq
  <2>8. LineInv'
    BY <1>1, <2>1, <2>3, <2>6, <2>7 DEF LineInv, TypeOK
  <2> QED
    BY <2>5, <2>8 DEF Finalize
<1> QED
  BY <1>3, <1>4

\* Every step on the line keeps LineInv and is a step of PackSession.
LEMMA LineNextIsNext == LineInv /\ [LineNext]_lineVars => LineInv' /\ [Next]_sess
<1> SUFFICES ASSUME LineInv, [LineNext]_lineVars PROVE LineInv' /\ [Next]_sess
  OBVIOUS
<1>1. CASE LineStep
  BY <1>1, LineStepIsStep DEF Next
<1>2. CASE LineFinalize
  BY <1>2, LineFinalizeIsFinalize DEF Next
<1>3. CASE UNCHANGED lineVars
  BY <1>3 DEF lineVars, LineInv, TypeOK
<1> QED
  BY <1>1, <1>2, <1>3 DEF LineNext

\* So LineInv always holds.
LEMMA LineInvariant == LineSpec => []LineInv
<1>1. LineInit => LineInv
  BY LineInvInit
<1>2. LineInv /\ [LineNext]_lineVars => LineInv'
  BY LineNextIsNext
<1> QED
  BY <1>1, <1>2, PTL DEF LineSpec

(***************************************************************************)
(* A session with its geometry is a session as PackSession describes it:   *)
(* what Session leaves to chance (verdicts, bad spheres, rankings, what is *)
(* pruned) covers what density.rs, trainer.rs and state.rs compute, and    *)
(* each slot keeps one sphere.                                             *)
(***************************************************************************)
THEOREM LineIsASession == LineSpec => ImplementsSession
<1>1. LineInit => Init
  BY LineInvInit
<1>2. LineInv /\ [LineNext]_lineVars => [Next]_sess
  BY LineNextIsNext
<1>3. LineSpec => Spec
  BY <1>1, <1>2, LineInvariant, PTL DEF LineSpec, Spec
<1>4. LineInv => balls = NoBalls \/ Len(balls) = Len(sess.spheres)
  <2>1. LineInv => Len(sess.spheres) \in Nat
    BY LenProperties DEF LineInv, TypeOK, Sessions
  <2> QED
    BY <2>1, FunctionIsSeq DEF LineInv
<1> QED
  BY <1>3, <1>4, LineInvariant, PTL DEF ImplementsSession

(***************************************************************************)
(* The final prune changes no metric.                                      *)
(***************************************************************************)
PruneStep ==
  balls # NoBalls /\ sess.state # "finalized" /\ sess'.state = "finalized" =>
    LET inside == Select(balls, InsideMesh(balls)) IN
      /\ balls' # <<>>
      /\ EvaluatePacking(balls') = EvaluatePacking(inside)
      /\ LinkQuality(balls') = LinkQuality(inside)
      /\ EvaluatePacking(balls').n_out > 0 => Len(balls') = 1

\* What the prune keeps scores as all spheres inside the mesh do.
LEMMA PrunedIsInside ==
  ASSUME NEW n \in Nat, n # 0, NEW bs \in [1..n -> Balls]
  PROVE  LET kept == Select(bs, Kept(bs))
             inside == Select(bs, InsideMesh(bs))
         IN  /\ kept # <<>>
             /\ EvaluatePacking(kept) = EvaluatePacking(inside)
             /\ LinkQuality(kept) = LinkQuality(inside)
             /\ EvaluatePacking(kept).n_out > 0 => Len(kept) = 1
<1> DEFINE K == Kept(bs)
           I == InsideMesh(bs)
           kept == Select(bs, K)
           inside == Select(bs, I)
           k == Cardinality(K)
           m == Cardinality(I)
           In == {i \in 1..n : IsInside(bs[i].center)}
<1>1. /\ I \in SUBSET (1..n) /\ I # {} /\ K \in SUBSET I /\ K # {} /\ K \in SUBSET (1..n)
      /\ \A j \in I : \E i \in K : Encloses(bs[i], bs[j])
  BY KeptFacts
<1>2. I = IF In = {} THEN {1} ELSE In
  BY DEF InsideMesh
<1>3. ASSUME NEW S \in SUBSET (1..n), S # {}
      PROVE  /\ Cardinality(S) \in Nat /\ Cardinality(S) # 0
             /\ Select(bs, S) \in [1..Cardinality(S) -> Balls]
             /\ \A a \in 1..Cardinality(S) : \E i \in S : Select(bs, S)[a] = bs[i]
             /\ \A i \in S : \E a \in 1..Cardinality(S) : Select(bs, S)[a] = bs[i]
  <2>1. Cardinality(S) \in 0..n /\ Cardinality(S) # 0
    BY <1>3, SelectFacts
  <2>2. Select(bs, S) \in [1..Cardinality(S) -> Balls]
    BY <1>3, SelectFacts
  <2>3. Lists(Select(bs, S), bs, S)
    BY <1>3, SelectFacts
  <2>4. DOMAIN Select(bs, S) = 1..Cardinality(S)
    BY <2>2
  <2> QED
    BY <2>1, <2>2, <2>3, <2>4 DEF Lists
<1>4. /\ k \in Nat /\ k # 0 /\ kept \in [1..k -> Balls]
      /\ \A a \in 1..k : \E i \in K : kept[a] = bs[i]
      /\ \A i \in K : \E a \in 1..k : kept[a] = bs[i]
  <2>1. K \in SUBSET (1..n) /\ K # {}
    BY <1>1
  <2> HIDE DEF K
  <2> QED
    BY <1>3, <2>1
<1>5. /\ m \in Nat /\ m # 0 /\ inside \in [1..m -> Balls]
      /\ \A a \in 1..m : \E i \in I : inside[a] = bs[i]
      /\ \A i \in I : \E a \in 1..m : inside[a] = bs[i]
  <2>1. I \in SUBSET (1..n) /\ I # {}
    BY <1>1
  <2> HIDE DEF I
  <2> QED
    BY <1>3, <2>1
<1>6. Len(kept) = k
  BY <1>4, FunctionIsSeq
<1>7. kept # <<>>
  BY <1>4, <1>6
<1> HIDE DEF K, I, kept, inside, k, m
<1>8. CASE In = {}
  <2>1. I = {1} /\ K = I
    BY <1>1, <1>2, <1>8
  <2>2. k = 1
    BY <2>1, FS_Singleton DEF k
  <2>3. kept = inside
    BY <2>1 DEF kept, inside
  <2> QED
    BY <1>6, <1>7, <2>2, <2>3 DEF kept, inside, K, I
<1>9. CASE In # {}
  <2>1. \A i \in I : IsInside(bs[i].center)
    BY <1>2, <1>9
  <2>2. /\ {a \in DOMAIN kept : ~IsInside(kept[a].center)} = {}
        /\ {a \in DOMAIN inside : ~IsInside(inside[a].center)} = {}
    <3>1. ASSUME NEW a \in 1..k
          PROVE  IsInside(kept[a].center)
      <4>1. PICK i \in K : kept[a] = bs[i]
        BY <1>4
      <4>2. i \in I
        BY <1>1
      <4> QED
        BY <2>1, <4>1, <4>2
    <3>2. ASSUME NEW a \in 1..m
          PROVE  IsInside(inside[a].center)
      <4>1. PICK i \in I : inside[a] = bs[i]
        BY <1>5
      <4> QED
        BY <2>1, <4>1
    <3>3. DOMAIN kept = 1..k /\ DOMAIN inside = 1..m
      BY <1>4, <1>5
    <3> QED
      BY <3>1, <3>2, <3>3
  <2>3. EvaluatePacking(kept) = EvaluatePacking(inside) /\ LinkQuality(kept) = LinkQuality(inside)
    <3>1. ASSUME NEW a \in 1..k
          PROVE  \E b \in 1..m : kept[a] = inside[b]
      <4>1. PICK i \in K : kept[a] = bs[i]
        BY <1>4
      <4>2. i \in I
        BY <1>1
      <4>3. PICK b \in 1..m : inside[b] = bs[i]
        BY <1>5, <4>2
      <4> QED
        BY <4>1, <4>3
    <3>2. ASSUME NEW b \in 1..m
          PROVE  \E a \in 1..k : Encloses(kept[a], inside[b])
      <4>1. PICK i \in I : inside[b] = bs[i]
        BY <1>5
      <4>2. PICK j \in K : Encloses(bs[j], bs[i])
        BY <1>1
      <4>3. PICK a \in 1..k : kept[a] = bs[j]
        BY <1>4
      <4> QED
        BY <4>1, <4>2, <4>3
    <3>3. Thinned(kept, inside)
      <4>1. DOMAIN kept = 1..k /\ DOMAIN inside = 1..m
        BY <1>4, <1>5
      <4> QED
        BY <3>1, <3>2, <4>1 DEF Thinned
    <3>4. Cardinality({a \in DOMAIN kept : ~IsInside(kept[a].center)}) =
            Cardinality({a \in DOMAIN inside : ~IsInside(inside[a].center)})
      BY <2>2
    <3> QED
      BY <1>4, <1>5, <3>3, <3>4, SameMetrics
  <2>4. EvaluatePacking(kept).n_out = 0
    BY <2>2, FS_EmptySet DEF EvaluatePacking
  <2> QED
    BY <1>7, <2>3, <2>4 DEF kept, inside, K, I
<1> QED
  BY <1>8, <1>9

\* Only the final prune finalizes a session.
LEMMA PruneStepHolds == LineInv /\ [LineNext]_lineVars => [PruneStep]_lineVars
<1> SUFFICES ASSUME LineInv, LineNext, sess.state # "finalized", sess'.state = "finalized"
             PROVE  PruneStep
  BY DEF PruneStep, lineVars
<1>1. ~LineStep
  BY LineStepIsStep
<1>2. balls' = Select(balls, Kept(balls))
  BY <1>1 DEF LineNext, LineFinalize
<1>3. Len(sess.spheres) \in Nat /\ Len(sess.spheres) # 0 /\ balls \in [1..Len(sess.spheres) -> Balls]
  BY LenProperties DEF LineInv, TypeOK, Sessions
<1> QED
  BY <1>2, <1>3, PrunedIsInside DEF PruneStep

(***************************************************************************)
(* Pruning nested spheres costs nothing: "the union of the kept spheres    *)
(* equals the union of all" (state.rs:76), whatever spheres a session      *)
(* ends with, twins and nested chains of any length included, and every    *)
(* metric of the union stays what it was.                                  *)
(***************************************************************************)
THEOREM PruningIsFree == LineSpec => PruningChangesNoMetric
<1>1. LineSpec => [][PruneStep]_lineVars
  BY LineInvariant, PruneStepHolds, PTL DEF LineSpec
<1> QED
  BY <1>1 DEF PruningChangesNoMetric, PruneStep
-----------------------------------------------------------------------------
(***************************************************************************)
(* Sums over finite sets.                                                  *)
(***************************************************************************)
\* Induction over a finite set, as a statement about a set of subsets.
LEMMA SetInduction ==
  ASSUME NEW S, IsFiniteSet(S), NEW G \in SUBSET SUBSET S, {} \in G,
         \A T \in SUBSET S : T # {} /\ (\A x \in T : T \ {x} \in G) => T \in G
  PROVE  \A T \in SUBSET S : T \in G
<1> DEFINE Good == {n \in Nat : \A T \in SUBSET S : Cardinality(T) = n => T \in G}
<1>1. \A T \in SUBSET S : IsFiniteSet(T) /\ Cardinality(T) \in Nat
  BY FS_Subset, FS_CardinalityType
<1>2. 0 \in Good
  <2> SUFFICES ASSUME NEW T \in SUBSET S, Cardinality(T) = 0 PROVE T \in G
    OBVIOUS
  <2>1. T = {}
    BY <1>1, FS_EmptySet
  <2> QED
    BY <2>1
<1>3. ASSUME NEW n \in Good PROVE n + 1 \in Good
  <2> SUFFICES ASSUME NEW T \in SUBSET S, Cardinality(T) = n + 1 PROVE T \in G
    OBVIOUS
  <2>1. n \in Nat /\ \A R \in SUBSET S : Cardinality(R) = n => R \in G
    OBVIOUS
  <2> HIDE DEF Good
  <2>2. T # {}
    <3>1. T = {} => Cardinality(T) = 0
      BY FS_EmptySet
    <3> QED
      BY <2>1, <3>1
  <2>3. ASSUME NEW x \in T PROVE T \ {x} \in G
    <3>1. Cardinality(T \ {x}) = Cardinality(T) - 1
      BY <1>1, FS_RemoveElement
    <3>2. T \ {x} \in SUBSET S /\ Cardinality(T \ {x}) = n
      BY <2>1, <3>1
    <3> QED
      BY <2>1, <3>2
  <2> QED
    BY <2>2, <2>3
<1>4. Good \in SUBSET Nat
  OBVIOUS
<1> HIDE DEF Good
<1>5. \A n \in Nat : n \in Good
  BY <1>2, <1>3, <1>4, Induction
<1> QED
  BY <1>1, <1>5 DEF Good

(***************************************************************************)
(* SumFunction is a recursive function on the sets of indices.             *)
(***************************************************************************)
IsSumming(g, f, S) ==
  /\ g \in [SUBSET S -> Int] /\ g[{}] = 0
  /\ \A T \in SUBSET S : T # {} => g[T] = f[PickOf(T)] + g[T \ {PickOf(T)}]

\* SumFunction folds a finite set in some order, and so does one function for
\* all of its subsets.
LEMMA SummingExists ==
  ASSUME NEW S, IsFiniteSet(S), NEW f \in [S -> Int]
  PROVE  \E g : IsSumming(g, f, S) /\ SumFunction(f) = g[S]
<1> DEFINE Rest(T) == T \ {PickOf(T)}
           Partial(g, T) == IF T = {} THEN 0 ELSE f[PickOf(T)] + g[Rest(T)]
           iter == CHOOSE g : g = [T \in SUBSET S |-> Partial(g, T)]
           Sums(g, R) == g \in [SUBSET R -> Int] /\ \A T \in SUBSET R : g[T] = Partial(g, T)
           Small(n) == {T \in SUBSET S : Cardinality(T) <= n}
           SumsUpTo(g, n) == g \in [Small(n) -> Int] /\ \A T \in Small(n) : g[T] = Partial(g, T)
           Good == {n \in Nat : \E g : SumsUpTo(g, n)}
<1>1. SumFunction(f) = iter[S]
  <2>1. DOMAIN f = S
    OBVIOUS
  <2> QED
    BY <2>1 DEF SumFunction, SumFunctionOnSet, FoldFunctionOnSet, MapThenFoldSet, PickOf
<1>2. ASSUME NEW n \in Nat, NEW T \in Small(n + 1), T # {}
      PROVE  PickOf(T) \in S /\ Rest(T) \in Small(n)
  <2>1. IsFiniteSet(T) /\ Cardinality(T) \in Nat
    BY FS_Subset, FS_CardinalityType
  <2>2. PickOf(T) \in T
    BY <1>2 DEF PickOf
  <2>3. Cardinality(Rest(T)) = Cardinality(T) - 1
    BY <2>1, <2>2, FS_RemoveElement
  <2> QED
    BY <1>2, <2>1, <2>2, <2>3
<1>3. \A T \in Small(0) : T = {}
  <2> SUFFICES ASSUME NEW T \in Small(0) PROVE T = {}
    OBVIOUS
  <2>1. IsFiniteSet(T) /\ Cardinality(T) \in Nat /\ Cardinality(T) <= 0
    BY FS_Subset, FS_CardinalityType
  <2> QED
    BY <2>1, FS_EmptySet
<1>4. \A n \in Nat : Small(n) \in SUBSET Small(n + 1)
  <2> SUFFICES ASSUME NEW n \in Nat, NEW T \in Small(n) PROVE T \in Small(n + 1)
    OBVIOUS
  <2>1. Cardinality(T) \in Nat
    BY FS_Subset, FS_CardinalityType
  <2> QED
    BY <2>1
<1>5. Cardinality(S) \in Nat /\ Small(Cardinality(S)) = SUBSET S
  BY FS_Subset, FS_CardinalityType
<1> HIDE DEF Small, Rest
<1>6. 0 \in Good
  <2> DEFINE g0 == [T \in Small(0) |-> 0]
  <2>1. SumsUpTo(g0, 0)
    BY <1>3
  <2> HIDE DEF SumsUpTo, g0
  <2> QED
    BY <2>1
<1>7. ASSUME NEW n \in Good PROVE n + 1 \in Good
  <2>1. n \in Nat /\ n + 1 \in Nat
    OBVIOUS
  <2>2. PICK g : SumsUpTo(g, n)
    OBVIOUS
  <2> DEFINE h == [T \in Small(n + 1) |-> Partial(g, T)]
  <2>3. ASSUME NEW T \in Small(n + 1)
        PROVE  h[T] \in Int
    <3>1. T # {} => f[PickOf(T)] \in Int /\ g[Rest(T)] \in Int
      BY <1>2, <2>1, <2>2
    <3> QED
      BY <3>1
  <2>4. \A T \in Small(n) : h[T] = g[T]
    BY <1>4, <2>1, <2>2
  <2>5. h \in [Small(n + 1) -> Int] /\ \A T \in Small(n + 1) : h[T] = Partial(g, T)
    BY <2>3
  <2> HIDE DEF h
  <2>6. \A T \in Small(n + 1) : h[T] = Partial(h, T)
    BY <1>2, <2>1, <2>4, <2>5
  <2>7. SumsUpTo(h, n + 1)
    BY <2>5, <2>6
  <2> HIDE DEF SumsUpTo
  <2> QED
    BY <2>1, <2>7
<1>8. Good \in SUBSET Nat
  OBVIOUS
<1> HIDE DEF Good
<1>9. Cardinality(S) \in Good
  BY <1>5, <1>6, <1>7, <1>8, Induction
<1>10. PICK g : SumsUpTo(g, Cardinality(S))
  BY <1>9 DEF Good
<1>11. g \in [SUBSET S -> Int] /\ \A T \in SUBSET S : g[T] = Partial(g, T)
  BY <1>5, <1>10
<1>12. g = [T \in SUBSET S |-> Partial(g, T)]
  BY <1>11
<1>13. iter = [T \in SUBSET S |-> Partial(iter, T)]
  BY <1>12
<1> HIDE DEF iter
<1>14. \A T \in SUBSET S : T # {} => PickOf(T) \in T /\ Rest(T) \in SUBSET S
  BY DEF PickOf, Rest
<1> DEFINE Agreeing == {T \in SUBSET S : iter[T] = g[T]}
<1>15. {} \in Agreeing
  BY <1>11, <1>13
<1>16. ASSUME NEW T \in SUBSET S, T # {}, \A x \in T : T \ {x} \in Agreeing
       PROVE  T \in Agreeing
  <2>1. iter[T] = f[PickOf(T)] + iter[Rest(T)] /\ g[T] = f[PickOf(T)] + g[Rest(T)]
    BY <1>11, <1>13, <1>16
  <2> QED
    BY <1>14, <1>16, <2>1 DEF Rest
<1>17. S \in Agreeing
  <2> HIDE DEF Agreeing
  <2>1. Agreeing \in SUBSET SUBSET S
    BY DEF Agreeing
  <2>2. \A T \in SUBSET S : T \in Agreeing
    BY <1>15, <1>16, <2>1, SetInduction
  <2> QED
    BY <2>2
<1>18. IsSumming(g, f, S)
  BY <1>11 DEF IsSumming, Rest
<1> QED
  BY <1>1, <1>17, <1>18

\* Any index can be taken first.
TakesAny(g, f, S) == \A T \in SUBSET S : \A x \in T : g[T] = f[x] + g[T \ {x}]

\* Such a sum takes the members of a subset in any order.
LEMMA TakeAny ==
  ASSUME NEW S, IsFiniteSet(S), NEW f \in [S -> Int], NEW g, IsSumming(g, f, S)
  PROVE  TakesAny(g, f, S)
<1>1. g \in [SUBSET S -> Int] /\ \A T \in SUBSET S : T # {} => g[T] = f[PickOf(T)] + g[T \ {PickOf(T)}]
  BY DEF IsSumming
<1> DEFINE G == {T \in SUBSET S : \A x \in T : g[T] = f[x] + g[T \ {x}]}
<1>2. {} \in G
  OBVIOUS
<1>3. ASSUME NEW T \in SUBSET S, T # {}, \A x \in T : T \ {x} \in G
      PROVE  T \in G
  <2> SUFFICES ASSUME NEW x \in T PROVE g[T] = f[x] + g[T \ {x}]
    OBVIOUS
  <2> DEFINE p == PickOf(T)
  <2>1. p \in T /\ g[T] = f[p] + g[T \ {p}]
    BY <1>1, <1>3 DEF PickOf
  <2> HIDE DEF p
  <2>2. CASE p = x
    BY <2>1, <2>2
  <2>3. CASE p # x
    <3> DEFINE rest == (T \ {x}) \ {p}
    <3>1. x \in T \ {p} /\ p \in T \ {x} /\ (T \ {p}) \ {x} = rest /\ rest \in SUBSET S
      BY <2>1, <2>3
    <3>2. g[T \ {p}] = f[x] + g[(T \ {p}) \ {x}] /\ g[T \ {x}] = f[p] + g[rest]
      BY <1>3, <2>1, <3>1
    <3>3. f[x] \in Int /\ f[p] \in Int /\ g[rest] \in Int
      BY <1>1, <2>1, <3>1
    <3> HIDE DEF rest
    <3>4. g[T \ {p}] = f[x] + g[rest] /\ g[T \ {x}] = f[p] + g[rest]
      BY <3>1, <3>2
    <3>5. \A i, j, k \in Int : i + (j + k) = j + (i + k)
      OBVIOUS
    <3>6. f[p] + (f[x] + g[rest]) = f[x] + (f[p] + g[rest])
      BY <3>3, <3>5
    <3> QED
      BY <2>1, <3>4, <3>6
  <2> QED
    BY <2>2, <2>3
<1>4. G \in SUBSET SUBSET S
  OBVIOUS
<1>5. \A T \in SUBSET S : T \in G
  <2> HIDE DEF G
  <2> QED
    BY <1>2, <1>3, <1>4, SetInduction
<1> QED
  BY <1>5 DEF TakesAny

\* So a sum can be taken in any order.
IsSum(g, f, S) ==
  /\ g \in [SUBSET S -> Int] /\ g[{}] = 0
  /\ \A T \in SUBSET S : \A x \in T : g[T] = f[x] + g[T \ {x}]

\* SumFunction, therefore, is a sum whose order does not matter.
LEMMA SumTakesAny ==
  ASSUME NEW S, IsFiniteSet(S), NEW f \in [S -> Int]
  PROVE  \E g : IsSum(g, f, S) /\ SumFunction(f) = g[S]
<1>1. PICK g : IsSumming(g, f, S) /\ SumFunction(f) = g[S]
  BY SummingExists
<1>2. g \in [SUBSET S -> Int] /\ g[{}] = 0
  BY <1>1 DEF IsSumming
<1>3. TakesAny(g, f, S)
  BY <1>1, TakeAny
<1>4. IsSum(g, f, S)
  BY <1>2, <1>3 DEF TakesAny, IsSum
<1> QED
  BY <1>1, <1>4

\* The sum of slopes is the slope of the sums.
LEMMA SlopesSum ==
  ASSUME NEW S, IsFiniteSet(S), NEW side \in {-1, 1}, NEW f \in [S -> Int], NEW a \in [S -> Int],
         NEW b \in [S -> Int], NEW c \in [S -> Int],
         \A x \in S : f[x] = side * (4 * a[x] - 3 * b[x] - c[x])
  PROVE  /\ SumFunction(f) \in Int
         /\ SumFunction(a) \in Int /\ SumFunction(b) \in Int /\ SumFunction(c) \in Int
         /\ SumFunction(f) = side * (4 * SumFunction(a) - 3 * SumFunction(b) - SumFunction(c))
<1>1. PICK g1 : IsSumming(g1, f, S) /\ SumFunction(f) = g1[S]
  BY SummingExists
<1>2. PICK g2 : IsSumming(g2, a, S) /\ SumFunction(a) = g2[S]
  BY SummingExists
<1>3. PICK g3 : IsSumming(g3, b, S) /\ SumFunction(b) = g3[S]
  BY SummingExists
<1>4. PICK g4 : IsSumming(g4, c, S) /\ SumFunction(c) = g4[S]
  BY SummingExists
<1> DEFINE G == {T \in SUBSET S : g1[T] = side * (4 * g2[T] - 3 * g3[T] - g4[T])}
<1>5. {} \in G
  BY <1>1, <1>2, <1>3, <1>4 DEF IsSumming
<1>6. ASSUME NEW T \in SUBSET S, T # {}, \A x \in T : T \ {x} \in G
      PROVE  T \in G
  <2> DEFINE x == PickOf(T)
             U == T \ {x}
  <2>1. x \in T /\ x \in S /\ U \in SUBSET S
    BY <1>6 DEF PickOf
  <2>2. g1[T] = f[x] + g1[U] /\ g2[T] = a[x] + g2[U] /\ g3[T] = b[x] + g3[U]
        /\ g4[T] = c[x] + g4[U]
    BY <1>1, <1>2, <1>3, <1>4, <1>6 DEF IsSumming
  <2>3. /\ g1[U] \in Int /\ g2[U] \in Int /\ g3[U] \in Int /\ g4[U] \in Int
        /\ f[x] \in Int /\ a[x] \in Int /\ b[x] \in Int /\ c[x] \in Int
    BY <1>1, <1>2, <1>3, <1>4, <2>1 DEF IsSumming
  <2>4. g1[U] = side * (4 * g2[U] - 3 * g3[U] - g4[U])
    BY <1>6, <2>1
  <2>5. f[x] = side * (4 * a[x] - 3 * b[x] - c[x])
    BY <2>1
  <2> HIDE DEF x, U
  <2>6. CASE side = 1
    BY <2>2, <2>3, <2>4, <2>5, <2>6
  <2>7. CASE side = -1
    BY <2>2, <2>3, <2>4, <2>5, <2>7
  <2> QED
    BY <2>6, <2>7
<1>7. G \in SUBSET SUBSET S
  OBVIOUS
<1>8. S \in G
  <2> HIDE DEF G
  <2> QED
    BY <1>5, <1>6, <1>7, SetInduction
<1> QED
  BY <1>1, <1>2, <1>3, <1>4, <1>8 DEF IsSumming

\* A sum of multiples.
LEMMA ScaledSum ==
  ASSUME NEW S, IsFiniteSet(S), NEW f \in [S -> Int], NEW m \in Int, NEW h \in [S -> Int],
         \A x \in S : h[x] = m * f[x]
  PROVE  SumFunction(f) \in Int /\ SumFunction(h) = m * SumFunction(f)
<1>1. PICK g : IsSumming(g, f, S) /\ SumFunction(f) = g[S]
  BY SummingExists
<1>2. PICK k : IsSumming(k, h, S) /\ SumFunction(h) = k[S]
  BY SummingExists
<1> DEFINE G == {T \in SUBSET S : k[T] = m * g[T]}
<1>3. {} \in G
  BY <1>1, <1>2 DEF IsSumming
<1>4. ASSUME NEW T \in SUBSET S, T # {}, \A x \in T : T \ {x} \in G
      PROVE  T \in G
  <2> DEFINE x == PickOf(T)
             U == T \ {x}
  <2>1. x \in T /\ x \in S /\ U \in SUBSET S
    BY <1>4 DEF PickOf
  <2>2. g[T] = f[x] + g[U] /\ k[T] = h[x] + k[U]
    BY <1>1, <1>2, <1>4 DEF IsSumming
  <2>3. g[U] \in Int /\ k[U] \in Int /\ f[x] \in Int /\ h[x] \in Int
    BY <1>1, <1>2, <2>1 DEF IsSumming
  <2>4. k[U] = m * g[U] /\ h[x] = m * f[x]
    BY <1>4, <2>1
  <2> HIDE DEF x, U
  <2> QED
    BY <2>2, <2>3, <2>4
<1>5. G \in SUBSET SUBSET S
  OBVIOUS
<1>6. S \in G
  <2> HIDE DEF G
  <2> QED
    BY <1>3, <1>4, <1>5, SetInduction
<1> QED
  BY <1>1, <1>2, <1>6 DEF IsSumming

\* A sum over some indices is one over all, with nothing for the others.
LEMMA SumOfSome ==
  ASSUME NEW S, IsFiniteSet(S), NEW T \in SUBSET S, NEW f \in [T -> Int], NEW h \in [S -> Int],
         \A x \in S : h[x] = IF x \in T THEN f[x] ELSE 0
  PROVE  SumFunction(f) \in Int /\ SumFunction(h) = SumFunction(f)
<1>0. IsFiniteSet(T)
  BY FS_Subset
<1>1. PICK g : IsSum(g, h, S) /\ SumFunction(h) = g[S]
  BY SumTakesAny
<1>2. PICK k : IsSum(k, f, T) /\ SumFunction(f) = k[T]
  BY <1>0, SumTakesAny
<1>3. /\ \A U \in SUBSET S : g[U] \in Int /\ \A x \in U : g[U] = h[x] + g[U \ {x}]
      /\ \A U \in SUBSET T : k[U] \in Int /\ \A x \in U : k[U] = f[x] + k[U \ {x}]
      /\ g[{}] = 0 /\ k[{}] = 0
  BY <1>1, <1>2 DEF IsSum
<1> DEFINE G == {U \in SUBSET S : g[U] = k[U \cap T]}
<1>4. {} \in G
  BY <1>3
<1>5. ASSUME NEW U \in SUBSET S, U # {}, \A x \in U : U \ {x} \in G
      PROVE  U \in G
  <2>1. PICK x \in U : TRUE
    BY <1>5
  <2>2. g[U] = h[x] + g[U \ {x}] /\ g[U \ {x}] = k[(U \ {x}) \cap T]
        /\ g[U \ {x}] \in Int /\ (U \cap T) \in SUBSET T
    BY <1>3, <1>5
  <2>3. CASE x \in T
    <3>1. (U \ {x}) \cap T = (U \cap T) \ {x} /\ x \in U \cap T
      BY <2>3
    <3>2. k[U \cap T] = f[x] + k[(U \cap T) \ {x}]
      BY <1>3, <2>2, <3>1
    <3> QED
      BY <2>2, <2>3, <3>1, <3>2
  <2>4. CASE x \notin T
    <3>1. (U \ {x}) \cap T = U \cap T
      BY <2>4
    <3> QED
      BY <2>2, <2>4, <3>1, SMTT(30)
  <2> QED
    BY <2>3, <2>4
<1>6. G \in SUBSET SUBSET S
  OBVIOUS
<1>7. S \in G
  <2> HIDE DEF G
  <2> QED
    BY <1>4, <1>5, <1>6, SetInduction
<1>8. S \cap T = T
  OBVIOUS
<1> QED
  BY <1>1, <1>2, <1>3, <1>7, <1>8

\* A sum is an integer, that of nothing is 0, and any index can be split off.
LEMMA SplitSum ==
  ASSUME NEW S, IsFiniteSet(S), NEW f \in [S -> Int]
  PROVE  /\ SumFunction(f) \in Int
         /\ S = {} => SumFunction(f) = 0
         /\ \A x \in S : SumFunction(f) = f[x] + SumFunction([y \in S \ {x} |-> f[y]])
<1>1. PICK g : IsSum(g, f, S) /\ SumFunction(f) = g[S]
  BY SumTakesAny
<1>2. g[S] \in Int /\ g[{}] = 0 /\ \A x \in S : g[S] = f[x] + g[S \ {x}]
  BY <1>1 DEF IsSum
<1>3. ASSUME NEW x \in S
      PROVE  SumFunction([y \in S \ {x} |-> f[y]]) = g[S \ {x}]
  <2> DEFINE T == S \ {x}
             k == [y \in T |-> f[y]]
  <2>1. k \in [T -> Int] /\ T \in SUBSET S /\ IsFiniteSet(T)
    BY FS_Subset
  <2> HIDE DEF k, T
  <2>2. PICK l : IsSum(l, k, T) /\ SumFunction(k) = l[T]
    BY <2>1, SumTakesAny
  <2> DEFINE G == {U \in SUBSET T : l[U] = g[U]}
  <2>3. {} \in G
    BY <1>1, <2>2 DEF IsSum
  <2>4. ASSUME NEW U \in SUBSET T, U # {}, \A y \in U : U \ {y} \in G
        PROVE  U \in G
    <3> DEFINE p == PickOf(U)
    <3>1. p \in U /\ p \in T
      BY <2>4 DEF PickOf
    <3>2. g[U] = f[p] + g[U \ {p}] /\ l[U] = k[p] + l[U \ {p}]
      BY <1>1, <2>1, <2>2, <2>4, <3>1 DEF IsSum
    <3>3. k[p] = f[p]
      BY <3>1 DEF k
    <3> QED
      BY <2>4, <3>1, <3>2, <3>3
  <2>5. G \in SUBSET SUBSET T
    OBVIOUS
  <2>6. T \in G
    <3> HIDE DEF G
    <3> QED
      BY <2>1, <2>3, <2>4, <2>5, SetInduction
  <2> QED
    BY <2>2, <2>6 DEF k, T
<1> QED
  BY <1>1, <1>2, <1>3

\* The sum of no numbers, of one, of one that is not 0, and of ones.
LEMMA SumOfNone ==
  ASSUME NEW f, DOMAIN f = {}
  PROVE  SumFunction(f) = 0
<1> DEFINE g == [x \in {} |-> f[x]]
<1>1. SumFunction(g) = 0
  <2>1. g \in [{} -> Int] /\ IsFiniteSet({})
    BY FS_EmptySet
  <2> HIDE DEF g
  <2> QED
    BY <2>1, SplitSum
<1>2. SumFunction(f) = SumFunction(g)
  <2>1. DOMAIN g = {}
    OBVIOUS
  <2> QED
    BY <2>1 DEF SumFunction, SumFunctionOnSet, FoldFunctionOnSet, MapThenFoldSet
<1> QED
  BY <1>1, <1>2

\* One member.
LEMMA SumOfOne ==
  ASSUME NEW x, NEW S, S = {x}, NEW f \in [S -> Int]
  PROVE  SumFunction(f) = f[x]
<1>1. IsFiniteSet(S) /\ x \in S /\ f[x] \in Int
  BY FS_Singleton
<1>2. SumFunction(f) = f[x] + SumFunction([y \in S \ {x} |-> f[y]])
  BY <1>1, SplitSum
<1>3. SumFunction([y \in S \ {x} |-> f[y]]) = 0
  BY SumOfNone
<1> QED
  BY <1>1, <1>2, <1>3

\* The sum of ones is the cardinality.
LEMMA SumOfOnes ==
  ASSUME NEW S, IsFiniteSet(S)
  PROVE  SumFunction([x \in S |-> 1]) = Cardinality(S)
<1> DEFINE f == [x \in S |-> 1]
<1>1. f \in [S -> Int] /\ \A x \in S : f[x] = 1
  OBVIOUS
<1> HIDE DEF f
<1>2. PICK g : IsSum(g, f, S) /\ SumFunction(f) = g[S]
  BY <1>1, SumTakesAny
<1> DEFINE G == {T \in SUBSET S : g[T] = Cardinality(T)}
<1>3. {} \in G
  BY <1>2, FS_EmptySet DEF IsSum
<1>4. ASSUME NEW T \in SUBSET S, T # {}, \A x \in T : T \ {x} \in G
      PROVE  T \in G
  <2>1. PICK x \in T : TRUE
    BY <1>4
  <2>2. g[T] = 1 + g[T \ {x}] /\ g[T \ {x}] = Cardinality(T \ {x})
    BY <1>1, <1>2, <1>4 DEF IsSum
  <2>3. IsFiniteSet(T) /\ Cardinality(T) \in Nat
    BY FS_Subset, FS_CardinalityType
  <2>4. Cardinality(T \ {x}) = Cardinality(T) - 1
    BY <2>3, FS_RemoveElement
  <2> QED
    BY <2>2, <2>3, <2>4
<1>5. G \in SUBSET SUBSET S
  OBVIOUS
<1>6. S \in G
  <2> HIDE DEF G
  <2> QED
    BY <1>3, <1>4, <1>5, SetInduction
<1> QED
  BY <1>2, <1>6 DEF f
-----------------------------------------------------------------------------
(***************************************************************************)
(* Gradients: a step of one or two on the fine lattice changes a gap by as *)
(* much, up or down, and passes no kink.                                   *)
(***************************************************************************)
Fours     == {4 * k : k \in Int}
FourBalls == {b \in Balls : b.center \in Fours /\ b.radius \in Fours}

Shifted(b, of, d)   == [b EXCEPT ![of] = @ + d]
Replaced(bs, j, b)  == [bs EXCEPT ![j] = b]
Lesser(x, y)        == IF x <= y THEN x ELSE y

\* How a gap changes with a coordinate of a sphere, and where it has a kink.
Towards(b, point, of) == IF of = "center" THEN Along(b, point) ELSE -1
Bends(along, up, down) ==
  \/ along \in {-1, 1} /\ up = along /\ up + down = 0
  \/ along = 0 /\ up = 1 /\ down = 1

\* A sphere with one coordinate changed.
LEMMA ShiftedIs ==
  ASSUME NEW b \in Balls, NEW d \in Int
  PROVE  /\ Shifted(b, "center", d) = Ball(b.center + d, b.radius)
         /\ Shifted(b, "radius", d) = Ball(b.center, b.radius + d)
         /\ \A of \in {"center", "radius"} : Shifted(b, of, d) \in Balls /\ Shifted(b, of, 0) = b
<1>1. PICK c \in Int, r \in Int : b = [center |-> c, radius |-> r]
  BY DEF Balls
<1>2. b.center = c /\ b.radius = r /\ DOMAIN b = {"center", "radius"} /\ b["center"] = c /\ b["radius"] = r
  BY <1>1
<1>3. ASSUME NEW of \in {"center", "radius"}, NEW e \in Int
      PROVE  Shifted(b, of, e) = [x \in {"center", "radius"} |-> IF x = of THEN b[x] + e ELSE b[x]]
  BY <1>2 DEF Shifted
<1>4. \A v, w : Ball(v, w) = [x \in {"center", "radius"} |-> IF x = "center" THEN v ELSE w]
  BY DEF Ball
<1>5. Shifted(b, "center", d) = Ball(c + d, r)
  BY <1>2, <1>3, <1>4
<1>6. Shifted(b, "radius", d) = Ball(c, r + d)
  BY <1>2, <1>3, <1>4
<1>7. Ball(c + d, r) \in Balls /\ Ball(c, r + d) \in Balls
  <2>1. c + d \in Int /\ r + d \in Int
    OBVIOUS
  <2> QED
    BY <2>1, BallIsBall
<1>8. \A of \in {"center", "radius"} : Shifted(b, of, 0) = b
  <2>1. ASSUME NEW of \in {"center", "radius"} PROVE Shifted(b, of, 0) = Ball(c, r)
    BY <1>2, <1>3, <1>4
  <2> QED
    BY <1>1, <2>1 DEF Ball
<1> QED
  BY <1>2, <1>5, <1>6, <1>7, <1>8

\* A sphere of the fine lattice is a sphere.
LEMMA FourBallIs ==
  ASSUME NEW b \in FourBalls
  PROVE  b \in Balls /\ b.center \in Fours /\ b.radius \in Fours /\ b.center \in Int /\ b.radius \in Int
BY DEF FourBalls, Fours

\* The fields of a sphere.
LEMMA BallHas ==
  ASSUME NEW c, NEW r
  PROVE  Ball(c, r).center = c /\ Ball(c, r).radius = r
         /\ Ball(c, r)["center"] = c /\ Ball(c, r)["radius"] = r
BY DEF Ball

\* Steps of one and two change a gap by as much; which way, Bends says.
LEMMA GapMoves ==
  ASSUME NEW p \in Fours, NEW b \in FourBalls, NEW of \in {"center", "radius"}
  PROVE  /\ Gap(p, b) \in Fours
         /\ \E up, down \in {-1, 1} :
              /\ Bends(Towards(b, p, of), up, down)
              /\ \A h \in {0, 1, 2} : /\ Gap(p, Shifted(b, of, h)) = Gap(p, b) + up * h
                                      /\ Gap(p, Shifted(b, of, -h)) = Gap(p, b) + down * h
<1> DEFINE c == b.center
           r == b.radius
<1>1. PICK i \in Int, k \in Int, l \in Int : p = 4 * i /\ c = 4 * k /\ r = 4 * l
  BY FourBallIs DEF Fours
<1>2. c \in Int /\ r \in Int /\ p \in Int /\ b \in Balls
  BY <1>1, FourBallIs
<1>3. \A x \in Int : Dist(p, x) = IF p > x THEN p - x ELSE x - p
  BY <1>2, DistIs
<1>4. Gap(p, b) = Dist(p, c) - r
  BY DEF Gap
<1>5. Gap(p, b) \in Fours
  <2>1. Dist(p, c) = 4 * (IF i > k THEN i - k ELSE k - i)
    BY <1>1, <1>2, <1>3
  <2>2. Gap(p, b) = 4 * ((IF i > k THEN i - k ELSE k - i) - l)
    BY <1>1, <1>4, <2>1
  <2>3. (IF i > k THEN i - k ELSE k - i) - l \in Int
    OBVIOUS
  <2> QED
    BY <2>2, <2>3 DEF Fours
<1>6. CASE of = "center"
  <2>1. \A d \in Int : Gap(p, Shifted(b, of, d)) = Dist(p, c + d) - r
    <3> SUFFICES ASSUME NEW d \in Int PROVE Gap(p, Shifted(b, of, d)) = Dist(p, c + d) - r
      OBVIOUS
    <3>1. Shifted(b, of, d) = Ball(c + d, r)
      BY <1>2, <1>6, ShiftedIs
    <3> HIDE DEF c, r
    <3> QED
      BY <3>1, BallHas DEF Gap
  <2> DEFINE up == IF p > c THEN -1 ELSE 1
             down == IF p < c THEN -1 ELSE 1
  <2>2. Along(b, p) = IF c > p THEN 1 ELSE IF c < p THEN -1 ELSE 0
    <3>1. Along(b, p) = Sign(c - p)
      BY DEF Along
    <3> QED
      BY <1>2, <3>1 DEF Sign
  <2>3. Bends(Towards(b, p, of), up, down)
    BY <1>2, <1>6, <2>2 DEF Bends, Towards
  <2>4. ASSUME NEW h \in {0, 1, 2}
        PROVE  /\ Gap(p, Shifted(b, of, h)) = Gap(p, b) + up * h
               /\ Gap(p, Shifted(b, of, -h)) = Gap(p, b) + down * h
    <3>1. /\ Dist(p, c + h) = IF p > c + h THEN p - (c + h) ELSE (c + h) - p
          /\ Dist(p, c + (-h)) = IF p > c + (-h) THEN p - (c + (-h)) ELSE (c + (-h)) - p
          /\ Dist(p, c) = IF p > c THEN p - c ELSE c - p
      BY <1>2, <1>3
    <3>2. Gap(p, Shifted(b, of, h)) = Dist(p, c + h) - r /\ Gap(p, Shifted(b, of, -h)) = Dist(p, c + (-h)) - r
      BY <2>1
    <3> HIDE DEF c, r
    <3>3. CASE h = 0
      BY <1>1, <1>4, <3>1, <3>2, <3>3
    <3>4. CASE h = 1
      BY <1>1, <1>4, <3>1, <3>2, <3>4
    <3>5. CASE h = 2
      BY <1>1, <1>4, <3>1, <3>2, <3>5
    <3> QED
      BY <3>3, <3>4, <3>5
  <2>5. up \in {-1, 1} /\ down \in {-1, 1}
    OBVIOUS
  <2> HIDE DEF up, down
  <2> QED
    BY <1>5, <2>3, <2>4, <2>5
<1>7. CASE of = "radius"
  <2>1. \A d \in Int : Gap(p, Shifted(b, of, d)) = Dist(p, c) - (r + d)
    <3> SUFFICES ASSUME NEW d \in Int PROVE Gap(p, Shifted(b, of, d)) = Dist(p, c) - (r + d)
      OBVIOUS
    <3>1. Shifted(b, of, d) = Ball(c, r + d)
      BY <1>2, <1>7, ShiftedIs
    <3> HIDE DEF c, r
    <3> QED
      BY <3>1, BallHas DEF Gap
  <2>2. Bends(Towards(b, p, of), -1, 1)
    <3>1. Towards(b, p, of) = -1
      BY <1>7 DEF Towards
    <3>2. Bends(-1, -1, 1)
      BY DEF Bends
    <3> QED
      BY <3>1, <3>2
  <2>3. Dist(p, c) \in Int
    <3> HIDE DEF c
    <3> QED
      BY <1>2, Triangle
  <2>4. ASSUME NEW h \in {0, 1, 2}
        PROVE  /\ Gap(p, Shifted(b, of, h)) = Gap(p, b) + (-1) * h
               /\ Gap(p, Shifted(b, of, -h)) = Gap(p, b) + 1 * h
    <3>1. Gap(p, Shifted(b, of, h)) = Dist(p, c) - (r + h) /\ Gap(p, Shifted(b, of, -h)) = Dist(p, c) - (r + (-h))
      BY <2>1
    <3> HIDE DEF c, r
    <3> QED
      BY <1>2, <1>4, <2>3, <3>1 DEF c, r
  <2> QED
    BY <1>5, <2>2, <2>4
<1> QED
  BY <1>6, <1>7

\* The nearest gap as a function of one sphere: the lesser of its own and one of the others.
LEMMA MinGapReplaced ==
  ASSUME NEW n \in Nat, n # 0, NEW bs \in [1..n -> FourBalls], NEW j \in 1..n,
         NEW p \in Fours
  PROVE  \E m \in Fours :
           /\ \A b \in Balls : Gap(p, b) <= Gap(p, bs[j]) + 2 =>
                MinGap(p, Replaced(bs, j, b)) = Lesser(Gap(p, b), m)
           /\ Nearest(p, bs) = j => Gap(p, bs[j]) <= m
           /\ Nearest(p, bs) # j => m <= Gap(p, bs[j])
<1>1. p \in Int /\ bs \in [1..n -> Balls]
  BY FourBallIs DEF Fours
<1>2. \A i \in 1..n : Gap(p, bs[i]) \in Fours
  BY GapMoves
<1>3. \A b \in Balls : Gap(p, b) \in Int
  <2> SUFFICES ASSUME NEW b \in Balls PROVE Gap(p, b) \in Int
    OBVIOUS
  <2>1. b.center \in Int /\ b.radius \in Int
    BY DEF Balls
  <2> QED
    <3>1. Dist(p, b.center) \in Nat
      BY <1>1, <2>1, Triangle
    <3> QED
      BY <2>1, <3>1 DEF Gap
<1> DEFINE S == (1..n) \ {j}
           own == Gap(p, bs[j])
<1>4. \E m \in Fours :
        /\ \A i \in S : m <= Gap(p, bs[i])
        /\ (S # {} /\ \E i \in S : m = Gap(p, bs[i])) \/ (S = {} /\ m > own + 2)
  <2>1. CASE S = {}
    <3>1. PICK k \in Int : own = 4 * k
      BY <1>2 DEF Fours
    <3>2. 4 * (k + 1) \in Fours /\ 4 * (k + 1) > own + 2
      BY <3>1 DEF Fours
    <3> QED
      BY <2>1, <3>2
  <2>2. CASE S # {}
    <3> DEFINE f == [i \in S |-> Gap(p, bs[i])]
    <3>1. f \in [S -> Int] /\ S \in SUBSET (1..n)
      BY <1>1, <1>3
    <3> HIDE DEF f
    <3>2. PICK x : x \in {f[i] : i \in S} /\ \A i \in S : x <= f[i]
      BY <2>2, <3>1, Extremes
    <3>3. \A i \in S : f[i] = Gap(p, bs[i]) /\ Gap(p, bs[i]) \in Fours
      BY <1>2 DEF f
    <3> QED
      BY <2>2, <3>2, <3>3
  <2> QED
    BY <2>1, <2>2
<1>5. PICK m \in Fours :
        /\ \A i \in S : m <= Gap(p, bs[i])
        /\ (S # {} /\ \E i \in S : m = Gap(p, bs[i])) \/ (S = {} /\ m > own + 2)
  BY <1>4
<1>6. m \in Int /\ own \in Int
  BY <1>1, <1>3 DEF Fours
<1>7. ASSUME NEW b \in Balls, Gap(p, b) <= own + 2
      PROVE  MinGap(p, Replaced(bs, j, b)) = Lesser(Gap(p, b), m)
  <2> DEFINE cs == Replaced(bs, j, b)
  <2>1. cs \in [1..n -> Balls] /\ cs[j] = b /\ \A i \in S : cs[i] = bs[i]
    BY <1>1 DEF Replaced
  <2> HIDE DEF cs
  <2>2. /\ \A i \in 1..n : Gap(p, cs[i]) \in Int /\ MinGap(p, cs) <= Gap(p, cs[i])
        /\ MinGap(p, cs) \in Int /\ \E i \in 1..n : MinGap(p, cs) = Gap(p, cs[i])
    BY <1>1, <2>1, MinGapIs
  <2>3. MinGap(p, cs) <= Gap(p, b) /\ Gap(p, b) \in Int /\ \A i \in S : MinGap(p, cs) <= Gap(p, bs[i])
    BY <2>1, <2>2
  <2>4. MinGap(p, cs) = Gap(p, b) \/ \E i \in S : MinGap(p, cs) = Gap(p, bs[i])
    BY <2>1, <2>2
  <2>5. CASE S = {}
    <3>1. MinGap(p, cs) = Gap(p, b)
      BY <2>4, <2>5
    <3>2. m > own + 2
      BY <1>5, <2>5
    <3> HIDE DEF own
    <3>3. Gap(p, b) <= m
      BY <1>6, <1>7, <2>3, <3>2
    <3>4. Lesser(Gap(p, b), m) = Gap(p, b)
      BY <3>3 DEF Lesser
    <3> QED
      BY <3>1, <3>4 DEF cs
  <2>6. CASE S # {}
    <3>1. PICK i \in S : m = Gap(p, bs[i])
      BY <1>5, <2>6
    <3>2. MinGap(p, cs) <= m
      BY <2>3, <3>1
    <3>3. MinGap(p, cs) = Gap(p, b) \/ m <= MinGap(p, cs)
      BY <1>5, <2>4
    <3> QED
      BY <1>6, <2>2, <2>3, <3>2, <3>3 DEF Lesser, cs
  <2> QED
    BY <2>5, <2>6
<1>8. Nearest(p, bs) \in 1..n /\ Gap(p, bs[Nearest(p, bs)]) = MinGap(p, bs)
  BY <1>1, NearestIs
<1>9. \A i \in 1..n : MinGap(p, bs) <= Gap(p, bs[i])
  BY <1>1, MinGapIs
<1>10. ASSUME Nearest(p, bs) = j PROVE own <= m
  <2>1. CASE S = {}
    <3>1. m > own + 2
      BY <1>5, <2>1
    <3> HIDE DEF own
    <3> QED
      BY <1>6, <3>1
  <2>2. CASE S # {}
    <3>1. PICK i \in S : m = Gap(p, bs[i])
      BY <1>5, <2>2
    <3> QED
      BY <1>8, <1>9, <1>10, <3>1
  <2> QED
    BY <2>1, <2>2
<1>11. ASSUME Nearest(p, bs) # j PROVE m <= own
  <2>1. Nearest(p, bs) \in S
    BY <1>8, <1>11
  <2>2. m <= MinGap(p, bs) /\ MinGap(p, bs) <= own
    BY <1>5, <1>8, <1>9, <2>1
  <2>3. MinGap(p, bs) \in Int
    BY <1>1, MinGapIs
  <2> QED
    BY <1>6, <2>2, <2>3
<1> QED
  BY <1>5, <1>7, <1>10, <1>11

(***************************************************************************)
(* Along a coordinate of sphere j the nearest gap to a sample is g, bent   *)
(* at 0 as `up' and `down' say, but never more than m.                     *)
(***************************************************************************)
GapsAlong(p, bs, j, of, g, m, up, down) ==
  /\ g \in Fours /\ m \in Fours /\ up \in {-1, 1} /\ down \in {-1, 1}
  /\ g = Gap(p, bs[j]) /\ MinGap(p, bs) = Lesser(g, m)
  /\ Bends(Towards(bs[j], p, of), up, down)
  /\ Nearest(p, bs) = j => g <= m
  /\ Nearest(p, bs) # j => m <= g
  /\ \A h \in {0, 1, 2} :
       /\ MinGap(p, Replaced(bs, j, Shifted(bs[j], of, h))) = Lesser(g + up * h, m)
       /\ MinGap(p, Replaced(bs, j, Shifted(bs[j], of, -h))) = Lesser(g + down * h, m)

\* Every sample and every coordinate has such values.
LEMMA GapsMoveAlong ==
  ASSUME NEW n \in Nat, n # 0, NEW bs \in [1..n -> FourBalls], NEW j \in 1..n,
         NEW p \in Fours, NEW of \in {"center", "radius"}
  PROVE  \E g, m, up, down : GapsAlong(p, bs, j, of, g, m, up, down)
<1> DEFINE g == Gap(p, bs[j])
           b == bs[j]
<1>1. PICK m \in Fours :
           /\ \A c \in Balls : Gap(p, c) <= Gap(p, bs[j]) + 2 =>
                MinGap(p, Replaced(bs, j, c)) = Lesser(Gap(p, c), m)
           /\ Nearest(p, bs) = j => Gap(p, bs[j]) <= m
           /\ Nearest(p, bs) # j => m <= Gap(p, bs[j])
  BY MinGapReplaced
<1>2. b \in FourBalls /\ b \in Balls /\ b.center \in Int
  BY FourBallIs
<1>3. g \in Fours /\ g \in Int
  <2>1. g \in Fours
    BY <1>2, GapMoves
  <2> QED
    BY <2>1 DEF Fours
<1>4. PICK up \in {-1, 1}, down \in {-1, 1} :
              /\ Bends(Towards(b, p, of), up, down)
              /\ \A h \in {0, 1, 2} : /\ Gap(p, Shifted(b, of, h)) = g + up * h
                                      /\ Gap(p, Shifted(b, of, -h)) = g + down * h
  BY <1>2, GapMoves
<1> HIDE DEF g
<1>5. ASSUME NEW h \in {0, 1, 2}
      PROVE  /\ MinGap(p, Replaced(bs, j, Shifted(b, of, h))) = Lesser(g + up * h, m)
             /\ MinGap(p, Replaced(bs, j, Shifted(b, of, -h))) = Lesser(g + down * h, m)
  <2>1. g + up * h <= g + 2 /\ g + down * h <= g + 2
    <3>1. CASE h = 0
      BY <1>3, <3>1
    <3>2. CASE h = 1
      BY <1>3, <3>2
    <3>3. CASE h = 2
      BY <1>3, <3>3
    <3> QED
      BY <3>1, <3>2, <3>3
  <2>2. Shifted(b, of, h) \in Balls /\ Shifted(b, of, -h) \in Balls
    <3>1. h \in Int /\ -h \in Int
      OBVIOUS
    <3> HIDE DEF b
    <3> QED
      BY <1>2, <3>1, ShiftedIs
  <2> QED
    BY <1>1, <1>4, <2>1, <2>2 DEF g
<1>6. Replaced(bs, j, b) = bs
  BY DEF Replaced
<1>7. MinGap(p, bs) = Lesser(g, m)
  <2>1. MinGap(p, Replaced(bs, j, b)) = Lesser(g, m)
    BY <1>1, <1>2, <1>3 DEF g
  <2> QED
    BY <1>6, <2>1
<1>8. GapsAlong(p, bs, j, of, g, m, up, down)
  BY <1>1, <1>3, <1>4, <1>5, <1>7 DEF GapsAlong, g
<1> QED
  BY <1>8
-----------------------------------------------------------------------------
(***************************************************************************)
(* The kinks of each loss.  Slope is that of three values, side by side.   *)
(***************************************************************************)
Slope(side, one, zero, two) == side * (4 * one - 3 * zero - two)

\* The nearest gap of a sample along a coordinate, see GapsAlong.
Bent(g, m, up, down, along, mine) ==
  /\ g \in Fours /\ m \in Fours /\ up \in {-1, 1} /\ down \in {-1, 1}
  /\ along \in {-1, 0, 1} /\ Bends(along, up, down) /\ mine \in BOOLEAN
  /\ mine => g <= m
  /\ ~mine => m <= g

\* The gradient of the covered distance of a sample lies between its slopes.
CoverageAt(x, m) == Positive(Lesser(x, m))
CoverageRate(mine, g, m, along) == IF mine /\ Lesser(g, m) > 0 THEN along ELSE 0
CoverageDerived(g, m, up, down, along, mine) ==
  Between(2 * CoverageRate(mine, g, m, along),
          Slope(-1, CoverageAt(g + down * 1, m), CoverageAt(g, m), CoverageAt(g + down * 2, m)),
          Slope(1, CoverageAt(g + up * 1, m), CoverageAt(g, m), CoverageAt(g + up * 2, m)))
LEMMA CoverageKink ==
  ASSUME NEW g, NEW m, NEW up, NEW down, NEW along, NEW mine,
         Bent(g, m, up, down, along, mine)
  PROVE  CoverageDerived(g, m, up, down, along, mine)
<1> USE DEF Bent, CoverageAt, CoverageRate, CoverageDerived
<1>1. PICK i \in Int, k \in Int : g = 4 * i /\ m = 4 * k
  BY DEF Fours
<1>2. CASE along = 0
  <2>1. up = 1 /\ down = 1
    BY <1>2 DEF Bends
  <2> QED
    BY <1>1, <1>2, <2>1 DEF Slope, Positive, Lesser, Between
<1>3. CASE along = 1
  <2>1. up = 1 /\ down = -1
    BY <1>3 DEF Bends
  <2> QED
    BY <1>1, <1>3, <2>1 DEF Slope, Positive, Lesser, Between
<1>4. CASE along = -1
  <2>1. up = -1 /\ down = 1
    BY <1>4 DEF Bends
  <2> QED
    BY <1>1, <1>4, <2>1 DEF Slope, Positive, Lesser, Between
<1> QED
  BY <1>2, <1>3, <1>4

SizeAt(x, m) == Dist(Lesser(x, m), 0)
SurfaceRate(mine, g, m, along) == IF mine THEN Sign(Lesser(g, m)) * along ELSE 0

SurfaceDerived(g, m, up, down, along, mine) ==
  Between(2 * SurfaceRate(mine, g, m, along),
          Slope(-1, SizeAt(g + down * 1, m), SizeAt(g, m), SizeAt(g + down * 2, m)),
          Slope(1, SizeAt(g + up * 1, m), SizeAt(g, m), SizeAt(g + up * 2, m)))

\* The same of the distance to the nearest surface.
LEMMA SurfaceKink ==
  ASSUME NEW g, NEW m, NEW up, NEW down, NEW along, NEW mine, Bent(g, m, up, down, along, mine)
  PROVE  SurfaceDerived(g, m, up, down, along, mine)
<1>a. /\ g \in Fours /\ m \in Fours /\ up \in {-1, 1} /\ down \in {-1, 1}
      /\ along \in {-1, 0, 1} /\ Bends(along, up, down) /\ mine \in BOOLEAN
      /\ mine => g <= m
      /\ ~mine => m <= g
  BY DEF Bent
<1>1. PICK i \in Int, k \in Int : g = 4 * i /\ m = 4 * k
  BY <1>a DEF Fours
<1> DEFINE Size(x) == IF x > 0 THEN x ELSE 0 - x
<1>2. \A x \in Int : Dist(x, 0) = Size(x) /\ Lesser(x, m) \in Int
  <2> SUFFICES ASSUME NEW x \in Int PROVE Dist(x, 0) = Size(x) /\ Lesser(x, m) \in Int
    OBVIOUS
  <2>1. Dist(x, 0) = IF x > 0 THEN x - 0 ELSE 0 - x
    BY DistIs
  <2> QED
    BY <1>1, <2>1 DEF Lesser
<1> DEFINE F(x) == SizeAt(x, m)
           H(x) == Size(Lesser(x, m))
<1>3. \A x \in Int : F(x) = H(x)
  BY <1>2 DEF SizeAt
<1>4. /\ F(g) = H(g) /\ F(g + down * 1) = H(g + down * 1) /\ F(g + down * 2) = H(g + down * 2)
      /\ F(g + up * 1) = H(g + up * 1) /\ F(g + up * 2) = H(g + up * 2)
  <2>1. g \in Int /\ g + down * 1 \in Int /\ g + down * 2 \in Int /\ g + up * 1 \in Int /\ g + up * 2 \in Int
    BY <1>a, <1>1
  <2> HIDE DEF F, H
  <2> QED
    BY <1>3, <2>1
<1> SUFFICES Between(2 * SurfaceRate(mine, g, m, along),
                     Slope(-1, H(g + down * 1), H(g), H(g + down * 2)),
                     Slope(1, H(g + up * 1), H(g), H(g + up * 2)))
  BY <1>4 DEF SurfaceDerived
<1>5. CASE along = 0
  <2>1. up = 1 /\ down = 1
    BY <1>a, <1>5 DEF Bends
  <2> QED
    BY <1>a, <1>1, <1>5, <2>1 DEF Slope, Sign, Lesser, Between, SurfaceRate
<1>6. CASE along = 1
  <2>1. up = 1 /\ down = -1
    BY <1>a, <1>6 DEF Bends
  <2> QED
    BY <1>a, <1>1, <1>6, <2>1 DEF Slope, Sign, Lesser, Between, SurfaceRate
<1>7. CASE along = -1
  <2>1. up = -1 /\ down = 1
    BY <1>a, <1>7 DEF Bends
  <2> QED
    BY <1>a, <1>1, <1>7, <2>1 DEF Slope, Sign, Lesser, Between, SurfaceRate
<1> QED
  BY <1>a, <1>5, <1>6, <1>7

\* How deep a point is in a sphere, or in one that is larger by r.
DepthAt(r, x) == Positive(r - x)
DepthRate(g, r, along) == IF r - g > 0 THEN 0 - along ELSE 0
DepthSteps(g, r, up, down, along) ==
  /\ g \in Fours /\ r \in Fours /\ up \in {-1, 1} /\ down \in {-1, 1}
  /\ along \in {-1, 0, 1} /\ Bends(along, up, down)
DepthDerived(g, r, up, down, along) ==
  Between(2 * DepthRate(g, r, along),
          Slope(-1, DepthAt(r, g + down), DepthAt(r, g), DepthAt(r, g + 2 * down)),
          Slope(1, DepthAt(r, g + up), DepthAt(r, g), DepthAt(r, g + 2 * up)))

\* The same of a depth.
LEMMA DepthKink ==
  ASSUME NEW g, NEW r, NEW up, NEW down, NEW along, DepthSteps(g, r, up, down, along)
  PROVE  DepthDerived(g, r, up, down, along)
<1>a. /\ g \in Fours /\ r \in Fours /\ up \in {-1, 1} /\ down \in {-1, 1}
      /\ along \in {-1, 0, 1} /\ Bends(along, up, down)
  BY DEF DepthSteps
<1>1. PICK i \in Int, k \in Int : g = 4 * i /\ r = 4 * k
  BY <1>a DEF Fours
<1>2. CASE along = 0
  <2>1. up = 1 /\ down = 1
    BY <1>a, <1>2 DEF Bends
  <2> QED
    BY <1>1, <1>2, <2>1 DEF DepthDerived, DepthAt, DepthRate, Slope, Positive, Between
<1>3. CASE along = 1
  <2>1. up = 1 /\ down = -1
    BY <1>a, <1>3 DEF Bends
  <2> QED
    BY <1>1, <1>3, <2>1 DEF DepthDerived, DepthAt, DepthRate, Slope, Positive, Between
<1>4. CASE along = -1
  <2>1. up = -1 /\ down = 1
    BY <1>a, <1>4 DEF Bends
  <2> QED
    BY <1>1, <1>4, <2>1 DEF DepthDerived, DepthAt, DepthRate, Slope, Positive, Between
<1> QED
  BY <1>a, <1>2, <1>3, <1>4

\* The square of a positive part has no kink.
LEMMA SquareSlope ==
  ASSUME NEW x \in Fours, NEW way \in {-1, 1}
  PROVE  LET P(y) == Positive(y) * Positive(y)
         IN  4 * P(x + way * 1) - 3 * P(x) - P(x + way * 2) = 4 * way * Positive(x)
<1>1. PICK i \in Int : x = 4 * i
  BY DEF Fours
<1>2. CASE i > 0
  <2>1. Positive(x) = x /\ Positive(x + way * 1) = x + way /\ Positive(x + way * 2) = x + 2 * way
    BY <1>1, <1>2 DEF Positive
  <2>2. way * way = 1
    OBVIOUS
  <2>3. CASE way = 1
    BY <1>1, <2>1, <2>3
  <2>4. CASE way = -1
    BY <1>1, <2>1, <2>4
  <2> QED
    BY <2>3, <2>4
<1>3. CASE i = 0
  <2>1. Positive(x) = 0 /\ Positive(x + way * 1) = (IF way = 1 THEN 1 ELSE 0)
        /\ Positive(x + way * 2) = (IF way = 1 THEN 2 ELSE 0)
    BY <1>1, <1>3 DEF Positive
  <2> QED
    BY <2>1
<1>4. CASE i < 0
  <2>1. Positive(x) = 0 /\ Positive(x + way * 1) = 0 /\ Positive(x + way * 2) = 0
    BY <1>1, <1>4 DEF Positive
  <2> QED
    BY <2>1
<1> QED
  BY <1>1, <1>2, <1>3, <1>4
-----------------------------------------------------------------------------
(***************************************************************************)
(* The samples the gradients are compared at, and those of a term.         *)
(***************************************************************************)
Problems ==
  {p \in [inside : Seq(Fours), surface : Seq(Fours), normals : Seq({-1, 1})] :
     Len(p.surface) = Len(p.normals)}

Coordinates == {"center", "radius"}

\* The fine lattice is closed under sums.
LEMMA FoursAre ==
  /\ \A x \in Int : 4 * x \in Fours
  /\ \A x \in Fours : x \in Int
  /\ \A x, y \in Fours : x + y \in Fours /\ x - y \in Fours
  /\ 0 \in Fours
<1>1. /\ \A x \in Int : 4 * x \in Fours
      /\ \A x \in Fours : x \in Int
  BY DEF Fours
<1>2. ASSUME NEW x \in Fours, NEW y \in Fours PROVE x + y \in Fours /\ x - y \in Fours
  <2>1. PICK i \in Int, k \in Int : x = 4 * i /\ y = 4 * k
    BY DEF Fours
  <2>2. x + y = 4 * (i + k) /\ x - y = 4 * (i - k) /\ i + k \in Int /\ i - k \in Int
    BY <2>1
  <2> QED
    BY <1>1, <2>2
<1>3. 0 \in Fours
  <2>1. 0 = 4 * 0 /\ 0 \in Int
    OBVIOUS
  <2> QED
    BY <2>1 DEF Fours
<1> QED
  BY <1>1, <1>2, <1>3

\* The entries of a list.
LEMMA SamplesAre ==
  ASSUME NEW T, NEW s \in Seq(T)
  PROVE  /\ Len(s) \in Nat /\ DOMAIN s = 1..Len(s) /\ IsFiniteSet(DOMAIN s)
         /\ \A i \in DOMAIN s : s[i] \in T
<1>1. Len(s) \in Nat /\ DOMAIN s = 1..Len(s) /\ \A i \in DOMAIN s : s[i] \in T
  OBVIOUS
<1> QED
  BY <1>1, FS_Interval

\* A list of one.
LEMMA OneIs ==
  ASSUME NEW T, NEW x \in T
  PROVE  <<x>> \in Seq(T) /\ Len(<<x>>) = 1 /\ DOMAIN <<x>> = {1} /\ <<x>>[1] = x
OBVIOUS

\* The samples of a problem.
LEMMA ProblemHas ==
  ASSUME NEW p \in Problems
  PROVE  /\ p.inside \in Seq(Fours) /\ p.surface \in Seq(Fours) /\ p.normals \in Seq({-1, 1})
         /\ Len(p.surface) = Len(p.normals)
BY DEF Problems

\* The problem with one inside sample only.
LEMMA OneInsideIs ==
  ASSUME NEW p \in Problems, NEW s \in DOMAIN p.inside
  PROVE  /\ p.inside[s] \in Fours /\ OneInside(p, s) \in Problems
         /\ OneInside(p, s).inside = <<p.inside[s]>>
<1> DEFINE x == p.inside[s]
<1>1. p.inside \in Seq(Fours) /\ x \in Fours
  BY ProblemHas, SamplesAre
<1>2. OneInside(p, s) = [inside |-> <<x>>, surface |-> p.surface, normals |-> p.normals]
  BY DEF OneInside, Problems
<1> HIDE DEF x
<1>3. <<x>> \in Seq(Fours)
  BY <1>1
<1>4. p.surface \in Seq(Fours) /\ p.normals \in Seq({-1, 1}) /\ Len(p.surface) = Len(p.normals)
  BY ProblemHas
<1>5. OneInside(p, s) \in Problems
  BY <1>2, <1>3, <1>4 DEF Problems
<1> QED
  BY <1>1, <1>2, <1>5 DEF x

\* The problem with one surface sample only.
LEMMA OneSurfaceIs ==
  ASSUME NEW p \in Problems, NEW s \in DOMAIN p.surface
  PROVE  /\ p.surface[s] \in Fours /\ p.normals[s] \in {-1, 1} /\ OneSurface(p, s) \in Problems
         /\ OneSurface(p, s).surface = <<p.surface[s]>> /\ OneSurface(p, s).normals = <<p.normals[s]>>
<1> DEFINE x == p.surface[s]
           y == p.normals[s]
<1>1. p.surface \in Seq(Fours) /\ x \in Fours
  BY ProblemHas, SamplesAre
<1>2. y \in {-1, 1}
  BY ProblemHas, SamplesAre
<1>3. OneSurface(p, s) = [inside |-> p.inside, surface |-> <<x>>, normals |-> <<y>>]
  <2>1. PICK i, u, v : p = [inside |-> i, surface |-> u, normals |-> v]
    BY DEF Problems
  <2>2. /\ OneSurface(p, s).inside = i /\ OneSurface(p, s).surface = <<u[s]>>
        /\ OneSurface(p, s).normals = <<v[s]>>
    BY <2>1 DEF OneSurface
  <2>3. OneSurface(p, s) \in [inside : {i}, surface : {<<u[s]>>}, normals : {<<v[s]>>}]
    <3>1. OneSurface(p, s) = [[p EXCEPT !.surface = <<p.surface[s]>>] EXCEPT !.normals = <<p.normals[s]>>]
      BY <2>1 DEF OneSurface
    <3>2. [p EXCEPT !.surface = <<p.surface[s]>>] = [inside |-> i, surface |-> <<u[s]>>, normals |-> v]
      BY <2>1
    <3>3. [[inside |-> i, surface |-> <<u[s]>>, normals |-> v] EXCEPT !.normals = <<v[s]>>]
            = [inside |-> i, surface |-> <<u[s]>>, normals |-> <<v[s]>>]
      OBVIOUS
    <3>4. <<p.normals[s]>> = <<v[s]>>
      BY <2>1
    <3>5. OneSurface(p, s) = [inside |-> i, surface |-> <<u[s]>>, normals |-> <<v[s]>>]
      BY <3>1, <3>2, <3>3, <3>4
    <3> QED
      BY <3>5
  <2> QED
    BY <2>1, <2>3
<1> HIDE DEF x, y
<1>4. <<x>> \in Seq(Fours) /\ <<y>> \in Seq({-1, 1}) /\ Len(<<x>>) = Len(<<y>>)
  BY <1>1, <1>2
<1>5. p.inside \in Seq(Fours)
  BY ProblemHas
<1>6. OneSurface(p, s) \in Problems
  BY <1>3, <1>4, <1>5 DEF Problems
<1> QED
  BY <1>1, <1>2, <1>3, <1>6 DEF x, y

\* TwiceSlope looks at the loss one and two steps to a side.
Stepped(bs, j, of, d) == Replaced(bs, j, Shifted(bs[j], of, d))

\* A packing after a step of one sphere.
LEMMA SteppedIs ==
  ASSUME NEW n \in Nat, NEW bs \in [1..n -> Balls], NEW j \in 1..n, NEW of \in Coordinates, NEW d \in Int
  PROVE  /\ Stepped(bs, j, of, d) \in [1..n -> Balls] /\ Stepped(bs, j, of, 0) = bs
         /\ \A i \in 1..n : Stepped(bs, j, of, d)[i] = IF i = j THEN Shifted(bs[j], of, d) ELSE bs[i]
<1>1. Shifted(bs[j], of, d) \in Balls /\ Shifted(bs[j], of, 0) = bs[j]
  BY ShiftedIs DEF Coordinates
<1> QED
  BY <1>1 DEF Stepped, Replaced

\* The sum of the opposites.
LEMMA NegatedSum ==
  ASSUME NEW S, IsFiniteSet(S), NEW f \in [S -> Int], NEW h \in [S -> Int], \A x \in S : h[x] = 0 - f[x]
  PROVE  SumFunction(f) \in Int /\ SumFunction(h) = 0 - SumFunction(f)
<1>1. \A x \in S : h[x] = (-1) * f[x]
  <2> SUFFICES ASSUME NEW x \in S PROVE h[x] = (-1) * f[x]
    OBVIOUS
  <2>1. f[x] \in Int /\ h[x] = 0 - f[x]
    OBVIOUS
  <2> QED
    BY <2>1
<1>2. SumFunction(f) \in Int /\ SumFunction(h) = (-1) * SumFunction(f)
  BY <1>1, ScaledSum
<1> QED
  BY <1>2
-----------------------------------------------------------------------------
\* What is asked of a loss, a sphere and a coordinate.
GradsSum(id, whole, of) ==
  LET terms == Terms(id, whole)
  IN  TwiceGrad(id, whole, of) = SumFunction([i \in DOMAIN terms |-> TwiceGrad(id, terms[i], of)])
SlopesSumUp(id, whole, of, side) ==
  LET terms == Terms(id, whole)
  IN  TwiceSlope(id, whole, of, side)
        = SumFunction([i \in DOMAIN terms |-> TwiceSlope(id, terms[i], of, side)])
TermsAreDerived(id, whole, of) ==
  LET terms == Terms(id, whole)
  IN  \A i \in DOMAIN terms :
        IsDerivative(id, terms[i], of) \/ (id \in {"sqem", "hausdorff"} /\ Tied(terms[i]))
IsDerived(id, whole, of) ==
  /\ GradsSum(id, whole, of) /\ SlopesSumUp(id, whole, of, 1) /\ SlopesSumUp(id, whole, of, -1)
  /\ TermsAreDerived(id, whole, of)

\* The loss of a term after d steps of its sphere.
Steps == {0, 1, 2, -1, -2}
At(id, t, of, d) == Loss(id, t.p, Stepped(t.bs, t.j, of, d))
IsTerm(t) == \E n \in Nat : t.bs \in [1..n -> Balls] /\ t.j \in 1..n

\* TwiceSlope in terms of the loss after 0, 1 and 2 steps.
LEMMA SlopeAt ==
  ASSUME NEW id, NEW t, IsTerm(t), NEW of \in Coordinates
  PROVE  /\ TwiceSlope(id, t, of, 1) = Slope(1, At(id, t, of, 1), At(id, t, of, 0), At(id, t, of, 2))
         /\ TwiceSlope(id, t, of, -1) = Slope(-1, At(id, t, of, -1), At(id, t, of, 0), At(id, t, of, -2))
<1> DEFINE Moved_(h, side) == [t.bs EXCEPT ![t.j][of] = @ + h * side]
<1>1. PICK n \in Nat : t.bs \in [1..n -> Balls] /\ t.j \in 1..n
  BY DEF IsTerm
<1>2. ASSUME NEW h \in {0, 1, 2}, NEW side \in {-1, 1}
      PROVE  Moved_(h, side) = Stepped(t.bs, t.j, of, h * side)
  BY <1>1 DEF Stepped, Replaced, Shifted
<1>3. /\ Moved_(0, 1) = Stepped(t.bs, t.j, of, 0) /\ Moved_(1, 1) = Stepped(t.bs, t.j, of, 1)
      /\ Moved_(2, 1) = Stepped(t.bs, t.j, of, 2)
      /\ Moved_(0, -1) = Stepped(t.bs, t.j, of, 0) /\ Moved_(1, -1) = Stepped(t.bs, t.j, of, -1)
      /\ Moved_(2, -1) = Stepped(t.bs, t.j, of, -2)
  <2>1. /\ 0 * 1 = 0 /\ 1 * 1 = 1 /\ 2 * 1 = 2 /\ 0 * (-1) = 0 /\ 1 * (-1) = -1 /\ 2 * (-1) = -2
    OBVIOUS
  <2> HIDE DEF Moved_
  <2> QED
    BY <1>2, <2>1
<1>4. \A side : TwiceSlope(id, t, of, side)
        = Slope(side, Loss(id, t.p, Moved_(1, side)), Loss(id, t.p, Moved_(0, side)), Loss(id, t.p, Moved_(2, side)))
  BY DEF TwiceSlope, Slope
<1> HIDE DEF Moved_
<1> QED
  BY <1>3, <1>4 DEF At

\* A sum and what is added to it.
Plus(rest, f) == rest + SumFunction(f)

\* The whole is the sum of its terms, but for what does not depend on the sphere.
LossSums(id, whole, terms, of, f, rest) ==
  /\ \A d \in Steps : At(id, whole, of, d) = Plus(rest, f[d])
  /\ \A d \in Steps, i \in DOMAIN terms : At(id, terms[i], of, d) = f[d][i]
GradSums(id, whole, terms, of, v) ==
  /\ Grad(id, whole.p, whole.bs, whole.j)[of] = SumFunction(v)
  /\ \A i \in DOMAIN terms : Grad(id, terms[i].p, terms[i].bs, terms[i].j)[of] = v[i]

\* The slopes of the terms of a sum, from their values at three points.
AreSlopes(S, side, rest, one, zero, two, h) ==
  /\ IsFiniteSet(S) /\ side \in {-1, 1} /\ rest \in Int
  /\ one \in [S -> Int] /\ zero \in [S -> Int] /\ two \in [S -> Int]
  /\ h = [i \in S |-> Slope(side, one[i], zero[i], two[i])]

\* Slopes add up, and what does not change adds nothing.
LEMMA SlopeSums ==
  ASSUME NEW S, NEW side, NEW rest, NEW one, NEW zero, NEW two, NEW h,
         AreSlopes(S, side, rest, one, zero, two, h)
  PROVE  Slope(side, Plus(rest, one), Plus(rest, zero), Plus(rest, two)) = SumFunction(h)
<1> DEFINE k == [i \in S |-> Slope(side, one[i], zero[i], two[i])]
<1>0. /\ IsFiniteSet(S) /\ side \in {-1, 1} /\ rest \in Int
      /\ one \in [S -> Int] /\ zero \in [S -> Int] /\ two \in [S -> Int] /\ h = k
  BY DEF AreSlopes
<1>1. \A i \in S : k[i] = side * (4 * one[i] - 3 * zero[i] - two[i])
  BY DEF Slope
<1>2. k \in [S -> Int]
  <2> SUFFICES ASSUME NEW i \in S PROVE k[i] \in Int
    BY Zenon
  <2>1. one[i] \in Int /\ zero[i] \in Int /\ two[i] \in Int
    BY <1>0
  <2>2. side * (4 * one[i] - 3 * zero[i] - two[i]) \in Int
    BY <1>0, <2>1
  <2> QED
    BY <1>1, <2>2
<1> HIDE DEF k
<1>3. /\ SumFunction(k) = side * (4 * SumFunction(one) - 3 * SumFunction(zero) - SumFunction(two))
      /\ SumFunction(one) \in Int /\ SumFunction(zero) \in Int /\ SumFunction(two) \in Int
  BY <1>0, <1>1, <1>2, SlopesSum, SMTT(30)
<1> DEFINE a == SumFunction(one)
           b == SumFunction(zero)
           c == SumFunction(two)
<1>4. side * (4 * (rest + a) - 3 * (rest + b) - (rest + c)) = side * (4 * a - 3 * b - c)
  <2>1. a \in Int /\ b \in Int /\ c \in Int
    BY <1>3
  <2> HIDE DEF a, b, c
  <2>2. 4 * (rest + a) - 3 * (rest + b) - (rest + c) = 4 * a - 3 * b - c
    BY <1>0, <2>1
  <2> QED
    BY <2>2
<1>5. Slope(side, rest + a, rest + b, rest + c) = side * (4 * (rest + a) - 3 * (rest + b) - (rest + c))
  BY DEF Slope
<1>6. SumFunction(k) = side * (4 * a - 3 * b - c)
  BY <1>3
<1> HIDE DEF a, b, c
<1>7. Slope(side, rest + a, rest + b, rest + c) = SumFunction(h)
  BY <1>0, <1>4, <1>5, <1>6
<1> QED
  BY <1>7 DEF a, b, c, Plus

\* Twice a sum.
LEMMA TwiceSum ==
  ASSUME NEW S, IsFiniteSet(S), NEW v \in [S -> Int]
  PROVE  SumFunction([i \in S |-> 2 * v[i]]) = 2 * SumFunction(v)
<1> DEFINE h == [i \in S |-> 2 * v[i]]
<1>1. h \in [S -> Int] /\ \A i \in S : h[i] = 2 * v[i]
  OBVIOUS
<1> HIDE DEF h
<1>2. SumFunction(h) = 2 * SumFunction(v)
  BY <1>1, ScaledSum
<1> QED
  BY <1>2 DEF h

\* A loss with its terms, the gradients v of the terms and their values f after some steps.
Splits(id, whole, terms, of, v, rest, f) ==
  /\ IsTerm(whole) /\ of \in Coordinates /\ terms = Terms(id, whole)
  /\ IsFiniteSet(DOMAIN terms) /\ \A i \in DOMAIN terms : IsTerm(terms[i])
  /\ v \in [DOMAIN terms -> Int] /\ GradSums(id, whole, terms, of, v)
  /\ rest \in Int /\ f \in [Steps -> [DOMAIN terms -> Int]]
  /\ LossSums(id, whole, terms, of, f, rest)
  /\ TermsAreDerived(id, whole, of)

\* Where a loss splits into derived terms, it is derived.
LEMMA DerivedIf ==
  ASSUME NEW id, NEW whole, NEW terms, NEW of, NEW v, NEW rest, NEW f,
         Splits(id, whole, terms, of, v, rest, f)
  PROVE  IsDerived(id, whole, of)
<1> DEFINE S == DOMAIN terms
<1>a. /\ IsTerm(whole) /\ of \in Coordinates /\ terms = Terms(id, whole)
      /\ IsFiniteSet(S) /\ \A i \in S : IsTerm(terms[i])
      /\ v \in [S -> Int] /\ GradSums(id, whole, terms, of, v)
      /\ rest \in Int /\ f \in [Steps -> [S -> Int]]
      /\ LossSums(id, whole, terms, of, f, rest)
      /\ TermsAreDerived(id, whole, of)
  BY DEF Splits
<1> USE <1>a
<1>1. GradsSum(id, whole, of)
  <2> DEFINE h == [i \in S |-> TwiceGrad(id, terms[i], of)]
  <2>1. h = [i \in S |-> 2 * v[i]]
    BY DEF TwiceGrad, GradSums
  <2>2. TwiceGrad(id, whole, of) = 2 * SumFunction(v)
    BY DEF TwiceGrad, GradSums
  <2>3. SumFunction([i \in S |-> 2 * v[i]]) = 2 * SumFunction(v)
    BY TwiceSum
  <2> QED
    BY <2>1, <2>2, <2>3 DEF GradsSum
<1>2. /\ f[0] \in [S -> Int] /\ f[1] \in [S -> Int] /\ f[2] \in [S -> Int]
      /\ f[-1] \in [S -> Int] /\ f[-2] \in [S -> Int]
  BY DEF Steps
<1>3. \A i \in S : /\ At(id, terms[i], of, 0) = f[0][i]
                   /\ At(id, terms[i], of, 1) = f[1][i] /\ At(id, terms[i], of, 2) = f[2][i]
                   /\ At(id, terms[i], of, -1) = f[-1][i] /\ At(id, terms[i], of, -2) = f[-2][i]
  BY DEF LossSums, Steps
<1>4. /\ At(id, whole, of, 0) = Plus(rest, f[0])
      /\ At(id, whole, of, 1) = Plus(rest, f[1]) /\ At(id, whole, of, 2) = Plus(rest, f[2])
      /\ At(id, whole, of, -1) = Plus(rest, f[-1])
      /\ At(id, whole, of, -2) = Plus(rest, f[-2])
  BY DEF LossSums, Steps
<1>5. SlopesSumUp(id, whole, of, 1)
  <2> DEFINE h == [i \in S |-> TwiceSlope(id, terms[i], of, 1)]
  <2>1. h = [i \in S |-> Slope(1, f[1][i], f[0][i], f[2][i])]
    BY <1>3, SlopeAt
  <2>2. TwiceSlope(id, whole, of, 1)
          = Slope(1, Plus(rest, f[1]), Plus(rest, f[0]), Plus(rest, f[2]))
    BY <1>4, SlopeAt
  <2> HIDE DEF h
  <2>3. AreSlopes(S, 1, rest, f[1], f[0], f[2], h)
    BY <1>2, <2>1 DEF AreSlopes
  <2>4. Slope(1, Plus(rest, f[1]), Plus(rest, f[0]), Plus(rest, f[2])) = SumFunction(h)
    BY <2>3, SlopeSums
  <2> QED
    BY <2>2, <2>4 DEF SlopesSumUp, h
<1>6. SlopesSumUp(id, whole, of, -1)
  <2> DEFINE h == [i \in S |-> TwiceSlope(id, terms[i], of, -1)]
  <2>1. h = [i \in S |-> Slope(-1, f[-1][i], f[0][i], f[-2][i])]
    BY <1>3, SlopeAt
  <2>2. TwiceSlope(id, whole, of, -1)
          = Slope(-1, Plus(rest, f[-1]), Plus(rest, f[0]), Plus(rest, f[-2]))
    BY <1>4, SlopeAt
  <2> HIDE DEF h
  <2>3. AreSlopes(S, -1, rest, f[-1], f[0], f[-2], h)
    BY <1>2, <2>1 DEF AreSlopes
  <2>4. Slope(-1, Plus(rest, f[-1]), Plus(rest, f[0]), Plus(rest, f[-2])) = SumFunction(h)
    BY <2>3, SlopeSums
  <2> QED
    BY <2>2, <2>4 DEF SlopesSumUp, h
<1> QED
  BY <1>1, <1>5, <1>6 DEF IsDerived

\* Positive parts, distances and signs are integers.
LEMMA IntegersAre ==
  ASSUME NEW x \in Int
  PROVE  /\ Positive(x) \in Int /\ Dist(x, 0) \in Int /\ Sign(x) \in {-1, 0, 1}
         /\ x * x \in Int /\ Positive(x) * Positive(x) \in Int
<1>1. Positive(x) \in Int
  BY DEF Positive
<1>2. Dist(x, 0) \in Nat
  BY Triangle
<1>3. Sign(x) \in {-1, 0, 1}
  BY DEF Sign
<1>4. \A y \in Int : y * y \in Int
  OBVIOUS
<1> QED
  BY <1>1, <1>2, <1>3, <1>4

\* Which way a gap changes.
LEMMA TowardsIs ==
  ASSUME NEW b \in Balls, NEW p \in Int
  PROVE  /\ \A of \in Coordinates : Towards(b, p, of) \in {-1, 0, 1}
         /\ Along(b, p) \in {-1, 0, 1}
         /\ Towards(b, p, "center") = Along(b, p) /\ Towards(b, p, "radius") = -1
<1>1. b.center - p \in Int
  BY DEF Balls
<1>2. Along(b, p) \in {-1, 0, 1}
  BY <1>1, IntegersAre DEF Along
<1> QED
  BY <1>2 DEF Towards

\* One coordinate of a gradient.
LEMMA BallAt ==
  ASSUME NEW c, NEW r, NEW of \in Coordinates
  PROVE  Ball(c, r)[of] = IF of = "center" THEN c ELSE r
BY DEF Ball, Coordinates

\* The steps.
LEMMA StepsAre ==
  /\ Steps \subseteq Int /\ 0 \in Steps /\ 1 \in Steps /\ 2 \in Steps /\ -1 \in Steps /\ -2 \in Steps
BY DEF Steps

\* A sphere of a packing with its steps.
LEMMA PackingIs ==
  ASSUME NEW n \in Nat, NEW bs \in [1..n -> FourBalls], NEW j \in 1..n, NEW of \in Coordinates, NEW p
  PROVE  /\ bs \in [1..n -> Balls] /\ bs[j] \in FourBalls /\ bs[j] \in Balls
         /\ IsTerm(Term(p, bs, j))
         /\ Term(p, bs, j).p = p /\ Term(p, bs, j).bs = bs /\ Term(p, bs, j).j = j
         /\ \A d \in Steps : Stepped(bs, j, of, d) \in [1..n -> Balls]
         /\ Stepped(bs, j, of, 0) = bs
         /\ \A id : \A d : At(id, Term(p, bs, j), of, d) = Loss(id, p, Stepped(bs, j, of, d))
<1>1. bs \in [1..n -> Balls] /\ bs[j] \in FourBalls /\ bs[j] \in Balls
  BY FourBallIs
<1>2. Term(p, bs, j).p = p /\ Term(p, bs, j).bs = bs /\ Term(p, bs, j).j = j
  BY DEF Term
<1>3. IsTerm(Term(p, bs, j))
  BY <1>1, <1>2 DEF IsTerm
<1>4. Stepped(bs, j, of, 0) = bs /\ \A d \in Steps : Stepped(bs, j, of, d) \in [1..n -> Balls]
  BY <1>1, SteppedIs, StepsAre
<1> QED
  BY <1>1, <1>2, <1>3, <1>4 DEF At

\* The same without samples.
LEMMA StepsOf ==
  ASSUME NEW n \in Nat, NEW bs \in [1..n -> FourBalls], NEW j \in 1..n, NEW of \in Coordinates
  PROVE  /\ bs \in [1..n -> Balls] /\ bs[j] \in FourBalls /\ bs[j] \in Balls
         /\ \A d \in Steps : Stepped(bs, j, of, d) \in [1..n -> Balls]
         /\ Stepped(bs, j, of, 0) = bs
<1>1. bs \in [1..n -> Balls] /\ bs[j] \in FourBalls /\ bs[j] \in Balls
  BY FourBallIs
<1> QED
  BY <1>1, SteppedIs, StepsAre
-----------------------------------------------------------------------------
\* Each loss by its name.
LEMMA LossIs ==
  \A p, bs :
    /\ Loss("coverage", p, bs) = Coverage(p, bs)
    /\ Loss("overlap", p, bs) = Overlap(bs)
    /\ Loss("boundary", p, bs) = Boundary(p, bs)
    /\ Loss("surface", p, bs) = Surface(p, bs)
    /\ Loss("containment", p, bs) = Containment(bs)
    /\ Loss("sqem", p, bs) = Sqem(p, bs)
    /\ Loss("hausdorff", p, bs) = Hausdorff(p, bs)
    /\ Loss("mesh_containment", p, bs) = MeshContainment(p, bs)
BY DEF Loss

\* Each gradient by its name.
LEMMA GradIs ==
  \A p, bs, j :
    /\ Grad("coverage", p, bs, j) = CoverageGrad(p, bs, j)
    /\ Grad("overlap", p, bs, j) = OverlapGrad(bs, j)
    /\ Grad("boundary", p, bs, j) = BoundaryGrad(p, bs, j)
    /\ Grad("surface", p, bs, j) = SurfaceGrad(p, bs, j)
    /\ Grad("containment", p, bs, j) = ContainmentGrad(bs, j)
    /\ Grad("sqem", p, bs, j) = SqemGrad(p, bs, j)
    /\ Grad("hausdorff", p, bs, j) = HausdorffGrad(p, bs, j)
    /\ Grad("mesh_containment", p, bs, j) = MeshContainmentGrad(p, bs, j)
BY DEF Grad

\* A sum over some of S as one over all of it; a sum of opposites.
ZeroElsewhere(S, T, f, h) ==
  /\ IsFiniteSet(S) /\ T \in SUBSET S /\ f \in [T -> Int]
  /\ h = [s \in S |-> IF s \in T THEN f[s] ELSE 0]
Opposite(S, f, h) ==
  IsFiniteSet(S) /\ f \in [S -> Int] /\ h = [s \in S |-> 0 - f[s]]

\* The sum over some is that over all with zeros.
LEMMA SumZeroElsewhere ==
  ASSUME NEW S, NEW T, NEW f, NEW h, ZeroElsewhere(S, T, f, h)
  PROVE  h \in [S -> Int] /\ SumFunction(f) \in Int /\ SumFunction(h) = SumFunction(f)
<1>1. IsFiniteSet(S) /\ T \in SUBSET S /\ f \in [T -> Int]
  BY DEF ZeroElsewhere
<1>2. h \in [S -> Int] /\ \A s \in S : h[s] = IF s \in T THEN f[s] ELSE 0
  BY DEF ZeroElsewhere
<1> QED
  BY <1>1, <1>2, SumOfSome

\* NegatedSum for a function given by its opposite.
LEMMA SumOpposite ==
  ASSUME NEW S, NEW f, NEW h, Opposite(S, f, h)
  PROVE  h \in [S -> Int] /\ SumFunction(f) \in Int /\ SumFunction(h) = 0 - SumFunction(f)
<1>1. IsFiniteSet(S) /\ f \in [S -> Int]
  BY DEF Opposite
<1>2. h \in [S -> Int] /\ \A s \in S : h[s] = 0 - f[s]
  BY DEF Opposite
<1> QED
  BY <1>1, <1>2, NegatedSum

\* The number of members of T, as a sum over S, and its opposite.
Counting(S, T, h) == IsFiniteSet(S) /\ T \in SUBSET S /\ h = [s \in S |-> IF s \in T THEN 1 ELSE 0]
CountingDown(S, T, h) == IsFiniteSet(S) /\ T \in SUBSET S /\ h = [s \in S |-> IF s \in T THEN -1 ELSE 0]

\* Counting is summing ones.
LEMMA SumCounting ==
  ASSUME NEW S, NEW T, NEW h, Counting(S, T, h)
  PROVE  h \in [S -> Int] /\ Cardinality(T) \in Nat /\ SumFunction(h) = Cardinality(T)
<1> DEFINE ones == [s \in T |-> 1]
<1>1. IsFiniteSet(S) /\ T \in SUBSET S /\ IsFiniteSet(T) /\ Cardinality(T) \in Nat
  BY FS_Subset, FS_CardinalityType DEF Counting
<1>2. SumFunction(ones) = Cardinality(T)
  BY <1>1, SumOfOnes
<1>3. ZeroElsewhere(S, T, ones, h)
  BY <1>1 DEF ZeroElsewhere, Counting
<1> HIDE DEF ones
<1> QED
  BY <1>1, <1>2, <1>3, SumZeroElsewhere

\* Counting with minus ones.
LEMMA SumCountingDown ==
  ASSUME NEW S, NEW T, NEW h, CountingDown(S, T, h)
  PROVE  h \in [S -> Int] /\ Cardinality(T) \in Nat /\ SumFunction(h) = -Cardinality(T)
<1> DEFINE up == [s \in S |-> IF s \in T THEN 1 ELSE 0]
<1>1. Counting(S, T, up)
  BY DEF Counting, CountingDown
<1>2. up \in [S -> Int] /\ Cardinality(T) \in Nat /\ SumFunction(up) = Cardinality(T)
  BY <1>1, SumCounting
<1>3. Opposite(S, up, h)
  BY <1>2 DEF Opposite, CountingDown
<1> HIDE DEF up
<1>4. h \in [S -> Int] /\ SumFunction(h) = 0 - SumFunction(up)
  BY <1>3, SumOpposite
<1>5. 0 - Cardinality(T) = -Cardinality(T)
  BY <1>2
<1> QED
  BY <1>2, <1>4, <1>5
-----------------------------------------------------------------------------
(***************************************************************************)
(* Coverage: one term for each sample.                                     *)
(***************************************************************************)
CoveragePart(x, bs, j, of) ==
  IF Nearest(x, bs) = j /\ MinGap(x, bs) > 0 THEN Towards(bs[j], x, of) ELSE 0
CoverageParts(p, bs, j, of) ==
  [s \in DOMAIN p.inside |-> CoveragePart(p.inside[s], bs, j, of)]
CoverageValues(p, cs) == [s \in DOMAIN p.inside |-> Positive(MinGap(p.inside[s], cs))]

\* The gradient as a sum over all samples.
LEMMA CoverageGradIs ==
  ASSUME NEW n \in Nat, n # 0, NEW bs \in [1..n -> Balls], NEW j \in 1..n, NEW of \in Coordinates,
         NEW p \in Problems
  PROVE  /\ CoverageParts(p, bs, j, of) \in [DOMAIN p.inside -> Int]
         /\ CoverageGrad(p, bs, j)[of] = SumFunction(CoverageParts(p, bs, j, of))
<1> DEFINE S == DOMAIN p.inside
           T == {s \in Own(p.inside, bs, j) : MinGap(p.inside[s], bs) > 0}
           f == [s \in T |-> Along(bs[j], p.inside[s])]
           h == CoverageParts(p, bs, j, of)
<1>1. IsFiniteSet(S) /\ \A s \in S : p.inside[s] \in Int
  BY ProblemHas, SamplesAre, FoursAre
<1>2. \A s \in S : /\ Along(bs[j], p.inside[s]) \in Int
                   /\ Towards(bs[j], p.inside[s], "center") = Along(bs[j], p.inside[s])
                   /\ Towards(bs[j], p.inside[s], "radius") = -1
  BY <1>1, TowardsIs
<1>3. T \in SUBSET S /\ \A s \in S : s \in T <=> Nearest(p.inside[s], bs) = j /\ MinGap(p.inside[s], bs) > 0
  BY DEF Own
<1>4. f \in [T -> Int]
  BY <1>2, <1>3
<1>5. CoverageGrad(p, bs, j) = Ball(SumFunction(f), -Cardinality(T))
  BY DEF CoverageGrad
<1>6. h = [s \in S |-> IF s \in T THEN Towards(bs[j], p.inside[s], of) ELSE 0]
  BY <1>3 DEF CoverageParts, CoveragePart
<1> HIDE DEF h, T
<1>7. CASE of = "center"
  <2>1. ZeroElsewhere(S, T, f, h)
    BY <1>1, <1>2, <1>3, <1>4, <1>6, <1>7 DEF ZeroElsewhere
  <2>2. CoverageGrad(p, bs, j)[of] = SumFunction(f)
    BY <1>5, <1>7, BallAt
  <2> HIDE DEF f, S
  <2> QED
    BY <2>1, <2>2, SumZeroElsewhere DEF h, S
<1>8. CASE of = "radius"
  <2>1. CountingDown(S, T, h)
    BY <1>1, <1>2, <1>3, <1>6, <1>8 DEF CountingDown
  <2>2. CoverageGrad(p, bs, j)[of] = -Cardinality(T)
    BY <1>5, <1>8, BallAt
  <2> HIDE DEF S
  <2> QED
    BY <2>1, <2>2, SumCountingDown DEF h, S
<1> QED
  BY <1>7, <1>8 DEF Coordinates

\* The loss as a sum over all samples.
LEMMA CoverageIs ==
  ASSUME NEW n \in Nat, n # 0, NEW cs \in [1..n -> Balls], NEW p \in Problems
  PROVE  /\ CoverageValues(p, cs) \in [DOMAIN p.inside -> Int]
         /\ Coverage(p, cs) = SumFunction(CoverageValues(p, cs))
<1>1. \A s \in DOMAIN p.inside : p.inside[s] \in Int
  BY ProblemHas, SamplesAre, FoursAre
<1>2. \A s \in DOMAIN p.inside : MinGap(p.inside[s], cs) \in Int
  BY <1>1, MinGapIs
<1>3. \A s \in DOMAIN p.inside : Positive(MinGap(p.inside[s], cs)) \in Int
  BY <1>2, IntegersAre
<1> QED
  BY <1>3 DEF Coverage, CoverageValues

\* Both for one sample.
LEMMA CoverageOfOne ==
  ASSUME NEW n \in Nat, n # 0, NEW bs \in [1..n -> Balls], NEW j \in 1..n, NEW of \in Coordinates,
         NEW p \in Problems, NEW x
  PROVE  DOMAIN p.inside = {1} /\ p.inside[1] = x =>
           /\ CoverageGrad(p, bs, j)[of] = CoveragePart(x, bs, j, of)
           /\ Coverage(p, bs) = Positive(MinGap(x, bs))
<1>1. /\ CoverageParts(p, bs, j, of) \in [DOMAIN p.inside -> Int]
      /\ CoverageGrad(p, bs, j)[of] = SumFunction(CoverageParts(p, bs, j, of))
  BY CoverageGradIs
<1>2. /\ CoverageValues(p, bs) \in [DOMAIN p.inside -> Int]
      /\ Coverage(p, bs) = SumFunction(CoverageValues(p, bs))
  BY CoverageIs
<1> HAVE DOMAIN p.inside = {1} /\ p.inside[1] = x
<1>3. CoverageParts(p, bs, j, of)[1] = CoveragePart(x, bs, j, of)
  BY DEF CoverageParts
<1>4. CoverageValues(p, bs)[1] = Positive(MinGap(x, bs))
  BY DEF CoverageValues
<1> QED
  BY <1>1, <1>2, <1>3, <1>4, SumOfOne

\* The nearest gap after some steps.
LEMMA GapsAt ==
  ASSUME NEW x, NEW bs, NEW j, NEW of, NEW g, NEW m, NEW up, NEW down,
         GapsAlong(x, bs, j, of, g, m, up, down)
  PROVE  /\ MinGap(x, Stepped(bs, j, of, 1)) = Lesser(g + up * 1, m)
         /\ MinGap(x, Stepped(bs, j, of, 2)) = Lesser(g + up * 2, m)
         /\ MinGap(x, Stepped(bs, j, of, -1)) = Lesser(g + down * 1, m)
         /\ MinGap(x, Stepped(bs, j, of, -2)) = Lesser(g + down * 2, m)
         /\ MinGap(x, bs) = Lesser(g, m)
BY DEF GapsAlong, Stepped

\* The gradient at one sample is its derivative.
LEMMA CoverageTerm ==
  ASSUME NEW n \in Nat, n # 0, NEW bs \in [1..n -> FourBalls], NEW j \in 1..n, NEW of \in Coordinates,
         NEW p \in Problems, NEW x \in Fours, DOMAIN p.inside = {1}, p.inside[1] = x
  PROVE  IsDerivative("coverage", Term(p, bs, j), of)
<1> DEFINE t == Term(p, bs, j)
           L(d) == At("coverage", t, of, d)
<1>1. /\ bs \in [1..n -> Balls] /\ bs[j] \in Balls /\ x \in Int
      /\ IsTerm(t) /\ \A d \in Steps : L(d) = Coverage(p, Stepped(bs, j, of, d))
      /\ Stepped(bs, j, of, 0) = bs /\ \A d \in Steps : Stepped(bs, j, of, d) \in [1..n -> Balls]
  <2>1. x \in Int
    BY FoursAre
  <2>2. \A d : L(d) = Loss("coverage", p, Stepped(bs, j, of, d))
    BY PackingIs
  <2>3. /\ bs \in [1..n -> Balls] /\ bs[j] \in Balls /\ IsTerm(t)
        /\ Stepped(bs, j, of, 0) = bs /\ \A d \in Steps : Stepped(bs, j, of, d) \in [1..n -> Balls]
    BY PackingIs
  <2> HIDE DEF L, t
  <2> QED
    BY <2>1, <2>2, <2>3, LossIs
<1>2. TwiceGrad("coverage", t, of) = 2 * CoveragePart(x, bs, j, of)
  <2>1. CoverageGrad(p, bs, j)[of] = CoveragePart(x, bs, j, of)
    BY <1>1, CoverageOfOne
  <2> QED
    BY <2>1, GradIs DEF TwiceGrad, Term
<1>3. \A d \in Steps : L(d) = Positive(MinGap(x, Stepped(bs, j, of, d)))
  BY <1>1, CoverageOfOne
<1>4. PICK g, m, up, down : GapsAlong(x, bs, j, of, g, m, up, down)
  BY GapsMoveAlong DEF Coordinates
<1> DEFINE F(y) == CoverageAt(y, m)
<1>5. /\ L(1) = F(g + up * 1) /\ L(2) = F(g + up * 2) /\ L(0) = F(g)
      /\ L(-1) = F(g + down * 1) /\ L(-2) = F(g + down * 2)
  <2> HIDE DEF L
  <2> QED
    BY <1>1, <1>3, <1>4, GapsAt, StepsAre DEF CoverageAt
<1>6. /\ TwiceSlope("coverage", t, of, 1) = Slope(1, L(1), L(0), L(2))
      /\ TwiceSlope("coverage", t, of, -1) = Slope(-1, L(-1), L(0), L(-2))
  <2> HIDE DEF t
  <2> QED
    BY <1>1, SlopeAt
<1> DEFINE along == Towards(bs[j], x, of)
           mine == Nearest(x, bs) = j
<1>7. /\ g \in Fours /\ m \in Fours /\ up \in {-1, 1} /\ down \in {-1, 1} /\ Bends(along, up, down)
      /\ mine \in BOOLEAN /\ (mine => g <= m) /\ (~mine => m <= g) /\ MinGap(x, bs) = Lesser(g, m)
  BY <1>4 DEF GapsAlong
<1>8. along \in {-1, 0, 1}
  BY <1>1, TowardsIs
<1>9. CoveragePart(x, bs, j, of) = CoverageRate(mine, g, m, along)
  BY <1>7 DEF CoveragePart, CoverageRate
<1> HIDE DEF along, mine, t
<1>10. CoverageDerived(g, m, up, down, along, mine)
  <2>1. Bent(g, m, up, down, along, mine)
    BY <1>7, <1>8 DEF Bent
  <2> QED
    BY <2>1, CoverageKink
<1> HIDE DEF L
<1>11. TwiceGrad("coverage", t, of) = 2 * CoverageRate(mine, g, m, along)
  BY <1>2, <1>9
<1>12. /\ TwiceSlope("coverage", t, of, 1) = Slope(1, F(g + up * 1), F(g), F(g + up * 2))
       /\ TwiceSlope("coverage", t, of, -1) = Slope(-1, F(g + down * 1), F(g), F(g + down * 2))
  BY <1>5, <1>6
<1>13. IsDerivative("coverage", t, of)
  BY <1>10, <1>11, <1>12 DEF IsDerivative, CoverageDerived
<1> QED
  BY <1>13 DEF t

\* The coverage gradient is derived, term by term.
LEMMA CoverageIsDerived ==
  ASSUME NEW n \in Nat, n # 0, NEW bs \in [1..n -> FourBalls], NEW j \in 1..n, NEW of \in Coordinates,
         NEW p \in Problems
  PROVE  IsDerived("coverage", Term(p, bs, j), of)
<1> DEFINE whole == Term(p, bs, j)
           S == DOMAIN p.inside
           terms == Terms("coverage", whole)
           v == CoverageParts(p, bs, j, of)
           f == [d \in Steps |-> CoverageValues(p, Stepped(bs, j, of, d))]
<1>1. p.inside \in Seq(Fours) /\ IsFiniteSet(S)
  BY ProblemHas, SamplesAre
<1>2. /\ bs \in [1..n -> Balls] /\ whole.p = p /\ whole.bs = bs /\ whole.j = j /\ IsTerm(whole)
      /\ Stepped(bs, j, of, 0) = bs /\ \A d \in Steps : Stepped(bs, j, of, d) \in [1..n -> Balls]
      /\ \A d \in Steps : At("coverage", whole, of, d) = Coverage(p, Stepped(bs, j, of, d))
  BY PackingIs, LossIs
<1>3. terms = [s \in S |-> Term(OneInside(p, s), bs, j)]
  <2> HIDE DEF whole
  <2> QED
    BY <1>2 DEF Terms
<1>4. \A s \in S : /\ terms[s] = Term(OneInside(p, s), bs, j)
                   /\ terms[s].p = OneInside(p, s) /\ terms[s].bs = bs /\ terms[s].j = j
                   /\ IsTerm(terms[s])
                   /\ \A d \in Steps : At("coverage", terms[s], of, d)
                                         = Coverage(OneInside(p, s), Stepped(bs, j, of, d))
  BY <1>3, PackingIs, LossIs
<1>5. \A s \in S : /\ p.inside[s] \in Fours /\ OneInside(p, s) \in Problems
                   /\ DOMAIN OneInside(p, s).inside = {1} /\ OneInside(p, s).inside[1] = p.inside[s]
  BY OneInsideIs, OneIs
<1> HIDE DEF terms
<1>6. TermsAreDerived("coverage", whole, of)
  <2>1. \A s \in S : IsDerivative("coverage", terms[s], of)
    BY <1>4, <1>5, CoverageTerm
  <2> QED
    BY <1>3, <2>1 DEF TermsAreDerived, terms
<1>7. v \in [S -> Int] /\ CoverageGrad(p, bs, j)[of] = SumFunction(v)
  BY <1>1, <1>2, CoverageGradIs
<1>8. \A s \in S : CoverageGrad(OneInside(p, s), bs, j)[of] = v[s]
  BY <1>2, <1>5, CoverageOfOne DEF CoverageParts
<1>9. GradSums("coverage", whole, terms, of, v)
  <2> HIDE DEF v, whole
  <2> QED
    <3>1. CoverageGrad(whole.p, whole.bs, whole.j)[of] = SumFunction(v)
      BY <1>2, <1>7
    <3>2. \A s \in S : CoverageGrad(terms[s].p, terms[s].bs, terms[s].j)[of] = v[s]
      BY <1>4, <1>8
    <3>3. S = DOMAIN terms
      BY <1>3
    <3> QED
      BY <3>1, <3>2, <3>3, GradIs DEF GradSums
<1>10. \A d \in Steps : /\ f[d] \in [S -> Int]
                        /\ Coverage(p, Stepped(bs, j, of, d)) = SumFunction(f[d])
                        /\ SumFunction(f[d]) \in Int
                        /\ \A s \in S : Coverage(OneInside(p, s), Stepped(bs, j, of, d)) = f[d][s]
  <2> SUFFICES ASSUME NEW d \in Steps
               PROVE  /\ f[d] \in [S -> Int]
                      /\ Coverage(p, Stepped(bs, j, of, d)) = SumFunction(f[d])
                      /\ SumFunction(f[d]) \in Int
                      /\ \A s \in S : Coverage(OneInside(p, s), Stepped(bs, j, of, d)) = f[d][s]
    OBVIOUS
  <2> DEFINE cs == Stepped(bs, j, of, d)
  <2>1. f[d] = CoverageValues(p, cs) /\ cs \in [1..n -> Balls]
    BY <1>2
  <2> HIDE DEF f, cs
  <2>2. f[d] \in [S -> Int] /\ Coverage(p, cs) = SumFunction(f[d])
    BY <1>1, <2>1, CoverageIs
  <2>3. SumFunction(f[d]) \in Int
    BY <1>1, <2>2, SplitSum
  <2>4. \A s \in S : Coverage(OneInside(p, s), cs) = f[d][s]
    BY <1>5, <2>1, CoverageOfOne DEF CoverageValues
  <2> QED
    BY <2>2, <2>3, <2>4 DEF cs
<1>11. f \in [Steps -> [S -> Int]]
  BY <1>10
<1> HIDE DEF f, v
<1>12. LossSums("coverage", whole, terms, of, f, 0)
  <2>1. \A d \in Steps : At("coverage", whole, of, d) = Plus(0, f[d])
    BY <1>2, <1>10 DEF Plus
  <2> QED
    BY <1>3, <1>4, <1>10, <2>1 DEF LossSums
<1>13. Splits("coverage", whole, terms, of, v, 0, f)
  BY <1>1, <1>2, <1>3, <1>4, <1>6, <1>7, <1>9, <1>11, <1>12 DEF Splits, terms
<1> HIDE DEF whole
<1> QED
  BY <1>13, DerivedIf DEF whole
-----------------------------------------------------------------------------
(***************************************************************************)
(* Surface: one term for each sample.                                      *)
(***************************************************************************)
SurfacePart(x, bs, j, of) ==
  IF Nearest(x, bs) = j THEN Sign(MinGap(x, bs)) * Towards(bs[j], x, of) ELSE 0
SurfaceParts(p, bs, j, of) ==
  [s \in DOMAIN p.surface |-> SurfacePart(p.surface[s], bs, j, of)]
SurfaceValues(p, cs) == [s \in DOMAIN p.surface |-> Dist(MinGap(p.surface[s], cs), 0)]

\* The gradient as a sum over all samples.
LEMMA SurfaceGradIs ==
  ASSUME NEW n \in Nat, n # 0, NEW bs \in [1..n -> Balls], NEW j \in 1..n, NEW of \in Coordinates,
         NEW p \in Problems
  PROVE  /\ SurfaceParts(p, bs, j, of) \in [DOMAIN p.surface -> Int]
         /\ SurfaceGrad(p, bs, j)[of] = SumFunction(SurfaceParts(p, bs, j, of))
<1> DEFINE S == DOMAIN p.surface
           T == Own(p.surface, bs, j)
           sign == [s \in T |-> Sign(MinGap(p.surface[s], bs))]
           f == [s \in DOMAIN sign |-> sign[s] * Along(bs[j], p.surface[s])]
           h == SurfaceParts(p, bs, j, of)
<1>1. IsFiniteSet(S) /\ \A s \in S : p.surface[s] \in Int
  BY ProblemHas, SamplesAre, FoursAre
<1>2. \A s \in S : /\ Along(bs[j], p.surface[s]) \in {-1, 0, 1}
                   /\ Towards(bs[j], p.surface[s], "center") = Along(bs[j], p.surface[s])
                   /\ Towards(bs[j], p.surface[s], "radius") = -1
                   /\ MinGap(p.surface[s], bs) \in Int
  BY <1>1, TowardsIs, MinGapIs
<1>3. T \in SUBSET S /\ \A s \in S : s \in T <=> Nearest(p.surface[s], bs) = j
  BY DEF Own
<1>4. \A s \in T : /\ sign[s] \in {-1, 0, 1} /\ sign[s] = Sign(MinGap(p.surface[s], bs))
  BY <1>2, <1>3, IntegersAre
<1>5. SurfaceGrad(p, bs, j) = Ball(SumFunction(f), -SumFunction(sign))
  BY DEF SurfaceGrad
<1>6. h = [s \in S |-> IF s \in T THEN Sign(MinGap(p.surface[s], bs)) * Towards(bs[j], p.surface[s], of) ELSE 0]
  BY <1>3 DEF SurfaceParts, SurfacePart
<1>7. f = [s \in T |-> sign[s] * Along(bs[j], p.surface[s])] /\ sign \in [T -> Int]
  BY <1>4
<1> HIDE DEF h, T, sign, f
<1>8. CASE of = "center"
  <2>1. \A s \in T : f[s] = Sign(MinGap(p.surface[s], bs)) * Towards(bs[j], p.surface[s], of)
    BY <1>2, <1>3, <1>4, <1>7, <1>8
  <2>2. \A s \in T : f[s] \in Int
    <3> SUFFICES ASSUME NEW s \in T PROVE f[s] \in Int
      OBVIOUS
    <3>1. f[s] = sign[s] * Along(bs[j], p.surface[s])
      BY <1>7
    <3>2. sign[s] \in {-1, 0, 1} /\ Along(bs[j], p.surface[s]) \in {-1, 0, 1}
      BY <1>2, <1>3, <1>4
    <3> QED
      BY <3>1, <3>2
  <2>3. f \in [T -> Int]
    BY <1>7, <2>2
  <2>4. ZeroElsewhere(S, T, f, h)
    BY <1>1, <1>3, <1>6, <2>1, <2>3 DEF ZeroElsewhere
  <2>5. SurfaceGrad(p, bs, j)[of] = SumFunction(f)
    BY <1>5, <1>8, BallAt
  <2> HIDE DEF S
  <2> QED
    BY <2>4, <2>5, SumZeroElsewhere DEF h, S
<1>9. CASE of = "radius"
  <2> DEFINE u == [s \in S |-> IF s \in T THEN sign[s] ELSE 0]
  <2>1. ZeroElsewhere(S, T, sign, u)
    BY <1>1, <1>3, <1>7 DEF ZeroElsewhere
  <2>2. \A s \in S : h[s] = 0 - u[s]
    <3> SUFFICES ASSUME NEW s \in S PROVE h[s] = 0 - u[s]
      OBVIOUS
    <3>1. CASE s \in T
      <4>1. h[s] = sign[s] * (-1) /\ u[s] = sign[s]
        BY <1>2, <1>4, <1>6, <1>9, <3>1
      <4>2. sign[s] \in {-1, 0, 1}
        BY <1>4, <3>1
      <4> QED
        BY <4>1, <4>2
    <3>2. CASE s \notin T
      BY <1>6, <3>2
    <3> QED
      BY <3>1, <3>2
  <2> HIDE DEF u
  <2>3. u \in [S -> Int] /\ SumFunction(sign) \in Int /\ SumFunction(u) = SumFunction(sign)
    BY <2>1, SumZeroElsewhere
  <2>4. Opposite(S, u, h)
    BY <1>1, <1>6, <2>2, <2>3 DEF Opposite
  <2>5. h \in [S -> Int] /\ SumFunction(h) = 0 - SumFunction(u)
    BY <2>4, SumOpposite
  <2>6. SurfaceGrad(p, bs, j)[of] = -SumFunction(sign)
    BY <1>5, <1>9, BallAt
  <2>7. 0 - SumFunction(sign) = -SumFunction(sign)
    BY <2>3
  <2> QED
    BY <2>3, <2>5, <2>6, <2>7 DEF h
<1> QED
  BY <1>8, <1>9 DEF Coordinates

\* The loss as a sum over all samples.
LEMMA SurfaceIs ==
  ASSUME NEW n \in Nat, n # 0, NEW cs \in [1..n -> Balls], NEW p \in Problems
  PROVE  /\ SurfaceValues(p, cs) \in [DOMAIN p.surface -> Int]
         /\ Surface(p, cs) = SumFunction(SurfaceValues(p, cs))
<1>1. \A s \in DOMAIN p.surface : p.surface[s] \in Int
  BY ProblemHas, SamplesAre, FoursAre
<1>2. \A s \in DOMAIN p.surface : MinGap(p.surface[s], cs) \in Int
  BY <1>1, MinGapIs
<1>3. \A s \in DOMAIN p.surface : Dist(MinGap(p.surface[s], cs), 0) \in Int
  BY <1>2, IntegersAre
<1> QED
  BY <1>3 DEF Surface, SurfaceValues

\* Both for one sample.
LEMMA SurfaceOfOne ==
  ASSUME NEW n \in Nat, n # 0, NEW bs \in [1..n -> Balls], NEW j \in 1..n, NEW of \in Coordinates,
         NEW p \in Problems, NEW x
  PROVE  DOMAIN p.surface = {1} /\ p.surface[1] = x =>
           /\ SurfaceGrad(p, bs, j)[of] = SurfacePart(x, bs, j, of)
           /\ Surface(p, bs) = Dist(MinGap(x, bs), 0)
<1>1. /\ SurfaceParts(p, bs, j, of) \in [DOMAIN p.surface -> Int]
      /\ SurfaceGrad(p, bs, j)[of] = SumFunction(SurfaceParts(p, bs, j, of))
  BY SurfaceGradIs
<1>2. /\ SurfaceValues(p, bs) \in [DOMAIN p.surface -> Int]
      /\ Surface(p, bs) = SumFunction(SurfaceValues(p, bs))
  BY SurfaceIs
<1> HAVE DOMAIN p.surface = {1} /\ p.surface[1] = x
<1>3. SurfaceParts(p, bs, j, of)[1] = SurfacePart(x, bs, j, of)
  BY DEF SurfaceParts
<1>4. SurfaceValues(p, bs)[1] = Dist(MinGap(x, bs), 0)
  BY DEF SurfaceValues
<1> QED
  BY <1>1, <1>2, <1>3, <1>4, SumOfOne

\* The gradient at one sample is its derivative.
LEMMA SurfaceTerm ==
  ASSUME NEW n \in Nat, n # 0, NEW bs \in [1..n -> FourBalls], NEW j \in 1..n, NEW of \in Coordinates,
         NEW p \in Problems, NEW x \in Fours, DOMAIN p.surface = {1}, p.surface[1] = x
  PROVE  IsDerivative("surface", Term(p, bs, j), of)
<1> DEFINE t == Term(p, bs, j)
           L(d) == At("surface", t, of, d)
<1>1. /\ bs \in [1..n -> Balls] /\ bs[j] \in Balls /\ x \in Int
      /\ IsTerm(t) /\ \A d \in Steps : L(d) = Surface(p, Stepped(bs, j, of, d))
      /\ Stepped(bs, j, of, 0) = bs /\ \A d \in Steps : Stepped(bs, j, of, d) \in [1..n -> Balls]
  <2>1. x \in Int
    BY FoursAre
  <2>2. \A d : L(d) = Loss("surface", p, Stepped(bs, j, of, d))
    BY PackingIs
  <2>3. /\ bs \in [1..n -> Balls] /\ bs[j] \in Balls /\ IsTerm(t)
        /\ Stepped(bs, j, of, 0) = bs /\ \A d \in Steps : Stepped(bs, j, of, d) \in [1..n -> Balls]
    BY PackingIs
  <2> HIDE DEF L, t
  <2> QED
    BY <2>1, <2>2, <2>3, LossIs
<1>2. TwiceGrad("surface", t, of) = 2 * SurfacePart(x, bs, j, of)
  <2>1. SurfaceGrad(p, bs, j)[of] = SurfacePart(x, bs, j, of)
    BY <1>1, SurfaceOfOne
  <2> QED
    BY <2>1, GradIs DEF TwiceGrad, Term
<1>3. \A d \in Steps : L(d) = Dist(MinGap(x, Stepped(bs, j, of, d)), 0)
  BY <1>1, SurfaceOfOne
<1>4. PICK g, m, up, down : GapsAlong(x, bs, j, of, g, m, up, down)
  BY GapsMoveAlong DEF Coordinates
<1> DEFINE F(y) == SizeAt(y, m)
<1>5. /\ L(1) = F(g + up * 1) /\ L(2) = F(g + up * 2) /\ L(0) = F(g)
      /\ L(-1) = F(g + down * 1) /\ L(-2) = F(g + down * 2)
  <2> HIDE DEF L
  <2> QED
    BY <1>1, <1>3, <1>4, GapsAt, StepsAre DEF SizeAt
<1>6. /\ TwiceSlope("surface", t, of, 1) = Slope(1, L(1), L(0), L(2))
      /\ TwiceSlope("surface", t, of, -1) = Slope(-1, L(-1), L(0), L(-2))
  <2> HIDE DEF t
  <2> QED
    BY <1>1, SlopeAt
<1> DEFINE along == Towards(bs[j], x, of)
           mine == Nearest(x, bs) = j
<1>7. /\ g \in Fours /\ m \in Fours /\ up \in {-1, 1} /\ down \in {-1, 1} /\ Bends(along, up, down)
      /\ mine \in BOOLEAN /\ (mine => g <= m) /\ (~mine => m <= g) /\ MinGap(x, bs) = Lesser(g, m)
  BY <1>4 DEF GapsAlong
<1>8. along \in {-1, 0, 1}
  BY <1>1, TowardsIs
<1>9. SurfacePart(x, bs, j, of) = SurfaceRate(mine, g, m, along)
  BY <1>7 DEF SurfacePart, SurfaceRate
<1> HIDE DEF along, mine, t
<1>10. SurfaceDerived(g, m, up, down, along, mine)
  <2>1. Bent(g, m, up, down, along, mine)
    BY <1>7, <1>8 DEF Bent
  <2> QED
    BY <2>1, SurfaceKink
<1> HIDE DEF L
<1> QED
  BY <1>2, <1>5, <1>6, <1>9, <1>10 DEF IsDerivative, t, SurfaceDerived

\* The surface gradient is derived, term by term.
LEMMA SurfaceIsDerived ==
  ASSUME NEW n \in Nat, n # 0, NEW bs \in [1..n -> FourBalls], NEW j \in 1..n, NEW of \in Coordinates,
         NEW p \in Problems
  PROVE  IsDerived("surface", Term(p, bs, j), of)
<1> DEFINE whole == Term(p, bs, j)
           S == DOMAIN p.surface
           terms == Terms("surface", whole)
           v == SurfaceParts(p, bs, j, of)
           f == [d \in Steps |-> SurfaceValues(p, Stepped(bs, j, of, d))]
<1>1. p.surface \in Seq(Fours) /\ IsFiniteSet(S)
  BY ProblemHas, SamplesAre
<1>2. /\ bs \in [1..n -> Balls] /\ whole.p = p /\ whole.bs = bs /\ whole.j = j /\ IsTerm(whole)
      /\ Stepped(bs, j, of, 0) = bs /\ \A d \in Steps : Stepped(bs, j, of, d) \in [1..n -> Balls]
      /\ \A d \in Steps : At("surface", whole, of, d) = Surface(p, Stepped(bs, j, of, d))
  BY PackingIs, LossIs
<1>3. terms = [s \in S |-> Term(OneSurface(p, s), bs, j)]
  <2> HIDE DEF whole
  <2> QED
    BY <1>2 DEF Terms
<1>4. \A s \in S : /\ terms[s] = Term(OneSurface(p, s), bs, j)
                   /\ terms[s].p = OneSurface(p, s) /\ terms[s].bs = bs /\ terms[s].j = j
                   /\ IsTerm(terms[s])
                   /\ \A d \in Steps : At("surface", terms[s], of, d)
                                         = Surface(OneSurface(p, s), Stepped(bs, j, of, d))
  BY <1>3, PackingIs, LossIs
<1>5. \A s \in S : /\ p.surface[s] \in Fours /\ OneSurface(p, s) \in Problems
                   /\ DOMAIN OneSurface(p, s).surface = {1} /\ OneSurface(p, s).surface[1] = p.surface[s]
  BY OneSurfaceIs, OneIs
<1> HIDE DEF terms
<1>6. TermsAreDerived("surface", whole, of)
  <2>1. \A s \in S : IsDerivative("surface", terms[s], of)
    BY <1>4, <1>5, SurfaceTerm
  <2> QED
    BY <1>3, <2>1 DEF TermsAreDerived, terms
<1>7. v \in [S -> Int] /\ SurfaceGrad(p, bs, j)[of] = SumFunction(v)
  BY <1>1, <1>2, SurfaceGradIs
<1>8. \A s \in S : SurfaceGrad(OneSurface(p, s), bs, j)[of] = v[s]
  BY <1>2, <1>5, SurfaceOfOne DEF SurfaceParts
<1>9. GradSums("surface", whole, terms, of, v)
  <2> HIDE DEF v, whole
  <2> QED
    <3>1. SurfaceGrad(whole.p, whole.bs, whole.j)[of] = SumFunction(v)
      BY <1>2, <1>7
    <3>2. \A s \in S : SurfaceGrad(terms[s].p, terms[s].bs, terms[s].j)[of] = v[s]
      BY <1>4, <1>8
    <3>3. S = DOMAIN terms
      BY <1>3
    <3> QED
      BY <3>1, <3>2, <3>3, GradIs DEF GradSums
<1>10. \A d \in Steps : /\ f[d] \in [S -> Int]
                        /\ Surface(p, Stepped(bs, j, of, d)) = SumFunction(f[d])
                        /\ SumFunction(f[d]) \in Int
                        /\ \A s \in S : Surface(OneSurface(p, s), Stepped(bs, j, of, d)) = f[d][s]
  <2> SUFFICES ASSUME NEW d \in Steps
               PROVE  /\ f[d] \in [S -> Int]
                      /\ Surface(p, Stepped(bs, j, of, d)) = SumFunction(f[d])
                      /\ SumFunction(f[d]) \in Int
                      /\ \A s \in S : Surface(OneSurface(p, s), Stepped(bs, j, of, d)) = f[d][s]
    OBVIOUS
  <2> DEFINE cs == Stepped(bs, j, of, d)
  <2>1. f[d] = SurfaceValues(p, cs) /\ cs \in [1..n -> Balls]
    BY <1>2
  <2> HIDE DEF f, cs
  <2>2. f[d] \in [S -> Int] /\ Surface(p, cs) = SumFunction(f[d])
    BY <1>1, <2>1, SurfaceIs
  <2>3. SumFunction(f[d]) \in Int
    BY <1>1, <2>2, SplitSum
  <2>4. \A s \in S : Surface(OneSurface(p, s), cs) = f[d][s]
    BY <1>5, <2>1, SurfaceOfOne DEF SurfaceValues
  <2> QED
    BY <2>2, <2>3, <2>4 DEF cs
<1>11. f \in [Steps -> [S -> Int]]
  BY <1>10
<1> HIDE DEF f, v
<1>12. LossSums("surface", whole, terms, of, f, 0)
  <2>1. \A d \in Steps : At("surface", whole, of, d) = Plus(0, f[d])
    BY <1>2, <1>10 DEF Plus
  <2> QED
    BY <1>3, <1>4, <1>10, <2>1 DEF LossSums
<1>13. Splits("surface", whole, terms, of, v, 0, f)
  BY <1>1, <1>2, <1>3, <1>4, <1>6, <1>7, <1>9, <1>11, <1>12 DEF Splits, terms
<1> HIDE DEF whole
<1> QED
  BY <1>13, DerivedIf DEF whole
-----------------------------------------------------------------------------
(***************************************************************************)
(* Where no two gaps are equal the nearest sphere stays the nearest.       *)
(***************************************************************************)
Apart(x, bs) == \A i, k \in DOMAIN bs : i # k => Gap(x, bs[i]) # Gap(x, bs[k])
GapsStep(x, b, of, g, up, down) ==
  /\ g = Gap(x, b) /\ g \in Fours /\ g \in Int /\ up \in {-1, 1} /\ down \in {-1, 1}
  /\ Bends(Towards(b, x, of), up, down)
  /\ Gap(x, Shifted(b, of, 0)) = g
  /\ Gap(x, Shifted(b, of, 1)) = g + up /\ Gap(x, Shifted(b, of, 2)) = g + 2 * up
  /\ Gap(x, Shifted(b, of, -1)) = g + down /\ Gap(x, Shifted(b, of, -2)) = g + 2 * down

\* Every sphere has such steps.
LEMMA GapStepsIs ==
  ASSUME NEW x \in Fours, NEW b \in FourBalls, NEW of \in Coordinates
  PROVE  \E g, up, down : GapsStep(x, b, of, g, up, down)
<1> DEFINE g == Gap(x, b)
<1>1. g \in Fours /\ g \in Int
  BY GapMoves, FoursAre DEF Coordinates
<1>2. PICK up \in {-1, 1}, down \in {-1, 1} :
              /\ Bends(Towards(b, x, of), up, down)
              /\ \A h \in {0, 1, 2} : /\ Gap(x, Shifted(b, of, h)) = Gap(x, b) + up * h
                                      /\ Gap(x, Shifted(b, of, -h)) = Gap(x, b) + down * h
  BY GapMoves DEF Coordinates
<1>3. /\ Gap(x, Shifted(b, of, 0)) = g + up * 0
      /\ Gap(x, Shifted(b, of, 1)) = g + up * 1 /\ Gap(x, Shifted(b, of, 2)) = g + up * 2
      /\ Gap(x, Shifted(b, of, -1)) = g + down * 1 /\ Gap(x, Shifted(b, of, -2)) = g + down * 2
  BY <1>2
<1> HIDE DEF g
<1>4. /\ g + up * 0 = g /\ g + up * 1 = g + up /\ g + up * 2 = g + 2 * up
      /\ g + down * 1 = g + down /\ g + down * 2 = g + 2 * down
  BY <1>1
<1>5. GapsStep(x, b, of, g, up, down)
  BY <1>1, <1>2, <1>3, <1>4 DEF GapsStep, g
<1> QED
  BY <1>5

\* No step changes a gap by more than two.
LEMMA GapsNear ==
  ASSUME NEW x \in Fours, NEW b \in FourBalls, NEW of \in Coordinates, NEW d \in Steps
  PROVE  /\ Gap(x, b) \in Fours /\ Gap(x, b) \in Int /\ Gap(x, Shifted(b, of, d)) \in Int
         /\ Gap(x, b) - 2 <= Gap(x, Shifted(b, of, d)) /\ Gap(x, Shifted(b, of, d)) <= Gap(x, b) + 2
<1>1. PICK g, up, down : GapsStep(x, b, of, g, up, down)
  BY GapStepsIs
<1>2. /\ g = Gap(x, b) /\ g \in Fours /\ g \in Int /\ up \in {-1, 1} /\ down \in {-1, 1}
      /\ Gap(x, Shifted(b, of, 0)) = g
      /\ Gap(x, Shifted(b, of, 1)) = g + up /\ Gap(x, Shifted(b, of, 2)) = g + 2 * up
      /\ Gap(x, Shifted(b, of, -1)) = g + down /\ Gap(x, Shifted(b, of, -2)) = g + 2 * down
  BY <1>1 DEF GapsStep
<1>3. /\ g - 2 <= g /\ g <= g + 2 /\ g + up \in Int /\ g + down \in Int
      /\ g - 2 <= g + up /\ g + up <= g + 2 /\ g - 2 <= g + 2 * up /\ g + 2 * up <= g + 2
      /\ g - 2 <= g + down /\ g + down <= g + 2 /\ g - 2 <= g + 2 * down /\ g + 2 * down <= g + 2
      /\ g + 2 * up \in Int /\ g + 2 * down \in Int
  BY <1>2
<1>4. d = 0 \/ d = 1 \/ d = 2 \/ d = -1 \/ d = -2
  BY DEF Steps
<1> QED
  BY <1>2, <1>3, <1>4

\* Where no two spheres are equally near, the nearest stays so for two steps.
LEMMA NearestStays ==
  ASSUME NEW n \in Nat, n # 0, NEW bs \in [1..n -> FourBalls], NEW j \in 1..n, NEW of \in Coordinates,
         NEW x \in Fours, Apart(x, bs), NEW d \in Steps
  PROVE  /\ Nearest(x, Stepped(bs, j, of, d)) = Nearest(x, bs)
         /\ MinGap(x, Stepped(bs, j, of, d)) = Gap(x, Stepped(bs, j, of, d)[Nearest(x, bs)])
         /\ Nearest(x, bs) \in 1..n
<1> DEFINE cs == Stepped(bs, j, of, d)
           near == Nearest(x, bs)
<1>1. x \in Int /\ bs \in [1..n -> Balls] /\ cs \in [1..n -> Balls]
  BY FoursAre, PackingIs
<1>2. near \in 1..n /\ Gap(x, bs[near]) = MinGap(x, bs)
  BY <1>1, NearestIs
<1>3. \A i \in 1..n : cs[i] = IF i = j THEN Shifted(bs[j], of, d) ELSE bs[i]
  BY <1>1 DEF Stepped, Replaced
<1>4. \A i \in 1..n : /\ Gap(x, bs[i]) \in Fours /\ Gap(x, bs[i]) \in Int
                      /\ Gap(x, cs[i]) \in Int
                      /\ Gap(x, bs[i]) - 2 <= Gap(x, cs[i]) /\ Gap(x, cs[i]) <= Gap(x, bs[i]) + 2
                      /\ i # j => Gap(x, cs[i]) = Gap(x, bs[i])
  <2> SUFFICES ASSUME NEW i \in 1..n
               PROVE  /\ Gap(x, bs[i]) \in Fours /\ Gap(x, bs[i]) \in Int
                      /\ Gap(x, cs[i]) \in Int
                      /\ Gap(x, bs[i]) - 2 <= Gap(x, cs[i]) /\ Gap(x, cs[i]) <= Gap(x, bs[i]) + 2
                      /\ i # j => Gap(x, cs[i]) = Gap(x, bs[i])
    OBVIOUS
  <2>1. bs[i] \in FourBalls
    OBVIOUS
  <2>2. Gap(x, bs[i]) \in Fours /\ Gap(x, bs[i]) \in Int
    BY <2>1, GapsNear
  <2> HIDE DEF cs
  <2>3. CASE i = j
    <3>1. cs[i] = Shifted(bs[i], of, d)
      BY <1>3, <2>3
    <3> QED
      BY <2>1, <2>3, <3>1, GapsNear
  <2>4. CASE i # j
    <3>1. cs[i] = bs[i]
      BY <1>3, <2>4
    <3> QED
      BY <2>2, <2>4, <3>1
  <2> QED
    BY <2>3, <2>4
<1>5. \A i \in 1..n : i # near => Gap(x, bs[near]) + 4 <= Gap(x, bs[i])
  <2> SUFFICES ASSUME NEW i \in 1..n, i # near PROVE Gap(x, bs[near]) + 4 <= Gap(x, bs[i])
    OBVIOUS
  <2>1. Gap(x, bs[near]) # Gap(x, bs[i])
    BY <1>1, <1>2 DEF Apart
  <2>2. Gap(x, bs[near]) <= Gap(x, bs[i])
    BY <1>1, <1>2, MinGapIs
  <2>3. PICK a \in Int, b \in Int : Gap(x, bs[near]) = 4 * a /\ Gap(x, bs[i]) = 4 * b
    BY <1>2, <1>4 DEF Fours
  <2> QED
    BY <2>1, <2>2, <2>3
<1>6. Nearest(x, cs) \in 1..n /\ Gap(x, cs[Nearest(x, cs)]) = MinGap(x, cs)
  BY <1>1, NearestIs
<1>7. Nearest(x, cs) = near
  <2> SUFFICES ASSUME Nearest(x, cs) # near PROVE FALSE
    OBVIOUS
  <2> DEFINE k == Nearest(x, cs)
  <2>1. k \in 1..n /\ k # near /\ Gap(x, cs[k]) <= Gap(x, cs[near])
    BY <1>1, <1>2, <1>6, MinGapIs
  <2> HIDE DEF k, cs, near
  <2>2. Gap(x, bs[near]) + 4 <= Gap(x, bs[k])
    BY <1>5, <2>1
  <2>3. near \in 1..n
    BY <1>2
  <2> DEFINE a == Gap(x, bs[near])
             b == Gap(x, bs[k])
             u == Gap(x, cs[near])
             w == Gap(x, cs[k])
  <2>4. /\ a \in Int /\ b \in Int /\ u \in Int /\ w \in Int
        /\ b - 2 <= w /\ u <= a + 2
    BY <1>4, <2>1, <2>3
  <2>5. w = b \/ u = a
    BY <1>4, <2>1, <2>3
  <2>6. a + 4 <= b /\ w <= u
    BY <2>1, <2>2
  <2> HIDE DEF a, b, u, w
  <2> QED
    BY <2>4, <2>5, <2>6
<1> QED
  BY <1>2, <1>6, <1>7
-----------------------------------------------------------------------------
(***************************************************************************)
(* Sqem: one term for each surface sample.                                 *)
(***************************************************************************)
SignedAt(x, normal, bs) ==
  LET b == bs[Nearest(x, bs)] IN (x - b.center) * normal - b.radius
Square(x) == x * x
SqemPart(x, normal, bs, j, of) ==
  IF Nearest(x, bs) = j
  THEN IF of = "center" THEN -2 * SignedAt(x, normal, bs) * normal ELSE -2 * SignedAt(x, normal, bs)
  ELSE 0
SqemParts(p, bs, j, of) ==
  [s \in DOMAIN p.surface |-> SqemPart(p.surface[s], p.normals[s], bs, j, of)]
SqemValues(p, cs) ==
  [s \in DOMAIN p.surface |-> Square(SignedAt(p.surface[s], p.normals[s], cs))]

\* The distance along the normal is an integer.
LEMMA SignedIs ==
  ASSUME NEW n \in Nat, n # 0, NEW bs \in [1..n -> Balls], NEW x \in Int, NEW normal \in {-1, 1}
  PROVE  SignedAt(x, normal, bs) \in Int
<1> DEFINE b == bs[Nearest(x, bs)]
<1>1. b \in Balls
  BY NearestIs
<1>2. b.center \in Int /\ b.radius \in Int
  BY <1>1 DEF Balls
<1>3. SignedAt(x, normal, bs) = (x - b.center) * normal - b.radius
  BY DEF SignedAt
<1> HIDE DEF b
<1>4. (x - b.center) * normal - b.radius \in Int
  BY <1>2
<1> QED
  BY <1>3, <1>4

\* The surface samples of a problem.
LEMMA SurfaceHas ==
  ASSUME NEW p \in Problems
  PROVE  /\ IsFiniteSet(DOMAIN p.surface)
         /\ \A s \in DOMAIN p.surface : p.surface[s] \in Fours /\ p.surface[s] \in Int /\ p.normals[s] \in {-1, 1}
BY OneSurfaceIs, ProblemHas, SamplesAre, FoursAre

\* Products with a normal are integers.
LEMMA TwiceSigned ==
  ASSUME NEW x \in Int, NEW normal \in {-1, 1}
  PROVE  -2 * x \in Int /\ -2 * x * normal \in Int /\ x * x \in Int
<1>1. -2 * x \in Int
  OBVIOUS
<1>2. \A y \in Int : y * normal \in Int /\ y * y \in Int
  OBVIOUS
<1> QED
  BY <1>1, <1>2

\* The gradient as a sum over all samples.
LEMMA SqemGradIs ==
  ASSUME NEW n \in Nat, n # 0, NEW bs \in [1..n -> Balls], NEW j \in 1..n, NEW of \in Coordinates,
         NEW p \in Problems
  PROVE  /\ SqemParts(p, bs, j, of) \in [DOMAIN p.surface -> Int]
         /\ SqemGrad(p, bs, j)[of] = SumFunction(SqemParts(p, bs, j, of))
<1> DEFINE S == DOMAIN p.surface
           T == Own(p.surface, bs, j)
           c == [s \in T |-> -2 * Signed(p, bs, s) * p.normals[s]]
           r == [s \in T |-> -2 * Signed(p, bs, s)]
           h == SqemParts(p, bs, j, of)
<1>1. IsFiniteSet(S) /\ \A s \in S : p.surface[s] \in Int /\ p.normals[s] \in {-1, 1}
  BY SurfaceHas
<1>2. \A s \in S : /\ Signed(p, bs, s) = SignedAt(p.surface[s], p.normals[s], bs)
                   /\ Signed(p, bs, s) \in Int
  BY <1>1, SignedIs DEF Signed, SignedAt
<1>3. T \in SUBSET S /\ \A s \in S : s \in T <=> Nearest(p.surface[s], bs) = j
  BY DEF Own
<1>4. \A s \in T : c[s] \in Int /\ r[s] \in Int
  BY <1>1, <1>2, <1>3, TwiceSigned
<1>5. c \in [T -> Int] /\ r \in [T -> Int]
  BY <1>4
<1>6. SqemGrad(p, bs, j) = Ball(SumFunction(c), SumFunction(r))
  BY DEF SqemGrad
<1>7. \A s \in S : h[s] = IF s \in T THEN IF of = "center" THEN c[s] ELSE r[s] ELSE 0
  BY <1>2, <1>3 DEF SqemParts, SqemPart
<1>8. h = [s \in S |-> IF s \in T THEN IF of = "center" THEN c[s] ELSE r[s] ELSE 0]
  <2> HIDE DEF c, r
  <2> QED
    BY <1>7 DEF SqemParts
<1> HIDE DEF h, T, c, r
<1>9. CASE of = "center"
  <2>1. ZeroElsewhere(S, T, c, h)
    BY <1>1, <1>3, <1>5, <1>8, <1>9 DEF ZeroElsewhere
  <2>2. SqemGrad(p, bs, j)[of] = SumFunction(c)
    BY <1>6, <1>9, BallAt
  <2> HIDE DEF S
  <2> QED
    BY <2>1, <2>2, SumZeroElsewhere DEF h, S
<1>10. CASE of = "radius"
  <2>1. ZeroElsewhere(S, T, r, h)
    BY <1>1, <1>3, <1>5, <1>8, <1>10 DEF ZeroElsewhere
  <2>2. SqemGrad(p, bs, j)[of] = SumFunction(r)
    BY <1>6, <1>10, BallAt
  <2> HIDE DEF S
  <2> QED
    BY <2>1, <2>2, SumZeroElsewhere DEF h, S
<1> QED
  BY <1>9, <1>10 DEF Coordinates

\* The loss as a sum over all samples.
LEMMA SqemIs ==
  ASSUME NEW n \in Nat, n # 0, NEW cs \in [1..n -> Balls], NEW p \in Problems
  PROVE  /\ SqemValues(p, cs) \in [DOMAIN p.surface -> Int]
         /\ Sqem(p, cs) = SumFunction(SqemValues(p, cs))
<1>1. \A s \in DOMAIN p.surface : p.surface[s] \in Int /\ p.normals[s] \in {-1, 1}
  BY SurfaceHas
<1>2. \A s \in DOMAIN p.surface : /\ Signed(p, cs, s) = SignedAt(p.surface[s], p.normals[s], cs)
                                  /\ SignedAt(p.surface[s], p.normals[s], cs) \in Int
  BY <1>1, SignedIs DEF Signed, SignedAt
<1>3. \A s \in DOMAIN p.surface : Square(SignedAt(p.surface[s], p.normals[s], cs)) \in Int
  BY <1>2, IntegersAre DEF Square
<1>4. SqemValues(p, cs) = [s \in DOMAIN p.surface |-> Signed(p, cs, s) * Signed(p, cs, s)]
  BY <1>2 DEF SqemValues, Square
<1> QED
  BY <1>3, <1>4 DEF Sqem, SqemValues

\* Both for one sample.
LEMMA SqemOfOne ==
  ASSUME NEW n \in Nat, n # 0, NEW bs \in [1..n -> Balls], NEW j \in 1..n, NEW of \in Coordinates,
         NEW p \in Problems, NEW x, NEW normal
  PROVE  DOMAIN p.surface = {1} /\ p.surface[1] = x /\ p.normals[1] = normal =>
           /\ SqemGrad(p, bs, j)[of] = SqemPart(x, normal, bs, j, of)
           /\ Sqem(p, bs) = Square(SignedAt(x, normal, bs))
<1>1. /\ SqemParts(p, bs, j, of) \in [DOMAIN p.surface -> Int]
      /\ SqemGrad(p, bs, j)[of] = SumFunction(SqemParts(p, bs, j, of))
  BY SqemGradIs
<1>2. /\ SqemValues(p, bs) \in [DOMAIN p.surface -> Int]
      /\ Sqem(p, bs) = SumFunction(SqemValues(p, bs))
  BY SqemIs
<1> HAVE DOMAIN p.surface = {1} /\ p.surface[1] = x /\ p.normals[1] = normal
<1>3. SqemParts(p, bs, j, of)[1] = SqemPart(x, normal, bs, j, of)
  BY DEF SqemParts
<1>4. SqemValues(p, bs)[1] = Square(SignedAt(x, normal, bs))
  BY DEF SqemValues
<1> QED
  BY <1>1, <1>2, <1>3, <1>4, SumOfOne
-----------------------------------------------------------------------------
SignedSteps(x, normal, bs, j, of, z, w) ==
  /\ z \in Int /\ w \in {-1, 0, 1} /\ z = SignedAt(x, normal, bs)
  /\ SqemPart(x, normal, bs, j, of) = 2 * (z * w)
  /\ SignedAt(x, normal, Stepped(bs, j, of, 0)) = z
  /\ SignedAt(x, normal, Stepped(bs, j, of, 1)) = z + w
  /\ SignedAt(x, normal, Stepped(bs, j, of, 2)) = z + 2 * w
  /\ SignedAt(x, normal, Stepped(bs, j, of, -1)) = z - w
  /\ SignedAt(x, normal, Stepped(bs, j, of, -2)) = z - 2 * w

\* Along every coordinate the signed distance goes straight.
LEMMA SignedStepsIs ==
  ASSUME NEW n \in Nat, n # 0, NEW bs \in [1..n -> FourBalls], NEW j \in 1..n, NEW of \in Coordinates,
         NEW x \in Fours, Apart(x, bs), NEW normal \in {-1, 1}
  PROVE  \E z, w : SignedSteps(x, normal, bs, j, of, z, w)
<1> DEFINE near == Nearest(x, bs)
           cs(d) == Stepped(bs, j, of, d)
           z == SignedAt(x, normal, bs)
           w == IF near = j THEN IF of = "center" THEN 0 - normal ELSE -1 ELSE 0
<1>1. x \in Int /\ bs \in [1..n -> Balls] /\ near \in 1..n /\ bs[near] \in Balls
  BY FoursAre, PackingIs, NearestIs
<1>2. PICK c \in Int, r \in Int : bs[near] = Ball(c, r)
  BY <1>1 DEF Balls, Ball
<1>3. z = (x - c) * normal - r
  BY <1>2, BallHas DEF SignedAt
<1>4. z \in Int /\ w \in {-1, 0, 1}
  BY <1>1, SignedIs
<1>5. ASSUME NEW d \in Steps
      PROVE  SignedAt(x, normal, cs(d))
               = IF near = j THEN IF of = "center" THEN (x - (c + d)) * normal - r
                                  ELSE (x - c) * normal - (r + d)
                 ELSE z
  <2>1. Nearest(x, cs(d)) = near /\ d \in Int
    BY NearestStays, StepsAre
  <2>2. SignedAt(x, normal, cs(d)) = (x - cs(d)[near].center) * normal - cs(d)[near].radius
    BY <2>1 DEF SignedAt
  <2>3. cs(d)[near] = IF near = j THEN Shifted(bs[near], of, d) ELSE bs[near]
    BY <1>1 DEF Stepped, Replaced
  <2> HIDE DEF cs
  <2>4. CASE near # j
    <3>1. cs(d)[near].center = c /\ cs(d)[near].radius = r
      BY <1>2, <2>3, <2>4, BallHas
    <3> QED
      BY <1>3, <2>2, <2>4, <3>1
  <2>5. CASE near = j /\ of = "center"
    <3>1. cs(d)[near] = Ball(c + d, r)
      <4>1. Shifted(bs[near], "center", d) = Ball(bs[near].center + d, bs[near].radius)
        BY <1>1, <2>1, ShiftedIs
      <4> QED
        BY <1>2, <2>3, <2>5, <4>1, BallHas
    <3>2. cs(d)[near].center = c + d /\ cs(d)[near].radius = r
      BY <3>1, BallHas
    <3> QED
      BY <2>2, <2>5, <3>2
  <2>6. CASE near = j /\ of = "radius"
    <3>1. cs(d)[near] = Ball(c, r + d)
      <4>1. Shifted(bs[near], "radius", d) = Ball(bs[near].center, bs[near].radius + d)
        BY <1>1, <2>1, ShiftedIs
      <4> QED
        BY <1>2, <2>3, <2>6, <4>1, BallHas
    <3>2. cs(d)[near].center = c /\ cs(d)[near].radius = r + d
      BY <3>1, BallHas
    <3> QED
      BY <2>2, <2>6, <3>2
  <2> QED
    BY <2>4, <2>5, <2>6 DEF Coordinates
<1>6. ASSUME NEW d \in Steps PROVE SignedAt(x, normal, cs(d)) = z + d * w
  <2>1. d \in Int
    BY StepsAre
  <2> DEFINE y == SignedAt(x, normal, cs(d))
  <2>2. y = IF near = j THEN IF of = "center" THEN (x - (c + d)) * normal - r
                             ELSE (x - c) * normal - (r + d)
            ELSE z
    BY <1>5
  <2> HIDE DEF y, near, z
  <2>3. CASE near # j
    <3>1. w = 0 /\ y = z /\ d * 0 = 0
      BY <2>1, <2>2, <2>3
    <3> QED
      BY <1>4, <3>1 DEF y
  <2>4. CASE near = j /\ of = "center" /\ normal = 1
    <3>1. y = (x - (c + d)) * 1 - r /\ z = (x - c) * 1 - r /\ w = -1
      BY <1>3, <2>2, <2>4
    <3>2. y = z + d * (-1)
      BY <1>1, <2>1, <3>1
    <3> QED
      BY <3>1, <3>2 DEF y
  <2>5. CASE near = j /\ of = "center" /\ normal = -1
    <3>1. y = (x - (c + d)) * (-1) - r /\ z = (x - c) * (-1) - r /\ w = 1
      BY <1>3, <2>2, <2>5
    <3>2. y = z + d * 1
      BY <1>1, <2>1, <3>1
    <3> QED
      BY <3>1, <3>2 DEF y
  <2>6. CASE near = j /\ of # "center"
    <3>1. y = (x - c) * normal - (r + d) /\ z = (x - c) * normal - r /\ w = -1
      BY <1>3, <2>2, <2>6
    <3>2. (x - c) * normal \in Int
      BY <1>1
    <3>3. y = z + d * (-1)
      BY <2>1, <3>1, <3>2
    <3> QED
      BY <3>1, <3>3 DEF y
  <2> QED
    BY <2>3, <2>4, <2>5, <2>6
<1>7. SqemPart(x, normal, bs, j, of) = 2 * (z * w)
  <2>1. SqemPart(x, normal, bs, j, of)
          = IF near = j THEN IF of = "center" THEN -2 * z * normal ELSE -2 * z ELSE 0
    BY DEF SqemPart
  <2> HIDE DEF near, z
  <2>2. CASE near # j
    BY <1>4, <2>1, <2>2
  <2>3. CASE near = j /\ of = "center" /\ normal = 1
    <3>1. w = -1
      BY <2>3
    <3> QED
      BY <1>4, <2>1, <2>3, <3>1
  <2>4. CASE near = j /\ of = "center" /\ normal = -1
    <3>1. w = 1
      BY <2>4
    <3>2. -2 * z * (-1) = 2 * (z * 1)
      BY <1>4
    <3> QED
      BY <2>1, <2>4, <3>1, <3>2
  <2>5. CASE near = j /\ of # "center"
    <3>1. w = -1
      BY <2>5
    <3>2. -2 * z = 2 * (z * (-1))
      BY <1>4
    <3> QED
      BY <2>1, <2>5, <3>1, <3>2
  <2> QED
    BY <2>2, <2>3, <2>4, <2>5
<1>8. /\ SignedAt(x, normal, cs(0)) = z + 0 * w /\ SignedAt(x, normal, cs(1)) = z + 1 * w
      /\ SignedAt(x, normal, cs(2)) = z + 2 * w /\ SignedAt(x, normal, cs(-1)) = z + (-1) * w
      /\ SignedAt(x, normal, cs(-2)) = z + (-2) * w
  <2> HIDE DEF cs, z, w
  <2> QED
    BY <1>6, StepsAre
<1>9. z + 0 * w = z /\ z + 1 * w = z + w /\ z + (-1) * w = z - w /\ z + (-2) * w = z - 2 * w
  <2> HIDE DEF w, z
  <2> QED
    BY <1>4
<1>10. SignedSteps(x, normal, bs, j, of, z, w)
  <2> HIDE DEF w, z, cs
  <2> QED
    BY <1>4, <1>7, <1>8, <1>9 DEF SignedSteps, z, cs
<1> QED
  BY <1>10

\* The slopes of a square, to both sides.
LEMMA SquaresSlope ==
  ASSUME NEW z \in Int, NEW w \in {-1, 0, 1}
  PROVE  /\ Slope(1, Square(z + w), Square(z), Square(z + 2 * w)) = 4 * (z * w)
         /\ Slope(-1, Square(z - w), Square(z), Square(z - 2 * w)) = 4 * (z * w)
<1>1. CASE w = 0
  BY <1>1 DEF Slope, Square
<1>2. CASE w = 1
  BY <1>2 DEF Slope, Square
<1>3. CASE w = -1
  BY <1>3 DEF Slope, Square
<1> QED
  BY <1>1, <1>2, <1>3

\* The gradient at one sample is the derivative, or two spheres are tied there.
LEMMA SqemTerm ==
  ASSUME NEW n \in Nat, n # 0, NEW bs \in [1..n -> FourBalls], NEW j \in 1..n, NEW of \in Coordinates,
         NEW p \in Problems, NEW x \in Fours, NEW normal \in {-1, 1},
         DOMAIN p.surface = {1}, p.surface[1] = x, p.normals[1] = normal
  PROVE  IsDerivative("sqem", Term(p, bs, j), of) \/ Tied(Term(p, bs, j))
<1> DEFINE t == Term(p, bs, j)
           L(d) == At("sqem", t, of, d)
<1> SUFFICES ASSUME ~Tied(t) PROVE IsDerivative("sqem", t, of)
  OBVIOUS
<1>1. Apart(x, bs)
  BY DEF Tied, Term, Apart
<1>2. /\ bs \in [1..n -> Balls] /\ IsTerm(t) /\ \A d \in Steps : L(d) = Sqem(p, Stepped(bs, j, of, d))
      /\ Stepped(bs, j, of, 0) = bs /\ \A d \in Steps : Stepped(bs, j, of, d) \in [1..n -> Balls]
  <2>1. \A d : L(d) = Loss("sqem", p, Stepped(bs, j, of, d))
    BY PackingIs
  <2>2. /\ bs \in [1..n -> Balls] /\ bs[j] \in Balls /\ IsTerm(t)
        /\ Stepped(bs, j, of, 0) = bs /\ \A d \in Steps : Stepped(bs, j, of, d) \in [1..n -> Balls]
    BY PackingIs
  <2> HIDE DEF L, t
  <2> QED
    BY <2>1, <2>2, LossIs
<1>3. TwiceGrad("sqem", t, of) = 2 * SqemPart(x, normal, bs, j, of)
  <2>1. SqemGrad(p, bs, j)[of] = SqemPart(x, normal, bs, j, of)
    BY <1>2, SqemOfOne
  <2> QED
    BY <2>1, GradIs DEF TwiceGrad, Term
<1>4. \A d \in Steps : L(d) = Square(SignedAt(x, normal, Stepped(bs, j, of, d)))
  BY <1>2, SqemOfOne
<1>5. PICK z, w : SignedSteps(x, normal, bs, j, of, z, w)
  BY <1>1, SignedStepsIs
<1>6. z \in Int /\ w \in {-1, 0, 1} /\ SqemPart(x, normal, bs, j, of) = 2 * (z * w)
  BY <1>5 DEF SignedSteps
<1>7. /\ L(0) = Square(z) /\ L(1) = Square(z + w) /\ L(2) = Square(z + 2 * w)
      /\ L(-1) = Square(z - w) /\ L(-2) = Square(z - 2 * w)
  <2> HIDE DEF L
  <2> QED
    BY <1>4, <1>5, StepsAre DEF SignedSteps
<1>8. /\ TwiceSlope("sqem", t, of, 1) = Slope(1, L(1), L(0), L(2))
      /\ TwiceSlope("sqem", t, of, -1) = Slope(-1, L(-1), L(0), L(-2))
  <2> HIDE DEF t
  <2> QED
    BY <1>2, SlopeAt
<1>9. TwiceSlope("sqem", t, of, 1) = 4 * (z * w) /\ TwiceSlope("sqem", t, of, -1) = 4 * (z * w)
  <2> HIDE DEF t, L
  <2> QED
    BY <1>6, <1>7, <1>8, SquaresSlope
<1>10. TwiceGrad("sqem", t, of) = 4 * (z * w) /\ 4 * (z * w) \in Int
  <2>1. z * w \in Int
    BY <1>6
  <2> QED
    BY <1>3, <1>6, <2>1
<1> HIDE DEF t
<1> QED
  BY <1>9, <1>10 DEF IsDerivative, Between

\* The sqem gradient is derived, term by term.
LEMMA SqemIsDerived ==
  ASSUME NEW n \in Nat, n # 0, NEW bs \in [1..n -> FourBalls], NEW j \in 1..n, NEW of \in Coordinates,
         NEW p \in Problems
  PROVE  IsDerived("sqem", Term(p, bs, j), of)
<1> DEFINE whole == Term(p, bs, j)
           S == DOMAIN p.surface
           terms == Terms("sqem", whole)
           v == SqemParts(p, bs, j, of)
           f == [d \in Steps |-> SqemValues(p, Stepped(bs, j, of, d))]
<1>1. p.surface \in Seq(Fours) /\ IsFiniteSet(S)
  BY ProblemHas, SamplesAre
<1>2. /\ bs \in [1..n -> Balls] /\ whole.p = p /\ whole.bs = bs /\ whole.j = j /\ IsTerm(whole)
      /\ Stepped(bs, j, of, 0) = bs /\ \A d \in Steps : Stepped(bs, j, of, d) \in [1..n -> Balls]
      /\ \A d \in Steps : At("sqem", whole, of, d) = Sqem(p, Stepped(bs, j, of, d))
  BY PackingIs, LossIs
<1>3. terms = [s \in S |-> Term(OneSurface(p, s), bs, j)]
  <2> HIDE DEF whole
  <2> QED
    BY <1>2 DEF Terms
<1>4. \A s \in S : /\ terms[s] = Term(OneSurface(p, s), bs, j)
                   /\ terms[s].p = OneSurface(p, s) /\ terms[s].bs = bs /\ terms[s].j = j
                   /\ IsTerm(terms[s])
                   /\ \A d \in Steps : At("sqem", terms[s], of, d)
                                         = Sqem(OneSurface(p, s), Stepped(bs, j, of, d))
  BY <1>3, PackingIs, LossIs
<1>5. \A s \in S : /\ p.surface[s] \in Fours /\ OneSurface(p, s) \in Problems
                   /\ DOMAIN OneSurface(p, s).surface = {1} /\ OneSurface(p, s).surface[1] = p.surface[s]
                   /\ p.normals[s] \in {-1, 1} /\ OneSurface(p, s).normals[1] = p.normals[s]
  BY OneSurfaceIs, OneIs
<1> HIDE DEF terms
<1>6. TermsAreDerived("sqem", whole, of)
  <2>1. \A s \in S : IsDerivative("sqem", terms[s], of) \/ Tied(terms[s])
    BY <1>4, <1>5, SqemTerm
  <2> QED
    BY <1>3, <2>1 DEF TermsAreDerived, terms
<1>7. v \in [S -> Int] /\ SqemGrad(p, bs, j)[of] = SumFunction(v)
  BY <1>1, <1>2, SqemGradIs
<1>8. \A s \in S : SqemGrad(OneSurface(p, s), bs, j)[of] = v[s]
  BY <1>2, <1>5, SqemOfOne DEF SqemParts
<1>9. GradSums("sqem", whole, terms, of, v)
  <2> HIDE DEF v, whole
  <2> QED
    <3>1. SqemGrad(whole.p, whole.bs, whole.j)[of] = SumFunction(v)
      BY <1>2, <1>7
    <3>2. \A s \in S : SqemGrad(terms[s].p, terms[s].bs, terms[s].j)[of] = v[s]
      BY <1>4, <1>8
    <3>3. S = DOMAIN terms
      BY <1>3
    <3> QED
      BY <3>1, <3>2, <3>3, GradIs DEF GradSums
<1>10. \A d \in Steps : /\ f[d] \in [S -> Int]
                        /\ Sqem(p, Stepped(bs, j, of, d)) = SumFunction(f[d])
                        /\ SumFunction(f[d]) \in Int
                        /\ \A s \in S : Sqem(OneSurface(p, s), Stepped(bs, j, of, d)) = f[d][s]
  <2> SUFFICES ASSUME NEW d \in Steps
               PROVE  /\ f[d] \in [S -> Int]
                      /\ Sqem(p, Stepped(bs, j, of, d)) = SumFunction(f[d])
                      /\ SumFunction(f[d]) \in Int
                      /\ \A s \in S : Sqem(OneSurface(p, s), Stepped(bs, j, of, d)) = f[d][s]
    OBVIOUS
  <2> DEFINE cs == Stepped(bs, j, of, d)
  <2>1. f[d] = SqemValues(p, cs) /\ cs \in [1..n -> Balls]
    BY <1>2
  <2> HIDE DEF f, cs
  <2>2. f[d] \in [S -> Int] /\ Sqem(p, cs) = SumFunction(f[d])
    BY <1>1, <2>1, SqemIs
  <2>3. SumFunction(f[d]) \in Int
    BY <1>1, <2>2, SplitSum
  <2>4. \A s \in S : Sqem(OneSurface(p, s), cs) = f[d][s]
    BY <1>5, <2>1, SqemOfOne DEF SqemValues
  <2> QED
    BY <2>2, <2>3, <2>4 DEF cs
<1>11. f \in [Steps -> [S -> Int]]
  BY <1>10
<1> HIDE DEF f, v
<1>12. LossSums("sqem", whole, terms, of, f, 0)
  <2>1. \A d \in Steps : At("sqem", whole, of, d) = Plus(0, f[d])
    BY <1>2, <1>10 DEF Plus
  <2> QED
    BY <1>3, <1>4, <1>10, <2>1 DEF LossSums
<1>13. Splits("sqem", whole, terms, of, v, 0, f)
  BY <1>1, <1>2, <1>3, <1>4, <1>6, <1>7, <1>9, <1>11, <1>12 DEF Splits, terms
<1> HIDE DEF whole
<1> QED
  BY <1>13, DerivedIf DEF whole
-----------------------------------------------------------------------------
(***************************************************************************)
(* Hausdorff: the worst of the surface samples.                            *)
(***************************************************************************)
Uncovered(x, cs) == Positive(MinGap(x, cs))

\* What is not covered of a sample.
LEMMA UncoveredIs ==
  ASSUME NEW n \in Nat, n # 0, NEW cs \in [1..n -> Balls], NEW x \in Int
  PROVE  Uncovered(x, cs) \in Int /\ Uncovered(x, cs) >= 0
<1>1. MinGap(x, cs) \in Int
  BY MinGapIs
<1> QED
  BY <1>1 DEF Uncovered, Positive

\* The worst sample is one that no other exceeds.
LEMMA WorstIs ==
  ASSUME NEW n \in Nat, n # 0, NEW cs \in [1..n -> Balls], NEW p \in Problems, DOMAIN p.surface # {}
  PROVE  /\ Worst(p, cs) \in DOMAIN p.surface
         /\ \A s \in DOMAIN p.surface : Uncovered(p.surface[s], cs) <= Uncovered(p.surface[Worst(p, cs)], cs)
<1> DEFINE S == DOMAIN p.surface
           h == [s \in S |-> Uncovered(p.surface[s], cs)]
           top == Largest({h[s] : s \in S})
           worst == {s \in S : h[s] = top}
<1>1. PICK m \in Nat : S = 1..m
  BY ProblemHas, SamplesAre
<1>2. \A s \in S : h[s] \in Int
  BY SurfaceHas, UncoveredIs
<1>3. h \in [S -> Int]
  BY <1>2
<1>4. Worst(p, cs) = Smallest(worst)
  <2>1. h = [s \in S |-> Positive(MinGap(p.surface[s], cs))]
    BY DEF Uncovered
  <2>2. Range(h) = {h[s] : s \in S}
    BY DEF Range
  <2> HIDE DEF h
  <2>3. DOMAIN h = S
    BY <1>3
  <2> QED
    BY <2>1, <2>2, <2>3 DEF Worst
<1> HIDE DEF h
<1>5. top \in {h[s] : s \in S} /\ \A s \in S : top >= h[s]
  BY <1>1, <1>3, Extremes
<1> HIDE DEF top
<1>6. worst \in SUBSET (1..m) /\ worst # {}
  BY <1>1, <1>5
<1> HIDE DEF worst
<1>7. Smallest(worst) \in worst
  BY <1>6, SmallestIndex
<1>8. Worst(p, cs) \in S /\ h[Worst(p, cs)] = top
  BY <1>4, <1>7 DEF worst
<1>9. \A s \in S : h[s] = Uncovered(p.surface[s], cs)
  BY DEF h
<1> QED
  BY <1>3, <1>5, <1>8, <1>9

\* y is the largest value of f.
IsLargest(y, S, f) == (\A s \in S : f[s] <= y) /\ \E s \in S : f[s] = y

UncoveredIn(p, cs) == [s \in DOMAIN p.surface |-> Uncovered(p.surface[s], cs)]

\* The loss is the square of the largest distance.
LEMMA HausdorffIs ==
  ASSUME NEW n \in Nat, n # 0, NEW cs \in [1..n -> Balls], NEW p \in Problems, DOMAIN p.surface # {}
  PROVE  /\ UncoveredIn(p, cs) \in [DOMAIN p.surface -> Int]
         /\ Hausdorff(p, cs) \in Int
         /\ \A y \in Int : IsLargest(y, DOMAIN p.surface, UncoveredIn(p, cs)) => Hausdorff(p, cs) = Square(y)
<1> DEFINE S == DOMAIN p.surface
           u == UncoveredIn(p, cs)
           w == Worst(p, cs)
<1>1. \A s \in S : Uncovered(p.surface[s], cs) \in Int
  BY SurfaceHas, UncoveredIs
<1>2. u \in [S -> Int] /\ \A s \in S : u[s] = Uncovered(p.surface[s], cs)
  BY <1>1 DEF UncoveredIn
<1>3. w \in S /\ \A s \in S : u[s] <= u[w]
  BY <1>2, WorstIs
<1>4. Hausdorff(p, cs) = Square(u[w])
  BY <1>2, <1>3 DEF Hausdorff, Uncovered, Square
<1>5. Square(u[w]) \in Int
  BY <1>2, <1>3, IntegersAre DEF Square
<1> HIDE DEF u, w
<1>6. ASSUME NEW y \in Int, IsLargest(y, S, u) PROVE u[w] = y
  <2>1. u[w] <= y
    BY <1>3, <1>6 DEF IsLargest
  <2>2. y <= u[w]
    BY <1>3, <1>6 DEF IsLargest
  <2>3. u[w] \in Int
    BY <1>2, <1>3
  <2> QED
    BY <2>1, <2>2, <2>3
<1> QED
  BY <1>2, <1>4, <1>5, <1>6 DEF u

\* One and two steps to a side, if each value changes by its rate: so does the largest.
OneSide(S, zero, one, two, rate, top) ==
  /\ zero \in [S -> Fours] /\ rate \in [S -> {-1, 0, 1}] /\ top \in Fours
  /\ \A s \in S : one[s] = zero[s] + rate[s] /\ two[s] = zero[s] + 2 * rate[s]
  /\ IsLargest(top, S, zero)
LargestMoves(S, zero, one, two, rate, top, way) ==
  /\ way \in {-1, 0, 1}
  /\ IsLargest(top + way, S, one) /\ IsLargest(top + 2 * way, S, two)
  /\ \A s \in S : zero[s] = top => rate[s] <= way

\* The largest distance after a step is that of one sample.
LEMMA LargestMovesOne ==
  ASSUME NEW S, NEW zero, NEW one, NEW two, NEW rate, NEW top, OneSide(S, zero, one, two, rate, top)
  PROVE  \E way : LargestMoves(S, zero, one, two, rate, top, way)
<1>1. /\ zero \in [S -> Fours] /\ rate \in [S -> {-1, 0, 1}] /\ top \in Fours /\ top \in Int
      /\ \A s \in S : one[s] = zero[s] + rate[s] /\ two[s] = zero[s] + 2 * rate[s]
      /\ (\A s \in S : zero[s] <= top) /\ \E s \in S : zero[s] = top
  BY FoursAre DEF OneSide, IsLargest
<1>2. \A s \in S : zero[s] = top \/ zero[s] + 4 <= top
  <2> SUFFICES ASSUME NEW s \in S PROVE zero[s] = top \/ zero[s] + 4 <= top
    OBVIOUS
  <2>1. zero[s] \in Fours /\ zero[s] <= top
    BY <1>1
  <2>2. PICK i \in Int, k \in Int : zero[s] = 4 * i /\ top = 4 * k
    BY <1>1, <2>1 DEF Fours
  <2> QED
    BY <2>1, <2>2
<1>3. \A s \in S : zero[s] \in Int /\ rate[s] \in {-1, 0, 1}
  BY <1>1, FoursAre
<1>4. ASSUME NEW way \in {-1, 0, 1}, NEW w \in S, zero[w] = top, rate[w] = way,
             \A s \in S : zero[s] = top => rate[s] <= way
      PROVE  LargestMoves(S, zero, one, two, rate, top, way)
  <2>1. one[w] = top + way /\ two[w] = top + 2 * way
    BY <1>1, <1>4
  <2>2. ASSUME NEW s \in S PROVE one[s] <= top + way /\ two[s] <= top + 2 * way
    <3>1. one[s] = zero[s] + rate[s] /\ two[s] = zero[s] + 2 * rate[s]
      BY <1>1
    <3>2. zero[s] \in Int /\ rate[s] \in {-1, 0, 1}
      BY <1>3
    <3>3. CASE zero[s] = top
      <4>1. rate[s] <= way
        BY <1>4, <3>3
      <4> QED
        BY <1>1, <3>1, <3>2, <3>3, <4>1
    <3>4. CASE zero[s] + 4 <= top
      BY <1>1, <3>1, <3>2, <3>4
    <3> QED
      BY <1>2, <3>3, <3>4
  <2> QED
    BY <1>4, <2>1, <2>2 DEF LargestMoves, IsLargest
<1>5. CASE \E w \in S : zero[w] = top /\ rate[w] = 1
  <2>1. \A s \in S : zero[s] = top => rate[s] <= 1
    BY <1>3
  <2> QED
    BY <1>4, <1>5, <2>1
<1>6. CASE (\E w \in S : zero[w] = top /\ rate[w] = 0) /\ ~\E w \in S : zero[w] = top /\ rate[w] = 1
  <2>1. \A s \in S : zero[s] = top => rate[s] <= 0
    BY <1>3, <1>6
  <2> QED
    BY <1>4, <1>6, <2>1
<1>7. CASE (~\E w \in S : zero[w] = top /\ rate[w] = 0) /\ ~\E w \in S : zero[w] = top /\ rate[w] = 1
  <2>1. \A s \in S : zero[s] = top => rate[s] = -1
    BY <1>3, <1>7
  <2>2. \A s \in S : zero[s] = top => rate[s] <= -1
    BY <2>1
  <2>3. PICK w \in S : zero[w] = top
    BY <1>1
  <2> QED
    BY <1>4, <2>1, <2>2, <2>3
<1> QED
  BY <1>5, <1>6, <1>7
-----------------------------------------------------------------------------
\* How the gap of the nearest sphere changes with a coordinate of sphere j.
Rate(x, bs, j, of) == IF Nearest(x, bs) = j THEN Towards(bs[j], x, of) ELSE 0

SampleSteps(x, bs, j, of, h, up, down) ==
  /\ h \in Fours /\ h \in Int /\ up \in {-1, 0, 1} /\ down \in {-1, 0, 1}
  /\ Rate(x, bs, j, of) \in {-1, 0, 1}
  /\ Uncovered(x, Stepped(bs, j, of, 0)) = h
  /\ Uncovered(x, Stepped(bs, j, of, 1)) = h + up /\ Uncovered(x, Stepped(bs, j, of, 2)) = h + 2 * up
  /\ Uncovered(x, Stepped(bs, j, of, -1)) = h + down
  /\ Uncovered(x, Stepped(bs, j, of, -2)) = h + 2 * down
  /\ h >= 0
  /\ h > 0 => 0 - down <= Rate(x, bs, j, of) /\ Rate(x, bs, j, of) <= up

\* Every sample has such steps.
LEMMA SampleStepsIs ==
  ASSUME NEW n \in Nat, n # 0, NEW bs \in [1..n -> FourBalls], NEW j \in 1..n, NEW of \in Coordinates,
         NEW x \in Fours, Apart(x, bs)
  PROVE  \E h, up, down : SampleSteps(x, bs, j, of, h, up, down)
<1> DEFINE near == Nearest(x, bs)
           cs(d) == Stepped(bs, j, of, d)
           along == Towards(bs[j], x, of)
           rate == Rate(x, bs, j, of)
<1>1. x \in Int /\ bs[j] \in Balls /\ bs[j] \in FourBalls /\ along \in {-1, 0, 1}
  BY FoursAre, PackingIs, TowardsIs
<1>2. rate = IF near = j THEN along ELSE 0
  BY DEF Rate
<1>3. near \in 1..n /\ \A d \in Steps : Uncovered(x, cs(d)) = Positive(Gap(x, cs(d)[near]))
  <2>1. near \in 1..n
    BY StepsAre, NearestStays
  <2>2. \A d \in Steps : MinGap(x, cs(d)) = Gap(x, cs(d)[near])
    BY NearestStays
  <2> QED
    BY <2>1, <2>2 DEF Uncovered
<1>4. \A d \in Steps : cs(d)[near] = IF near = j THEN Shifted(bs[j], of, d) ELSE bs[near]
  BY <1>3, PackingIs DEF Stepped, Replaced
<1> HIDE DEF cs, near, along, rate
<1>5. CASE near # j
  <2> DEFINE h == Positive(Gap(x, bs[near]))
  <2>1. \A d \in Steps : Uncovered(x, cs(d)) = h
    BY <1>3, <1>4, <1>5
  <2>2. h \in Fours /\ h \in Int /\ h >= 0
    <3>1. Gap(x, bs[near]) \in Fours /\ Gap(x, bs[near]) \in Int
      BY <1>3, GapsNear, StepsAre
    <3>2. 0 \in Fours
      BY FoursAre
    <3> QED
      BY <3>1, <3>2 DEF Positive
  <2> HIDE DEF h
  <2>3. h = h + 0 /\ h = h + 2 * 0
    BY <2>2
  <2>4. SampleSteps(x, bs, j, of, h, 0, 0)
    BY <1>2, <1>5, <2>1, <2>2, <2>3, StepsAre DEF SampleSteps, cs, rate
  <2> QED
    BY <2>4
<1>6. CASE near = j
  <2>1. PICK g, up, down : GapsStep(x, bs[j], of, g, up, down)
    BY <1>1, GapStepsIs
  <2>2. /\ g \in Fours /\ g \in Int /\ up \in {-1, 1} /\ down \in {-1, 1} /\ Bends(along, up, down)
    BY <2>1 DEF GapsStep, along
  <2>3. /\ Uncovered(x, cs(0)) = Positive(g)
        /\ Uncovered(x, cs(1)) = Positive(g + up) /\ Uncovered(x, cs(2)) = Positive(g + 2 * up)
        /\ Uncovered(x, cs(-1)) = Positive(g + down) /\ Uncovered(x, cs(-2)) = Positive(g + 2 * down)
    <3>1. \A d \in Steps : Uncovered(x, cs(d)) = Positive(Gap(x, Shifted(bs[j], of, d)))
      BY <1>3, <1>4, <1>6
    <3> QED
      BY <2>1, <3>1, StepsAre DEF GapsStep
  <2>4. 0 - down <= along /\ along <= up
    BY <1>1, <2>2 DEF Bends
  <2>5. rate = along
    BY <1>2, <1>6
  <2>6. PICK k \in Int : g = 4 * k
    BY <2>2 DEF Fours
  <2>7. CASE g > 0
    <3>1. /\ Positive(g) = g /\ Positive(g + up) = g + up /\ Positive(g + 2 * up) = g + 2 * up
          /\ Positive(g + down) = g + down /\ Positive(g + 2 * down) = g + 2 * down
      BY <2>2, <2>6, <2>7 DEF Positive
    <3>2. SampleSteps(x, bs, j, of, g, up, down)
      BY <1>1, <2>2, <2>3, <2>4, <2>5, <2>7, <3>1 DEF SampleSteps, cs, rate
    <3> QED
      BY <3>2
  <2>8. CASE g = 0
    <3> DEFINE u == Positive(up)
               w == Positive(down)
    <3>1. /\ Positive(g) = 0 /\ Positive(g + up) = 0 + u /\ Positive(g + 2 * up) = 0 + 2 * u
          /\ Positive(g + down) = 0 + w /\ Positive(g + 2 * down) = 0 + 2 * w
          /\ u \in {-1, 0, 1} /\ w \in {-1, 0, 1}
      BY <2>2, <2>8 DEF Positive
    <3> HIDE DEF u, w
    <3>2. SampleSteps(x, bs, j, of, 0, u, w)
      BY <1>1, <2>3, <2>5, <3>1, FoursAre DEF SampleSteps, cs, rate
    <3> QED
      BY <3>2
  <2>9. CASE g < 0
    <3>1. /\ Positive(g) = 0 /\ Positive(g + up) = 0 + 0 /\ Positive(g + 2 * up) = 0 + 2 * 0
          /\ Positive(g + down) = 0 + 0 /\ Positive(g + 2 * down) = 0 + 2 * 0
      BY <2>2, <2>6, <2>9 DEF Positive
    <3>2. SampleSteps(x, bs, j, of, 0, 0, 0)
      BY <1>1, <2>3, <2>5, <3>1, FoursAre DEF SampleSteps, cs, rate
    <3> QED
      BY <3>2
  <2> QED
    BY <2>2, <2>7, <2>8, <2>9
<1> QED
  BY <1>5, <1>6

\* How the largest value moves on one side, from how each of them does.
LEMMA WorstMoves ==
  ASSUME NEW n \in Nat, n # 0, NEW bs \in [1..n -> FourBalls], NEW j \in 1..n, NEW of \in Coordinates,
         NEW p \in Problems, \A s \in DOMAIN p.surface : Apart(p.surface[s], bs),
         NEW top \in Fours, IsLargest(top, DOMAIN p.surface, UncoveredIn(p, bs)),
         NEW w \in DOMAIN p.surface, Uncovered(p.surface[w], bs) = top
  PROVE  \E up, down \in {-1, 0, 1} :
           /\ IsLargest(top + up, DOMAIN p.surface, UncoveredIn(p, Stepped(bs, j, of, 1)))
           /\ IsLargest(top + 2 * up, DOMAIN p.surface, UncoveredIn(p, Stepped(bs, j, of, 2)))
           /\ IsLargest(top + down, DOMAIN p.surface, UncoveredIn(p, Stepped(bs, j, of, -1)))
           /\ IsLargest(top + 2 * down, DOMAIN p.surface, UncoveredIn(p, Stepped(bs, j, of, -2)))
           /\ Rate(p.surface[w], bs, j, of) \in {-1, 0, 1}
           /\ top > 0 => 0 - down <= Rate(p.surface[w], bs, j, of) /\ Rate(p.surface[w], bs, j, of) <= up
           /\ top >= 0
<1> DEFINE S == DOMAIN p.surface
           U(d) == UncoveredIn(p, Stepped(bs, j, of, d))
           ups == [s \in S |-> U(1)[s] - U(0)[s]]
           downs == [s \in S |-> U(-1)[s] - U(0)[s]]
<1>1. \A s \in S : \E h, up, down : SampleSteps(p.surface[s], bs, j, of, h, up, down)
  BY SurfaceHas, SampleStepsIs
<1>2. U(0) = UncoveredIn(p, bs) /\ \A s \in S, d \in Steps : U(d)[s] = Uncovered(p.surface[s], Stepped(bs, j, of, d))
  <2>1. Stepped(bs, j, of, 0) = bs
    BY StepsOf
  <2>2. U(0) = UncoveredIn(p, bs)
    BY <2>1
  <2> QED
    BY <2>2 DEF UncoveredIn
<1>3. \A d \in Steps : DOMAIN U(d) = S /\ U(d) = [s \in S |-> U(d)[s]]
  BY DEF UncoveredIn
<1> HIDE DEF U
<1>4. ASSUME NEW s \in S
      PROVE  /\ U(0)[s] \in Fours /\ ups[s] \in {-1, 0, 1} /\ downs[s] \in {-1, 0, 1}
             /\ U(1)[s] = U(0)[s] + ups[s] /\ U(2)[s] = U(0)[s] + 2 * ups[s]
             /\ U(-1)[s] = U(0)[s] + downs[s] /\ U(-2)[s] = U(0)[s] + 2 * downs[s]
             /\ Rate(p.surface[s], bs, j, of) \in {-1, 0, 1}
             /\ U(0)[s] >= 0
             /\ U(0)[s] > 0 => 0 - downs[s] <= Rate(p.surface[s], bs, j, of)
                               /\ Rate(p.surface[s], bs, j, of) <= ups[s]
  <2>1. PICK h, up, down : SampleSteps(p.surface[s], bs, j, of, h, up, down)
    BY <1>1
  <2>2. /\ U(0)[s] = h /\ U(1)[s] = h + up /\ U(2)[s] = h + 2 * up
        /\ U(-1)[s] = h + down /\ U(-2)[s] = h + 2 * down
    BY <1>2, <2>1, StepsAre DEF SampleSteps
  <2>3. h \in Fours /\ h \in Int /\ up \in {-1, 0, 1} /\ down \in {-1, 0, 1}
    BY <2>1 DEF SampleSteps
  <2>4. ups[s] = up /\ downs[s] = down
    BY <2>2, <2>3
  <2> HIDE DEF ups, downs
  <2> QED
    BY <2>1, <2>2, <2>3, <2>4 DEF SampleSteps
<1>5. U(0) \in [S -> Fours] /\ ups \in [S -> {-1, 0, 1}] /\ downs \in [S -> {-1, 0, 1}]
  <2>1. U(0) \in [S -> Fours]
    BY <1>3, <1>4, StepsAre
  <2>2. \A s \in S : ups[s] \in {-1, 0, 1} /\ downs[s] \in {-1, 0, 1}
    BY <1>4
  <2> QED
    BY <2>1, <2>2
<1> HIDE DEF ups, downs
<1>6. OneSide(S, U(0), U(1), U(2), ups, top)
  BY <1>2, <1>4, <1>5 DEF OneSide
<1>7. OneSide(S, U(0), U(-1), U(-2), downs, top)
  BY <1>2, <1>4, <1>5 DEF OneSide
<1>8. PICK up : LargestMoves(S, U(0), U(1), U(2), ups, top, up)
  BY <1>6, LargestMovesOne
<1>9. PICK down : LargestMoves(S, U(0), U(-1), U(-2), downs, top, down)
  BY <1>7, LargestMovesOne
<1>10. U(0)[w] = top
  <2>1. Stepped(bs, j, of, 0) = bs
    BY StepsOf
  <2> QED
    BY <1>2, <2>1, StepsAre
<1>11. up \in {-1, 0, 1} /\ down \in {-1, 0, 1} /\ ups[w] <= up /\ downs[w] <= down
  BY <1>8, <1>9, <1>10 DEF LargestMoves
<1>12. /\ Rate(p.surface[w], bs, j, of) \in {-1, 0, 1} /\ top >= 0
       /\ top > 0 => 0 - down <= Rate(p.surface[w], bs, j, of) /\ Rate(p.surface[w], bs, j, of) <= up
  <2> DEFINE r == Rate(p.surface[w], bs, j, of)
  <2>1. /\ r \in {-1, 0, 1} /\ top >= 0 /\ ups[w] \in {-1, 0, 1} /\ downs[w] \in {-1, 0, 1}
        /\ top > 0 => 0 - downs[w] <= r /\ r <= ups[w]
    BY <1>4, <1>10
  <2> HIDE DEF r
  <2>2. top > 0 => 0 - down <= r /\ r <= up
    BY <1>11, <2>1
  <2> QED
    BY <2>1, <2>2 DEF r
<1> QED
  BY <1>8, <1>9, <1>11, <1>12 DEF LargestMoves, U

LargestRates(top, up, down, rate) ==
  /\ top \in Int /\ up \in {-1, 0, 1} /\ down \in {-1, 0, 1} /\ rate \in {-1, 0, 1}
  /\ top >= 0
  /\ top > 0 => 0 - down <= rate /\ rate <= up

\* The gradient lies between the slopes of the largest distance squared.
LEMMA LargestSlope ==
  ASSUME NEW top, NEW up, NEW down, NEW rate, LargestRates(top, up, down, rate)
  PROVE  /\ Slope(1, Square(top + up), Square(top), Square(top + 2 * up)) = 4 * (top * up)
         /\ Slope(-1, Square(top + down), Square(top), Square(top + 2 * down)) = 4 * (top * (0 - down))
         /\ 4 * (top * rate) \in Int
         /\ 4 * (top * (0 - down)) <= 4 * (top * rate) /\ 4 * (top * rate) <= 4 * (top * up)
<1>a. /\ top \in Int /\ up \in {-1, 0, 1} /\ down \in {-1, 0, 1} /\ rate \in {-1, 0, 1}
      /\ top >= 0
      /\ top > 0 => 0 - down <= rate /\ rate <= up
  BY DEF LargestRates
<1> USE <1>a
<1>1. Slope(1, Square(top + up), Square(top), Square(top + 2 * up)) = 4 * (top * up)
  BY SquaresSlope
<1> DEFINE w == 0 - down
<1>2. w \in {-1, 0, 1} /\ top - w = top + down /\ top - 2 * w = top + 2 * down
  OBVIOUS
<1> HIDE DEF w
<1>3. Slope(-1, Square(top - w), Square(top), Square(top - 2 * w)) = 4 * (top * w)
  BY <1>2, SquaresSlope
<1>4. Slope(-1, Square(top + down), Square(top), Square(top + 2 * down)) = 4 * (top * w)
  BY <1>2, <1>3
<1>5. top > 0 => w <= rate
  BY DEF w
<1>6. 4 * (top * w) <= 4 * (top * rate) /\ 4 * (top * rate) <= 4 * (top * up) /\ 4 * (top * rate) \in Int
  <2>1. \A y \in {-1, 0, 1} : top * y = IF y = 1 THEN top ELSE IF y = 0 THEN 0 ELSE 0 - top
    OBVIOUS
  <2>2. CASE top = 0
    BY <1>2, <2>1, <2>2
  <2>3. CASE top > 0
    BY <1>2, <1>5, <2>1, <2>3
  <2> QED
    BY <2>2, <2>3
<1> QED
  BY <1>1, <1>4, <1>6 DEF w

\* The gradient from the worst sample.
LEMMA HausdorffGradIs ==
  ASSUME NEW n \in Nat, n # 0, NEW bs \in [1..n -> Balls], NEW j \in 1..n, NEW of \in Coordinates,
         NEW p \in Problems, DOMAIN p.surface # {}
  PROVE  LET w == Worst(p, bs)
         IN  HausdorffGrad(p, bs, j)[of] = 2 * (Uncovered(p.surface[w], bs) * Rate(p.surface[w], bs, j, of))
<1> DEFINE w == Worst(p, bs)
           x == p.surface[w]
           u == Uncovered(x, bs)
           h == IF Nearest(x, bs) = j THEN u ELSE 0
           rate == Rate(x, bs, j, of)
<1>1. w \in DOMAIN p.surface /\ x \in Int /\ u \in Int
  BY WorstIs, SurfaceHas, UncoveredIs
<1>2. HausdorffGrad(p, bs, j) = Ball(2 * h * Along(bs[j], x), -2 * h)
  BY DEF HausdorffGrad, Uncovered
<1>3. /\ Along(bs[j], x) \in {-1, 0, 1}
      /\ rate = IF Nearest(x, bs) = j THEN IF of = "center" THEN Along(bs[j], x) ELSE -1 ELSE 0
  BY <1>1, TowardsIs DEF Rate, Towards
<1> SUFFICES HausdorffGrad(p, bs, j)[of] = 2 * (u * rate)
  OBVIOUS
<1> DEFINE a == Along(bs[j], x)
           mine == Nearest(x, bs) = j
<1>4. a \in {-1, 0, 1} /\ h = (IF mine THEN u ELSE 0)
      /\ rate = IF mine THEN IF of = "center" THEN a ELSE -1 ELSE 0
  BY <1>3
<1>5. HausdorffGrad(p, bs, j)[of] = IF of = "center" THEN 2 * h * a ELSE 0 - 2 * h
  <2>1. HausdorffGrad(p, bs, j)[of] = IF of = "center" THEN 2 * h * a ELSE -2 * h
    BY <1>2, BallAt
  <2>2. \A y \in Int : -2 * y = 0 - 2 * y
    OBVIOUS
  <2>3. h \in Int
    BY <1>1, <1>4
  <2> HIDE DEF h, a
  <2> QED
    BY <2>1, <2>2, <2>3
<1> HIDE DEF u, h, rate, a, mine, w
<1>6. CASE ~mine
  <2>1. h = 0 /\ rate = 0
    BY <1>4, <1>6
  <2>2. 2 * h * a = 0 /\ 0 - 2 * h = 0 /\ u * rate = 0
    <3>1. \A y \in Int : y * 0 = 0 /\ 0 * y = 0
      OBVIOUS
    <3>2. 2 * 0 * a = 0
      BY <1>4
    <3>3. 0 - 2 * 0 = 0
      OBVIOUS
    <3> QED
      BY <1>1, <2>1, <3>1, <3>2, <3>3
  <2> QED
    BY <1>5, <2>2
<1>7. CASE mine /\ of = "center"
  <2>1. h = u /\ rate = a
    BY <1>4, <1>7
  <2>2. 2 * u * a = 2 * (u * a)
    BY <1>1, <1>4
  <2> QED
    BY <1>5, <1>7, <2>1, <2>2
<1>8. CASE mine /\ of # "center"
  <2>1. h = u /\ rate = -1
    BY <1>4, <1>8
  <2>2. 0 - 2 * u = 2 * (u * (-1))
    BY <1>1
  <2> QED
    BY <1>5, <1>8, <2>1, <2>2
<1> QED
  BY <1>6, <1>7, <1>8

\* The gradient is the derivative, or two spheres are tied.
LEMMA HausdorffTerm ==
  ASSUME NEW n \in Nat, n # 0, NEW bs \in [1..n -> FourBalls], NEW j \in 1..n, NEW of \in Coordinates,
         NEW p \in Problems, DOMAIN p.surface # {}
  PROVE  IsDerivative("hausdorff", Term(p, bs, j), of) \/ Tied(Term(p, bs, j))
<1> DEFINE t == Term(p, bs, j)
           L(d) == At("hausdorff", t, of, d)
           S == DOMAIN p.surface
           w == Worst(p, bs)
           top == Uncovered(p.surface[w], bs)
           rate == Rate(p.surface[w], bs, j, of)
<1> SUFFICES ASSUME ~Tied(t) PROVE IsDerivative("hausdorff", t, of)
  OBVIOUS
<1>1. \A s \in S : Apart(p.surface[s], bs)
  BY DEF Tied, Term, Apart
<1>2. /\ bs \in [1..n -> Balls] /\ IsTerm(t)
      /\ \A d \in Steps : L(d) = Hausdorff(p, Stepped(bs, j, of, d))
      /\ Stepped(bs, j, of, 0) = bs /\ \A d \in Steps : Stepped(bs, j, of, d) \in [1..n -> Balls]
  <2>1. \A d : L(d) = Loss("hausdorff", p, Stepped(bs, j, of, d))
    BY PackingIs
  <2>2. IsTerm(t)
    BY PackingIs
  <2> HIDE DEF L, t
  <2> QED
    BY <2>1, <2>2, StepsOf, LossIs
<1>3. w \in S /\ \A s \in S : Uncovered(p.surface[s], bs) <= top
  BY <1>2, WorstIs
<1>4. top \in Fours /\ top \in Int
  <2>1. PICK h, up, down : SampleSteps(p.surface[w], bs, j, of, h, up, down)
    BY <1>1, <1>3, SurfaceHas, SampleStepsIs
  <2>2. top = h
    BY <1>2, <2>1 DEF SampleSteps
  <2> QED
    BY <2>1, <2>2 DEF SampleSteps
<1>5. IsLargest(top, S, UncoveredIn(p, bs))
  BY <1>3 DEF IsLargest, UncoveredIn
<1>6. TwiceGrad("hausdorff", t, of) = 2 * (2 * (top * rate))
  <2>1. HausdorffGrad(p, bs, j)[of] = 2 * (top * rate)
    BY <1>2, HausdorffGradIs
  <2>2. TwiceGrad("hausdorff", t, of) = 2 * HausdorffGrad(p, bs, j)[of]
    BY GradIs DEF TwiceGrad, Term
  <2> QED
    BY <2>1, <2>2
<1> HIDE DEF t, L, S, w
<1>7. PICK up \in {-1, 0, 1}, down \in {-1, 0, 1} :
           /\ IsLargest(top + up, S, UncoveredIn(p, Stepped(bs, j, of, 1)))
           /\ IsLargest(top + 2 * up, S, UncoveredIn(p, Stepped(bs, j, of, 2)))
           /\ IsLargest(top + down, S, UncoveredIn(p, Stepped(bs, j, of, -1)))
           /\ IsLargest(top + 2 * down, S, UncoveredIn(p, Stepped(bs, j, of, -2)))
           /\ rate \in {-1, 0, 1}
           /\ top > 0 => 0 - down <= rate /\ rate <= up
           /\ top >= 0
  BY <1>1, <1>3, <1>4, <1>5, WorstMoves DEF S
<1> HIDE DEF top, rate
<1>8. \A d \in Steps, y \in Int : IsLargest(y, S, UncoveredIn(p, Stepped(bs, j, of, d))) => L(d) = Square(y)
  BY <1>2, HausdorffIs DEF S
<1>9. L(0) = Square(top)
  BY <1>2, <1>4, <1>5, <1>8, StepsAre
<1>10. top + up \in Int /\ top + 2 * up \in Int /\ top + down \in Int /\ top + 2 * down \in Int
  BY <1>4
<1>11. /\ L(1) = Square(top + up) /\ L(2) = Square(top + 2 * up)
       /\ L(-1) = Square(top + down) /\ L(-2) = Square(top + 2 * down)
  BY <1>7, <1>8, <1>10, StepsAre
<1>12. /\ TwiceSlope("hausdorff", t, of, 1) = Slope(1, L(1), L(0), L(2))
       /\ TwiceSlope("hausdorff", t, of, -1) = Slope(-1, L(-1), L(0), L(-2))
  BY <1>2, SlopeAt DEF L
<1>13. /\ Slope(1, Square(top + up), Square(top), Square(top + 2 * up)) = 4 * (top * up)
       /\ Slope(-1, Square(top + down), Square(top), Square(top + 2 * down)) = 4 * (top * (0 - down))
       /\ 4 * (top * rate) \in Int
       /\ 4 * (top * (0 - down)) <= 4 * (top * rate) /\ 4 * (top * rate) <= 4 * (top * up)
  <2>1. LargestRates(top, up, down, rate)
    BY <1>4, <1>7 DEF LargestRates
  <2> QED
    BY <2>1, LargestSlope
<1>14. 2 * (2 * (top * rate)) = 4 * (top * rate)
  <2>1. top * rate \in Int
    BY <1>4, <1>7
  <2> QED
    BY <2>1
<1> QED
  BY <1>6, <1>9, <1>11, <1>12, <1>13, <1>14 DEF IsDerivative, Between

\* The hausdorff gradient is derived: the loss is its only term.
LEMMA HausdorffIsDerived ==
  ASSUME NEW n \in Nat, n # 0, NEW bs \in [1..n -> FourBalls], NEW j \in 1..n, NEW of \in Coordinates,
         NEW p \in Problems, DOMAIN p.surface # {}
  PROVE  IsDerived("hausdorff", Term(p, bs, j), of)
<1> DEFINE whole == Term(p, bs, j)
           terms == Terms("hausdorff", whole)
           v == [i \in {1} |-> HausdorffGrad(p, bs, j)[of]]
           f == [d \in Steps |-> [i \in {1} |-> Hausdorff(p, Stepped(bs, j, of, d))]]
<1>1. terms = <<whole>>
  <2> HIDE DEF whole
  <2> QED
    BY DEF Terms
<1>2. DOMAIN terms = {1} /\ terms[1] = whole /\ IsFiniteSet({1})
  <2> HIDE DEF whole, terms
  <2> QED
    <3>1. DOMAIN <<whole>> = 1..1 /\ <<whole>>[1] = whole
      OBVIOUS
    <3>2. 1..1 = {1}
      OBVIOUS
    <3>3. IsFiniteSet({1})
      BY FS_Singleton
    <3> QED
      BY <1>1, <3>1, <3>2, <3>3
<1>3. whole.p = p /\ whole.bs = bs /\ whole.j = j /\ IsTerm(whole)
      /\ \A d \in Steps : At("hausdorff", whole, of, d) = Hausdorff(p, Stepped(bs, j, of, d))
  BY PackingIs, LossIs
<1> HIDE DEF terms
<1>4. TermsAreDerived("hausdorff", whole, of)
  <2>1. IsDerivative("hausdorff", whole, of) \/ Tied(whole)
    BY HausdorffTerm
  <2> HIDE DEF whole
  <2> QED
    BY <1>2, <2>1 DEF TermsAreDerived, terms
<1>5. v \in [{1} -> Int] /\ SumFunction(v) = v[1] /\ HausdorffGrad(p, bs, j)[of] = v[1]
  <2> DEFINE w == Worst(p, bs)
             u == Uncovered(p.surface[w], bs)
             rate == Rate(p.surface[w], bs, j, of)
  <2>1. HausdorffGrad(p, bs, j)[of] = 2 * (u * rate)
    BY StepsOf, HausdorffGradIs
  <2>2. u \in Int /\ rate \in {-1, 0, 1}
    <3>1. w \in DOMAIN p.surface /\ p.surface[w] \in Int
      BY StepsOf, WorstIs, SurfaceHas
    <3> HIDE DEF w
    <3>2. u \in Int
      BY <3>1, StepsOf, UncoveredIs
    <3>3. Towards(bs[j], p.surface[w], of) \in {-1, 0, 1}
      BY <3>1, StepsOf, TowardsIs
    <3> QED
      BY <3>2, <3>3 DEF Rate
  <2> HIDE DEF u, rate
  <2>3. u * rate \in Int
    BY <2>2
  <2>4. 2 * (u * rate) \in Int
    BY <2>3
  <2>5. v \in [{1} -> Int] /\ HausdorffGrad(p, bs, j)[of] = v[1]
    BY <2>1, <2>4
  <2> HIDE DEF v
  <2> QED
    BY <2>5, SumOfOne
<1>6. ASSUME NEW d \in Steps
      PROVE  f[d] \in [{1} -> Int] /\ SumFunction(f[d]) = f[d][1]
             /\ Hausdorff(p, Stepped(bs, j, of, d)) = f[d][1] /\ f[d][1] \in Int
  <2>1. Hausdorff(p, Stepped(bs, j, of, d)) \in Int
    BY StepsOf, HausdorffIs
  <2>2. f[d] \in [{1} -> Int] /\ Hausdorff(p, Stepped(bs, j, of, d)) = f[d][1]
    BY <2>1
  <2> HIDE DEF f
  <2> QED
    BY <2>1, <2>2, SumOfOne
<1>7. f \in [Steps -> [{1} -> Int]]
  BY <1>6
<1> HIDE DEF v, f, whole
<1>8. GradSums("hausdorff", whole, terms, of, v)
  BY <1>2, <1>3, <1>5, GradIs DEF GradSums
<1>9. LossSums("hausdorff", whole, terms, of, f, 0)
  <2>1. \A d \in Steps : At("hausdorff", whole, of, d) = Plus(0, f[d])
    BY <1>3, <1>6 DEF Plus
  <2> QED
    BY <1>2, <1>3, <1>6, <2>1 DEF LossSums
<1>10. Splits("hausdorff", whole, terms, of, v, 0, f)
  BY <1>2, <1>3, <1>4, <1>5, <1>7, <1>8, <1>9 DEF Splits, terms
<1> QED
  BY <1>10, DerivedIf DEF whole
-----------------------------------------------------------------------------
Only(n, j) == n = 1 /\ j = 1

\* All but one of what is summed.
SplitOff(S, f, x, g) ==
  IsFiniteSet(S) /\ f \in [S -> Int] /\ x \in S /\ g = [y \in S \ {x} |-> f[y]]

\* What is left out is added again.
LEMMA SumSplitOff ==
  ASSUME NEW S, NEW f, NEW x, NEW g, SplitOff(S, f, x, g)
  PROVE  /\ SumFunction(f) \in Int /\ SumFunction(g) \in Int /\ f[x] \in Int
         /\ SumFunction(f) = SumFunction(g) + f[x]
<1>1. IsFiniteSet(S) /\ f \in [S -> Int] /\ x \in S /\ g = [y \in S \ {x} |-> f[y]]
  BY DEF SplitOff
<1>2. g \in [S \ {x} -> Int] /\ IsFiniteSet(S \ {x})
  BY <1>1, FS_RemoveElement
<1>3. SumFunction(f) = f[x] + SumFunction(g) /\ SumFunction(f) \in Int
  BY <1>1, SplitSum
<1>4. SumFunction(g) \in Int
  BY <1>2, SplitSum
<1> QED
  BY <1>1, <1>3, <1>4

\* The sum of a and what does not change.
SumsBoth(S, f, a, k) ==
  IsFiniteSet(S) /\ a \in [S -> Int] /\ k \in [S -> Int] /\ f = [s \in S |-> a[s] + k[s]]

\* Sums add up.
LEMMA SumOfBoth ==
  ASSUME NEW S, NEW f, NEW a, NEW k, SumsBoth(S, f, a, k)
  PROVE  SumFunction(k) \in Int /\ SumFunction(a) \in Int /\ SumFunction(f) = SumFunction(k) + SumFunction(a)
<1> DEFINE c == [s \in S |-> 0 - k[s]]
<1>1. IsFiniteSet(S) /\ a \in [S -> Int] /\ k \in [S -> Int]
  BY DEF SumsBoth
<1>2. Opposite(S, k, c)
  BY <1>1 DEF Opposite
<1>3. c \in [S -> Int] /\ SumFunction(k) \in Int /\ SumFunction(c) = 0 - SumFunction(k)
  BY <1>2, SumOpposite
<1>4. f = [s \in S |-> Slope(1, a[s], a[s], c[s])]
  <2> SUFFICES ASSUME NEW s \in S PROVE a[s] + k[s] = Slope(1, a[s], a[s], c[s])
    BY DEF SumsBoth
  <2>1. a[s] \in Int /\ k[s] \in Int /\ c[s] = 0 - k[s]
    BY <1>1
  <2> HIDE DEF c
  <2> QED
    BY <2>1 DEF Slope
<1> HIDE DEF c
<1>5. AreSlopes(S, 1, 0, a, a, c, f)
  BY <1>1, <1>3, <1>4 DEF AreSlopes
<1>6. Slope(1, Plus(0, a), Plus(0, a), Plus(0, c)) = SumFunction(f)
  BY <1>5, SlopeSums
<1>7. SumFunction(a) \in Int
  BY <1>1, SplitSum
<1> QED
  BY <1>3, <1>6, <1>7 DEF Slope, Plus
-----------------------------------------------------------------------------
(***************************************************************************)
(* Boundary: one term for each surface sample, with one sphere.            *)
(***************************************************************************)
Immersed(x, b) == Positive(-Gap(x, b))
BoundaryPart(x, b, of) == IF Gap(x, b) < 0 THEN 0 - Towards(b, x, of) ELSE 0
BoundaryParts(p, b, of) == [s \in DOMAIN p.surface |-> BoundaryPart(p.surface[s], b, of)]
BoundaryOf(x, cs) == SumFunction([i \in DOMAIN cs |-> Immersed(x, cs[i])])
BoundaryRest(x, bs, j) == SumFunction([i \in DOMAIN bs \ {j} |-> Immersed(x, bs[i])])

\* A gap and a depth are integers.
LEMMA GapIs ==
  ASSUME NEW x \in Int, NEW b \in Balls
  PROVE  Gap(x, b) \in Int /\ Immersed(x, b) \in Int /\ Immersed(x, b) = DepthAt(0, Gap(x, b))
<1>1. b.center \in Int /\ b.radius \in Int
  BY DEF Balls
<1>2. Dist(x, b.center) \in Nat
  BY <1>1, Triangle
<1>3. Gap(x, b) \in Int
  BY <1>1, <1>2 DEF Gap
<1>4. \A y \in Int : -y = 0 - y /\ 0 - y \in Int
  OBVIOUS
<1> QED
  BY <1>3, <1>4, IntegersAre DEF Immersed, DepthAt

\* The gradient as a sum over all samples.
LEMMA BoundaryGradIs ==
  ASSUME NEW n \in Nat, NEW bs \in [1..n -> Balls], NEW j \in 1..n, NEW of \in Coordinates,
         NEW p \in Problems
  PROVE  /\ BoundaryParts(p, bs[j], of) \in [DOMAIN p.surface -> Int]
         /\ BoundaryGrad(p, bs, j)[of] = SumFunction(BoundaryParts(p, bs[j], of))
<1> DEFINE S == DOMAIN p.surface
           T == {s \in S : Gap(p.surface[s], bs[j]) < 0}
           f == [s \in T |-> Along(bs[j], p.surface[s])]
           h == BoundaryParts(p, bs[j], of)
<1>1. IsFiniteSet(S) /\ \A s \in S : p.surface[s] \in Int
  BY SurfaceHas
<1>2. \A s \in S : /\ Along(bs[j], p.surface[s]) \in {-1, 0, 1}
                   /\ Towards(bs[j], p.surface[s], "center") = Along(bs[j], p.surface[s])
                   /\ Towards(bs[j], p.surface[s], "radius") = -1
  BY <1>1, TowardsIs
<1>3. f \in [T -> Int] /\ T \in SUBSET S
  BY <1>2
<1>4. BoundaryGrad(p, bs, j) = Ball(-SumFunction(f), Cardinality(T))
  BY DEF BoundaryGrad
<1>5. h = [s \in S |-> IF s \in T THEN 0 - Towards(bs[j], p.surface[s], of) ELSE 0]
  BY DEF BoundaryParts, BoundaryPart
<1> HIDE DEF h, T
<1>6. CASE of = "center"
  <2> DEFINE u == [s \in S |-> IF s \in T THEN f[s] ELSE 0]
  <2>1. ZeroElsewhere(S, T, f, u)
    BY <1>1, <1>3 DEF ZeroElsewhere
  <2>2. u \in [S -> Int] /\ SumFunction(f) \in Int /\ SumFunction(u) = SumFunction(f)
    <3> HIDE DEF u, f
    <3> QED
      BY <2>1, SumZeroElsewhere
  <2>3. \A s \in S : h[s] = 0 - u[s]
    BY <1>2, <1>3, <1>5, <1>6
  <2> HIDE DEF u, f
  <2>4. Opposite(S, u, h)
    BY <1>1, <1>5, <2>2, <2>3 DEF Opposite
  <2>5. h \in [S -> Int] /\ SumFunction(h) = 0 - SumFunction(u)
    BY <2>4, SumOpposite
  <2>6. BoundaryGrad(p, bs, j)[of] = -SumFunction(f)
    BY <1>4, <1>6, BallAt
  <2>7. -SumFunction(f) = 0 - SumFunction(f)
    BY <2>2
  <2> QED
    BY <2>2, <2>5, <2>6, <2>7 DEF h
<1>7. CASE of = "radius"
  <2>1. Counting(S, T, h)
    BY <1>1, <1>2, <1>3, <1>5, <1>7 DEF Counting
  <2>2. BoundaryGrad(p, bs, j)[of] = Cardinality(T)
    BY <1>4, <1>7, BallAt
  <2> HIDE DEF S
  <2> QED
    BY <2>1, <2>2, SumCounting DEF h, S
<1> QED
  BY <1>6, <1>7 DEF Coordinates

\* At a sample, the depth in sphere j adds to that in the others.
LEMMA BoundarySplits ==
  ASSUME NEW n \in Nat, NEW bs \in [1..n -> FourBalls], NEW j \in 1..n, NEW of \in Coordinates,
         NEW x \in Int, NEW d \in Steps
  PROVE  /\ BoundaryOf(x, Stepped(bs, j, of, d)) = Immersed(x, Shifted(bs[j], of, d)) + BoundaryRest(x, bs, j)
         /\ Immersed(x, Shifted(bs[j], of, d)) \in Int /\ BoundaryRest(x, bs, j) \in Int
<1> DEFINE cs == Stepped(bs, j, of, d)
           D == 1..n
           f == [i \in D |-> Immersed(x, cs[i])]
           g == [i \in D \ {j} |-> Immersed(x, bs[i])]
<1>1. cs \in [D -> Balls] /\ IsFiniteSet(D)
  <2>1. IsFiniteSet(1..n)
    BY FS_Interval
  <2> QED
    BY <2>1, StepsOf
<1>2. cs[j] = Shifted(bs[j], of, d) /\ \A i \in D \ {j} : cs[i] = bs[i]
  BY StepsOf DEF Stepped, Replaced
<1>3. DOMAIN cs = D /\ DOMAIN bs = D
  BY <1>1
<1> HIDE DEF cs
<1>4. f \in [D -> Int] /\ g \in [D \ {j} -> Int] /\ IsFiniteSet(D \ {j})
  <2>1. \A i \in D : Immersed(x, cs[i]) \in Int
    BY <1>1, GapIs
  <2>2. \A i \in D : Immersed(x, bs[i]) \in Int
    BY StepsOf, GapIs
  <2>3. IsFiniteSet(D \ {j})
    BY <1>1, FS_RemoveElement
  <2> QED
    BY <2>1, <2>2, <2>3
<1>5. [i \in D \ {j} |-> f[i]] = g /\ f[j] = Immersed(x, Shifted(bs[j], of, d))
  BY <1>2
<1>6. BoundaryOf(x, cs) = SumFunction(f) /\ BoundaryRest(x, bs, j) = SumFunction(g)
  BY <1>3 DEF BoundaryOf, BoundaryRest
<1>j. j \in D
  OBVIOUS
<1> HIDE DEF f, g, D
<1>7. SplitOff(D, f, j, g)
  BY <1>1, <1>4, <1>5, <1>j DEF SplitOff
<1>8. SumFunction(f) = SumFunction(g) + f[j] /\ SumFunction(g) \in Int /\ f[j] \in Int
  BY <1>7, SumSplitOff
<1> QED
  BY <1>5, <1>6, <1>8 DEF cs

\* One sphere on its own.
LEMMA OneBall ==
  ASSUME NEW b \in FourBalls, NEW of \in Coordinates, NEW p
  PROVE  /\ <<b>> \in [1..1 -> FourBalls] /\ <<b>>[1] = b /\ 1 \in 1..1 /\ 1 \in Nat
         /\ IsTerm(Term(p, <<b>>, 1))
         /\ \A d \in Steps : /\ Stepped(<<b>>, 1, of, d) \in [1..1 -> Balls]
                             /\ Stepped(<<b>>, 1, of, d)[1] = Shifted(b, of, d)
         /\ Stepped(<<b>>, 1, of, 0) = <<b>>
         /\ \A id : \A d : At(id, Term(p, <<b>>, 1), of, d) = Loss(id, p, Stepped(<<b>>, 1, of, d))
<1> DEFINE bs == <<b>>
<1>1. bs \in [1..1 -> FourBalls] /\ bs[1] = b /\ 1 \in 1..1 /\ 1 \in Nat
  OBVIOUS
<1> HIDE DEF bs
<1>2. PICK n \in Nat, j \in 1..1 : Only(n, j) /\ j \in 1..n /\ bs \in [1..n -> FourBalls]
  BY <1>1 DEF Only
<1>4. /\ IsTerm(Term(p, bs, j)) /\ Stepped(bs, j, of, 0) = bs
      /\ \A d \in Steps : Stepped(bs, j, of, d) \in [1..n -> Balls]
      /\ \A id : \A d : At(id, Term(p, bs, j), of, d) = Loss(id, p, Stepped(bs, j, of, d))
  BY <1>2, PackingIs
<1>3. \A d \in Steps : Stepped(bs, 1, of, d)[1] = Shifted(b, of, d)
  BY <1>1 DEF Stepped, Replaced
<1> QED
  BY <1>1, <1>2, <1>3, <1>4 DEF bs, Only

\* Loss and gradient for one sample and one sphere.
LEMMA BoundaryOfOne ==
  ASSUME NEW cs \in [1..1 -> Balls], NEW of \in Coordinates, NEW p \in Problems, NEW x \in Int
  PROVE  DOMAIN p.surface = {1} /\ p.surface[1] = x =>
           /\ BoundaryGrad(p, cs, 1)[of] = BoundaryPart(x, cs[1], of)
           /\ Boundary(p, cs) = Immersed(x, cs[1])
<1>1. 1 \in 1..1 /\ 1 \in Nat /\ 1..1 = {1} /\ cs[1] \in Balls
  OBVIOUS
<1>2. /\ BoundaryParts(p, cs[1], of) \in [DOMAIN p.surface -> Int]
      /\ BoundaryGrad(p, cs, 1)[of] = SumFunction(BoundaryParts(p, cs[1], of))
  <2>1. PICK n \in Nat, j \in 1..1 : Only(n, j) /\ j \in 1..n /\ cs \in [1..n -> Balls]
    BY <1>1 DEF Only
  <2>2. /\ BoundaryParts(p, cs[j], of) \in [DOMAIN p.surface -> Int]
        /\ BoundaryGrad(p, cs, j)[of] = SumFunction(BoundaryParts(p, cs[j], of))
    BY <2>1, BoundaryGradIs
  <2> QED
    BY <2>1, <2>2 DEF Only
<1> HAVE DOMAIN p.surface = {1} /\ p.surface[1] = x
<1>3. BoundaryParts(p, cs[1], of)[1] = BoundaryPart(x, cs[1], of)
  BY DEF BoundaryParts
<1>4. BoundaryGrad(p, cs, 1)[of] = BoundaryPart(x, cs[1], of)
  BY <1>2, <1>3, SumOfOne
<1> DEFINE inner == [i \in DOMAIN cs |-> Positive(-Gap(x, cs[i]))]
           outer == [s \in DOMAIN p.surface |->
                       SumFunction([i \in DOMAIN cs |-> Positive(-Gap(p.surface[s], cs[i]))])]
<1>5. Boundary(p, cs) = SumFunction(outer)
  BY DEF Boundary
<1>6. outer[1] = SumFunction(inner) /\ DOMAIN outer = {1}
  OBVIOUS
<1>7. Immersed(x, cs[1]) \in Int /\ inner[1] = Immersed(x, cs[1]) /\ DOMAIN inner = {1}
  BY <1>1, GapIs DEF Immersed
<1>8. inner \in [{1} -> Int]
  BY <1>1, <1>7
<1> HIDE DEF inner
<1>9. SumFunction(inner) = inner[1]
  BY <1>8, SumOfOne
<1>10. outer \in [{1} -> Int]
  BY <1>6, <1>7, <1>9
<1> HIDE DEF outer
<1>11. SumFunction(outer) = outer[1]
  BY <1>10, SumOfOne
<1> QED
  BY <1>4, <1>5, <1>6, <1>7, <1>9, <1>11
-----------------------------------------------------------------------------
\* A loss that is how deep a point is in a sphere: where its slopes lie.
LEMMA DepthSlopes ==
  ASSUME NEW x \in Fours, NEW b \in FourBalls, NEW of \in Coordinates, NEW r \in Fours
  PROVE  LET D(d) == DepthAt(r, Gap(x, Shifted(b, of, d)))
         IN  Between(2 * DepthRate(Gap(x, b), r, Towards(b, x, of)),
                     Slope(-1, D(-1), D(0), D(-2)), Slope(1, D(1), D(0), D(2)))
<1>1. PICK g, up, down : GapsStep(x, b, of, g, up, down)
  BY GapStepsIs
<1> DEFINE along == Towards(b, x, of)
           D(d) == DepthAt(r, Gap(x, Shifted(b, of, d)))
<1>2. x \in Int /\ b \in Balls /\ along \in {-1, 0, 1}
  BY FoursAre, FourBallIs, TowardsIs
<1>3. DepthSteps(g, r, up, down, along) /\ g = Gap(x, b)
  BY <1>1, <1>2 DEF GapsStep, DepthSteps
<1>4. DepthDerived(g, r, up, down, along)
  BY <1>3, DepthKink
<1>5. /\ D(0) = DepthAt(r, g) /\ D(1) = DepthAt(r, g + up) /\ D(2) = DepthAt(r, g + 2 * up)
      /\ D(-1) = DepthAt(r, g + down) /\ D(-2) = DepthAt(r, g + 2 * down)
  BY <1>1 DEF GapsStep
<1> HIDE DEF D, along
<1>6. Between(2 * DepthRate(g, r, along), Slope(-1, D(-1), D(0), D(-2)), Slope(1, D(1), D(0), D(2)))
  BY <1>4, <1>5 DEF DepthDerived
<1> QED
  BY <1>3, <1>6 DEF D, along

\* The gradient at one sample is its derivative.
LEMMA BoundaryTerm ==
  ASSUME NEW b \in FourBalls, NEW of \in Coordinates,
         NEW p \in Problems, NEW x \in Fours, DOMAIN p.surface = {1}, p.surface[1] = x
  PROVE  IsDerivative("boundary", Term(p, <<b>>, 1), of)
<1> DEFINE t == Term(p, <<b>>, 1)
           L(d) == At("boundary", t, of, d)
           D(d) == DepthAt(0, Gap(x, Shifted(b, of, d)))
           along == Towards(b, x, of)
<1>1. b \in Balls /\ x \in Int /\ 0 \in Fours /\ along \in {-1, 0, 1} /\ Gap(x, b) \in Int
  BY FoursAre, FourBallIs, TowardsIs, GapsNear, StepsAre
<1>2. IsTerm(t) /\ \A d \in Steps : L(d) = D(d)
  <2>1. \A d : L(d) = Loss("boundary", p, Stepped(<<b>>, 1, of, d))
    BY OneBall
  <2>2. \A d \in Steps : /\ Stepped(<<b>>, 1, of, d) \in [1..1 -> Balls]
                         /\ Stepped(<<b>>, 1, of, d)[1] = Shifted(b, of, d)
    BY OneBall
  <2>3. IsTerm(t)
    BY OneBall
  <2> HIDE DEF t, L
  <2>4. \A d \in Steps : Shifted(b, of, d) \in Balls
    BY <1>1, ShiftedIs, StepsAre DEF Coordinates
  <2>5. \A d \in Steps : Boundary(p, Stepped(<<b>>, 1, of, d)) = Immersed(x, Shifted(b, of, d))
    BY <1>1, <2>2, BoundaryOfOne
  <2>6. \A d \in Steps : Immersed(x, Shifted(b, of, d)) = D(d)
    BY <1>1, <2>4, GapIs
  <2> QED
    BY <2>1, <2>3, <2>5, <2>6, LossIs
<1>3. TwiceGrad("boundary", t, of) = 2 * BoundaryPart(x, b, of)
  <2>1. <<b>> \in [1..1 -> Balls] /\ <<b>>[1] = b
    BY <1>1
  <2>2. BoundaryGrad(p, <<b>>, 1)[of] = BoundaryPart(x, b, of)
    BY <1>1, <2>1, BoundaryOfOne
  <2> QED
    BY <2>2, GradIs DEF TwiceGrad, Term
<1>4. BoundaryPart(x, b, of) = DepthRate(Gap(x, b), 0, along)
  BY <1>1 DEF BoundaryPart, DepthRate
<1>5. Between(2 * DepthRate(Gap(x, b), 0, along),
              Slope(-1, D(-1), D(0), D(-2)), Slope(1, D(1), D(0), D(2)))
  BY <1>1, DepthSlopes
<1> HIDE DEF t
<1>6. /\ TwiceSlope("boundary", t, of, 1) = Slope(1, L(1), L(0), L(2))
      /\ TwiceSlope("boundary", t, of, -1) = Slope(-1, L(-1), L(0), L(-2))
  BY <1>2, SlopeAt
<1> HIDE DEF L, D, along
<1>7. L(0) = D(0) /\ L(1) = D(1) /\ L(2) = D(2) /\ L(-1) = D(-1) /\ L(-2) = D(-2)
  BY <1>2, StepsAre
<1> QED
  BY <1>3, <1>4, <1>5, <1>6, <1>7 DEF IsDerivative, t

\* The boundary gradient is derived, term by term.
LEMMA BoundaryIsDerived ==
  ASSUME NEW n \in Nat, n # 0, NEW bs \in [1..n -> FourBalls], NEW j \in 1..n, NEW of \in Coordinates,
         NEW p \in Problems
  PROVE  IsDerived("boundary", Term(p, bs, j), of)
<1> DEFINE whole == Term(p, bs, j)
           S == DOMAIN p.surface
           b == bs[j]
           terms == Terms("boundary", whole)
           v == BoundaryParts(p, b, of)
           f == [d \in Steps |-> [s \in S |-> Immersed(p.surface[s], Shifted(b, of, d))]]
           k == [s \in S |-> BoundaryRest(p.surface[s], bs, j)]
           rest == SumFunction(k)
<1>1. IsFiniteSet(S) /\ b \in FourBalls /\ b \in Balls /\ bs \in [1..n -> Balls]
  BY SurfaceHas, StepsOf
<1>2. /\ whole.p = p /\ whole.bs = bs /\ whole.j = j /\ IsTerm(whole)
      /\ \A d \in Steps : At("boundary", whole, of, d) = Boundary(p, Stepped(bs, j, of, d))
  BY PackingIs, LossIs
<1>3. terms = [s \in S |-> Term(OneSurface(p, s), <<b>>, 1)]
  <2> HIDE DEF whole
  <2> QED
    BY <1>2 DEF Terms
<1> HIDE DEF b
<1>4. \A s \in S : /\ terms[s] = Term(OneSurface(p, s), <<b>>, 1)
                   /\ terms[s].p = OneSurface(p, s) /\ terms[s].bs = <<b>> /\ terms[s].j = 1
                   /\ IsTerm(terms[s])
                   /\ \A d \in Steps : At("boundary", terms[s], of, d)
                                         = Boundary(OneSurface(p, s), Stepped(<<b>>, 1, of, d))
  <2> SUFFICES ASSUME NEW s \in S
               PROVE  /\ terms[s] = Term(OneSurface(p, s), <<b>>, 1)
                      /\ terms[s].p = OneSurface(p, s) /\ terms[s].bs = <<b>> /\ terms[s].j = 1
                      /\ IsTerm(terms[s])
                      /\ \A d \in Steps : At("boundary", terms[s], of, d)
                                            = Boundary(OneSurface(p, s), Stepped(<<b>>, 1, of, d))
    OBVIOUS
  <2> DEFINE q == OneSurface(p, s)
  <2>1. terms[s] = Term(q, <<b>>, 1)
    BY <1>3
  <2>2. Term(q, <<b>>, 1).p = q /\ Term(q, <<b>>, 1).bs = <<b>> /\ Term(q, <<b>>, 1).j = 1
    BY DEF Term
  <2> HIDE DEF q, terms
  <2>3. /\ IsTerm(Term(q, <<b>>, 1))
        /\ \A d : At("boundary", Term(q, <<b>>, 1), of, d) = Loss("boundary", q, Stepped(<<b>>, 1, of, d))
    BY <1>1, OneBall
  <2> QED
    BY <2>1, <2>2, <2>3, LossIs DEF q
<1>5. \A s \in S : /\ p.surface[s] \in Fours /\ p.surface[s] \in Int /\ OneSurface(p, s) \in Problems
                   /\ DOMAIN OneSurface(p, s).surface = {1} /\ OneSurface(p, s).surface[1] = p.surface[s]
  BY OneSurfaceIs, OneIs, SurfaceHas
<1> HIDE DEF terms
<1>6. TermsAreDerived("boundary", whole, of)
  <2>1. \A s \in S : IsDerivative("boundary", terms[s], of)
    BY <1>1, <1>4, <1>5, BoundaryTerm
  <2> QED
    BY <1>3, <2>1 DEF TermsAreDerived, terms
<1>7. v \in [S -> Int] /\ BoundaryGrad(p, bs, j)[of] = SumFunction(v)
  BY <1>1, BoundaryGradIs DEF b
<1>8. \A s \in S : BoundaryGrad(OneSurface(p, s), <<b>>, 1)[of] = v[s]
  <2>1. <<b>> \in [1..1 -> Balls] /\ <<b>>[1] = b
    BY <1>1
  <2> QED
    BY <1>5, <2>1, BoundaryOfOne DEF BoundaryParts
<1>9. GradSums("boundary", whole, terms, of, v)
  <2> HIDE DEF v, whole
  <2>1. BoundaryGrad(whole.p, whole.bs, whole.j)[of] = SumFunction(v)
    BY <1>2, <1>7
  <2>2. \A s \in S : BoundaryGrad(terms[s].p, terms[s].bs, terms[s].j)[of] = v[s]
    BY <1>4, <1>8
  <2>3. S = DOMAIN terms
    BY <1>3
  <2> QED
    BY <2>1, <2>2, <2>3, GradIs DEF GradSums
<1>10. \A d \in Steps, s \in S : f[d][s] = Immersed(p.surface[s], Shifted(b, of, d)) /\ f[d][s] \in Int
  <2>1. \A d \in Steps : Shifted(b, of, d) \in Balls
    BY <1>1, ShiftedIs, StepsAre DEF Coordinates
  <2> QED
    BY <1>5, <2>1, GapIs
<1>11. \A d \in Steps, s \in S : Boundary(OneSurface(p, s), Stepped(<<b>>, 1, of, d)) = f[d][s]
  <2>1. \A d \in Steps : /\ Stepped(<<b>>, 1, of, d) \in [1..1 -> Balls]
                         /\ Stepped(<<b>>, 1, of, d)[1] = Shifted(b, of, d)
    BY <1>1, OneBall
  <2> QED
    BY <1>5, <1>10, <2>1, BoundaryOfOne
<1>12. \A d \in Steps : f[d] \in [S -> Int]
  BY <1>10
<1>13. \A s \in S, d \in Steps : /\ k[s] \in Int /\ k[s] = BoundaryRest(p.surface[s], bs, j)
                                 /\ BoundaryOf(p.surface[s], Stepped(bs, j, of, d)) = f[d][s] + k[s]
  <2> SUFFICES ASSUME NEW s \in S, NEW d \in Steps
               PROVE  /\ k[s] \in Int /\ k[s] = BoundaryRest(p.surface[s], bs, j)
                      /\ BoundaryOf(p.surface[s], Stepped(bs, j, of, d)) = f[d][s] + k[s]
    OBVIOUS
  <2>1. k[s] = BoundaryRest(p.surface[s], bs, j) /\ p.surface[s] \in Int
    BY <1>5
  <2>2. /\ BoundaryOf(p.surface[s], Stepped(bs, j, of, d))
             = Immersed(p.surface[s], Shifted(bs[j], of, d)) + BoundaryRest(p.surface[s], bs, j)
        /\ BoundaryRest(p.surface[s], bs, j) \in Int
    BY <2>1, BoundarySplits
  <2>3. f[d][s] = Immersed(p.surface[s], Shifted(bs[j], of, d))
    BY <1>10 DEF b
  <2> HIDE DEF f, k
  <2> QED
    BY <2>1, <2>2, <2>3
<1>14. k \in [S -> Int]
  BY <1>13, StepsAre
<1>15. \A d \in Steps : Boundary(p, Stepped(bs, j, of, d)) = Plus(rest, f[d])
  <2> SUFFICES ASSUME NEW d \in Steps PROVE Boundary(p, Stepped(bs, j, of, d)) = Plus(rest, f[d])
    OBVIOUS
  <2> DEFINE cs == Stepped(bs, j, of, d)
             g == [s \in S |-> BoundaryOf(p.surface[s], cs)]
             a == f[d]
  <2>1. Boundary(p, cs) = SumFunction(g)
    BY DEF Boundary, BoundaryOf, Immersed
  <2>2. a \in [S -> Int]
    BY <1>12
  <2> HIDE DEF cs, f, k
  <2>3. g = [s \in S |-> a[s] + k[s]]
    BY <1>13 DEF cs
  <2> HIDE DEF g, a
  <2>4. SumsBoth(S, g, a, k)
    BY <1>1, <1>14, <2>2, <2>3 DEF SumsBoth
  <2>5. SumFunction(g) = SumFunction(k) + SumFunction(a)
    BY <2>4, SumOfBoth
  <2> QED
    BY <2>1, <2>5 DEF Plus, cs, a
<1>16. rest \in Int
  <2> HIDE DEF k
  <2> QED
    BY <1>1, <1>14, SplitSum
<1>17. f \in [Steps -> [S -> Int]]
  BY <1>12
<1> HIDE DEF f, v, rest
<1>18. LossSums("boundary", whole, terms, of, f, rest)
  BY <1>2, <1>3, <1>4, <1>11, <1>15 DEF LossSums
<1>19. Splits("boundary", whole, terms, of, v, rest, f)
  BY <1>1, <1>2, <1>3, <1>4, <1>6, <1>7, <1>9, <1>16, <1>17, <1>18 DEF Splits, terms
<1> HIDE DEF whole
<1> QED
  BY <1>19, DerivedIf DEF whole
-----------------------------------------------------------------------------
(***************************************************************************)
(* A sum over pairs: what one index contributes, in its row and in its     *)
(* column, and the pairs without it.                                       *)
(***************************************************************************)
RowOf(D, w, i)    == [k \in D \ {i} |-> w[i][k]]
PairsOf(D, w)     == SumFunction([i \in D |-> SumFunction(RowOf(D, w, i))])
CrossOf(D, w, j)  == [k \in D \ {j} |-> w[j][k] + w[k][j]]
IsMatrix(D, w)    == IsFiniteSet(D) /\ w \in [D -> [D -> Int]]

\* Entries, rows and sums of a matrix are integers.
LEMMA MatrixIs ==
  ASSUME NEW D, NEW w, IsMatrix(D, w)
  PROVE  /\ \A i, k \in D : w[i][k] \in Int
         /\ \A i \in D : RowOf(D, w, i) \in [D \ {i} -> Int] /\ SumFunction(RowOf(D, w, i)) \in Int
         /\ \A i \in D : IsFiniteSet(D \ {i})
         /\ [i \in D |-> SumFunction(RowOf(D, w, i))] \in [D -> Int]
         /\ PairsOf(D, w) \in Int
<1>1. IsFiniteSet(D) /\ \A i, k \in D : w[i][k] \in Int
  BY DEF IsMatrix
<1>2. \A i \in D : IsFiniteSet(D \ {i}) /\ RowOf(D, w, i) \in [D \ {i} -> Int]
  BY <1>1, FS_RemoveElement DEF RowOf
<1>3. \A i \in D : SumFunction(RowOf(D, w, i)) \in Int
  BY <1>2, SplitSum
<1> DEFINE f == [i \in D |-> SumFunction(RowOf(D, w, i))]
<1>4. f \in [D -> Int]
  BY <1>3
<1>5. SumFunction(f) \in Int
  <2> HIDE DEF f
  <2> QED
    BY <1>1, <1>4, SplitSum
<1> QED
  BY <1>1, <1>2, <1>3, <1>4, <1>5 DEF PairsOf

\* A row without the column j.
LEMMA RowSplits ==
  ASSUME NEW D, NEW w, IsMatrix(D, w), NEW j \in D, NEW i \in D, i # j
  PROVE  /\ SumFunction(RowOf(D, w, i)) = SumFunction(RowOf(D \ {j}, w, i)) + w[i][j]
         /\ SumFunction(RowOf(D \ {j}, w, i)) \in Int
<1> DEFINE S == D \ {i}
           f == RowOf(D, w, i)
           g == RowOf(D \ {j}, w, i)
<1>1. IsFiniteSet(S) /\ f \in [S -> Int] /\ j \in S
  BY MatrixIs
<1>2. S \ {j} = (D \ {j}) \ {i}
  OBVIOUS
<1>3. g = [y \in S \ {j} |-> f[y]] /\ f[j] = w[i][j]
  BY <1>1, <1>2 DEF RowOf
<1> HIDE DEF S, f, g
<1>4. SplitOff(S, f, j, g)
  BY <1>1, <1>3 DEF SplitOff
<1>5. SumFunction(f) = SumFunction(g) + f[j] /\ SumFunction(g) \in Int
  BY <1>4, SumSplitOff
<1> QED
  BY <1>3, <1>5 DEF f, g

\* The pairs with j and those without.
LEMMA PairsSplit ==
  ASSUME NEW D, NEW w, IsMatrix(D, w), NEW j \in D
  PROVE  /\ PairsOf(D, w) = PairsOf(D \ {j}, w) + SumFunction(CrossOf(D, w, j))
         /\ CrossOf(D, w, j) \in [D \ {j} -> Int]
         /\ PairsOf(D \ {j}, w) \in Int
<1> DEFINE E == D \ {j}
           rows == [i \in D |-> SumFunction(RowOf(D, w, i))]
           others == [i \in E |-> rows[i]]
           less == [i \in E |-> SumFunction(RowOf(E, w, i))]
           column == [i \in E |-> w[i][j]]
           row == RowOf(D, w, j)
           cross == CrossOf(D, w, j)
<1>1. IsFiniteSet(D) /\ IsFiniteSet(E) /\ rows \in [D -> Int] /\ PairsOf(D, w) = SumFunction(rows)
  BY MatrixIs DEF PairsOf, IsMatrix
<1>2. row \in [E -> Int] /\ \A i, k \in D : w[i][k] \in Int
  BY MatrixIs
<1>3. column \in [E -> Int] /\ cross \in [E -> Int]
  BY <1>2 DEF CrossOf
<1>4. \A i \in E : /\ SumFunction(RowOf(E, w, i)) \in Int
                   /\ SumFunction(RowOf(D, w, i)) = SumFunction(RowOf(E, w, i)) + w[i][j]
  <2> SUFFICES ASSUME NEW i \in E
               PROVE  /\ SumFunction(RowOf(E, w, i)) \in Int
                      /\ SumFunction(RowOf(D, w, i)) = SumFunction(RowOf(E, w, i)) + w[i][j]
    OBVIOUS
  <2>1. i \in D /\ i # j
    OBVIOUS
  <2> QED
    BY <2>1, RowSplits
<1>5. less \in [E -> Int] /\ PairsOf(E, w) = SumFunction(less)
  BY <1>4 DEF PairsOf
<1>6. \A i \in E : others[i] = less[i] + column[i]
  BY <1>4
<1>7. cross = [s \in E |-> row[s] + column[s]]
  BY DEF CrossOf, RowOf
<1>8. rows[j] = SumFunction(row) /\ DOMAIN others = E
  OBVIOUS
<1>9. SplitOff(D, rows, j, others)
  <2> HIDE DEF rows
  <2> QED
    BY <1>1 DEF SplitOff
<1>10. others = [i \in E |-> others[i]]
  OBVIOUS
<1>j. E = D \ {j}
  OBVIOUS
<1> HIDE DEF E, rows, others, less, column, row, cross
<1>11. SumsBoth(E, others, less, column)
  BY <1>1, <1>3, <1>5, <1>6, <1>10 DEF SumsBoth
<1>12. SumsBoth(E, cross, row, column)
  BY <1>1, <1>2, <1>3, <1>7 DEF SumsBoth
<1>13. SumFunction(rows) = SumFunction(others) + SumFunction(row)
  BY <1>8, <1>9, SumSplitOff
<1>14. /\ SumFunction(others) = SumFunction(column) + SumFunction(less)
       /\ SumFunction(column) \in Int /\ SumFunction(less) \in Int
  BY <1>11, SumOfBoth
<1>15. SumFunction(cross) = SumFunction(column) + SumFunction(row) /\ SumFunction(row) \in Int
  BY <1>12, SumOfBoth
<1>16. SumFunction(rows) = SumFunction(less) + SumFunction(cross)
  BY <1>13, <1>14, <1>15
<1> QED
  BY <1>1, <1>3, <1>5, <1>14, <1>16, <1>j DEF cross

\* The pairs without j are the same whatever its row and column.
LEMMA PairsAgree ==
  ASSUME NEW E, NEW u, NEW w, \A i, k \in E : u[i][k] = w[i][k]
  PROVE  PairsOf(E, u) = PairsOf(E, w)
<1>1. \A i \in E : RowOf(E, u, i) = RowOf(E, w, i)
  BY DEF RowOf
<1> QED
  BY <1>1 DEF PairsOf

\* Two indices make two pairs.
LEMMA PairOfTwo ==
  ASSUME NEW w, IsMatrix({1, 2}, w)
  PROVE  PairsOf({1, 2}, w) = w[1][2] + w[2][1]
<1> DEFINE D == {1, 2}
           cross == CrossOf(D, w, 1)
           none == [i \in {2} |-> SumFunction(RowOf({2}, w, i))]
<1>1. D \ {1} = {2} /\ 1 \in D
  OBVIOUS
<1>2. cross \in [{2} -> Int] /\ PairsOf(D, w) = PairsOf({2}, w) + SumFunction(cross)
  BY <1>1, PairsSplit
<1>3. cross[2] = w[1][2] + w[2][1] /\ cross[2] \in Int
  BY <1>1, <1>2 DEF CrossOf
<1>4. SumFunction(cross) = cross[2]
  <2> HIDE DEF cross
  <2> QED
    BY <1>2, SumOfOne
<1>5. DOMAIN RowOf({2}, w, 2) = {}
  BY DEF RowOf
<1>6. none[2] = 0 /\ none \in [{2} -> Int]
  BY <1>5, SumOfNone
<1>7. SumFunction(none) = 0
  <2> HIDE DEF none
  <2> QED
    BY <1>6, SumOfOne
<1> QED
  BY <1>2, <1>3, <1>4, <1>7 DEF PairsOf
-----------------------------------------------------------------------------
(***************************************************************************)
(* Overlap and containment: one term for each other sphere.                *)
(***************************************************************************)
PairIds == {"overlap", "containment"}

\* How deep sphere a lies inside sphere b; what two spheres add to a loss.
DepthIn(a, b) == Positive(b.radius - (Dist(a.center, b.center) + a.radius))
Shared(a, b) == Positive(a.radius + b.radius - Dist(a.center, b.center))
PairPart(id, a, b) == IF id = "overlap" THEN Shared(a, b) ELSE DepthIn(a, b) * DepthIn(a, b)
Both(id, a, b) == PairPart(id, a, b) + PairPart(id, b, a)
PairRow(id, cs, i) == [k \in DOMAIN cs |-> PairPart(id, cs[i], cs[k])]
PairMatrix(id, cs) == [i \in DOMAIN cs |-> PairRow(id, cs, i)]

\* What the sphere b adds to the gradient of the sphere a.
OverlapPart(a, b, of) ==
  IF a.radius + b.radius - Dist(a.center, b.center) > 0 THEN -2 * Towards(a, b.center, of) ELSE 0
WithinPart(a, b, of) ==
  IF of = "center" THEN -2 * (DepthIn(a, b) + DepthIn(b, a)) * Along(a, b.center)
  ELSE 2 * (DepthIn(b, a) - DepthIn(a, b))
PairGrad(id, a, b, of) == IF id = "overlap" THEN OverlapPart(a, b, of) ELSE WithinPart(a, b, of)
PairGrads(id, bs, j, of) == [k \in Others(bs, j) |-> PairGrad(id, bs[j], bs[k], of)]

\* Depths of two spheres in each other.
LEMMA WithinIs ==
  ASSUME NEW a \in Balls, NEW b \in Balls
  PROVE  /\ a.center \in Int /\ a.radius \in Int
         /\ Dist(a.center, b.center) \in Nat /\ Dist(a.center, b.center) = Dist(b.center, a.center)
         /\ DepthIn(a, b) \in Nat /\ Shared(a, b) \in Nat
<1>1. a.center \in Int /\ a.radius \in Int /\ b.center \in Int /\ b.radius \in Int
  BY DEF Balls
<1>2. Dist(a.center, b.center) \in Nat /\ Dist(a.center, b.center) = Dist(b.center, a.center)
  BY <1>1, Triangle
<1>3. \A x \in Int : Positive(x) \in Nat
  BY DEF Positive
<1>4. /\ b.radius - (Dist(a.center, b.center) + a.radius) \in Int
      /\ a.radius + b.radius - Dist(a.center, b.center) \in Int
  BY <1>1, <1>2
<1> QED
  BY <1>1, <1>2, <1>3, <1>4 DEF DepthIn, Shared

\* What two spheres share is an integer.
LEMMA PairIs ==
  ASSUME NEW id \in PairIds, NEW a \in Balls, NEW b \in Balls, NEW of \in Coordinates
  PROVE  PairPart(id, a, b) \in Int /\ Both(id, a, b) \in Int /\ PairGrad(id, a, b, of) \in Int
<1>1. /\ DepthIn(a, b) \in Nat /\ DepthIn(b, a) \in Nat /\ Shared(a, b) \in Nat /\ Shared(b, a) \in Nat
      /\ b.center \in Int
  BY WithinIs
<1>2. \A x \in Nat : x * x \in Int
  OBVIOUS
<1>3. PairPart(id, a, b) \in Int /\ PairPart(id, b, a) \in Int
  BY <1>1, <1>2 DEF PairPart
<1>4. Both(id, a, b) \in Int
  BY <1>3 DEF Both
<1>5. Towards(a, b.center, of) \in {-1, 0, 1} /\ Along(a, b.center) \in {-1, 0, 1}
  BY <1>1, TowardsIs
<1>6. OverlapPart(a, b, of) \in Int
  BY <1>5 DEF OverlapPart
<1>7. WithinPart(a, b, of) \in Int
  <2> DEFINE u == DepthIn(a, b)
             v == DepthIn(b, a)
             w == Along(a, b.center)
  <2>1. u \in Int /\ v \in Int /\ w \in {-1, 0, 1}
    BY <1>1, <1>5
  <2>2. WithinPart(a, b, of) = IF of = "center" THEN -2 * (u + v) * w ELSE 2 * (v - u)
    BY DEF WithinPart
  <2> HIDE DEF u, v, w
  <2>3. -2 * (u + v) * w \in Int
    BY <2>1
  <2> QED
    BY <2>1, <2>2, <2>3
<1> QED
  BY <1>3, <1>4, <1>6, <1>7 DEF PairGrad

\* Both losses are sums over pairs.
LEMMA PairLossIs ==
  ASSUME NEW n \in Nat, NEW cs \in [1..n -> Balls], NEW id \in PairIds
  PROVE  /\ IsMatrix(1..n, PairMatrix(id, cs))
         /\ \A p : Loss(id, p, cs) = PairsOf(1..n, PairMatrix(id, cs))
<1>1. IsFiniteSet(1..n) /\ DOMAIN cs = 1..n
  BY FS_Interval
<1>2. \A i, k \in 1..n : PairPart(id, cs[i], cs[k]) \in Int
  <2>1. "center" \in Coordinates
    BY DEF Coordinates
  <2> QED
    BY <2>1, PairIs
<1>3. IsMatrix(1..n, PairMatrix(id, cs))
  BY <1>1, <1>2 DEF IsMatrix, PairMatrix, PairRow
<1>4. \A i \in 1..n : RowOf(1..n, PairMatrix(id, cs), i) = [k \in Others(cs, i) |-> PairPart(id, cs[i], cs[k])]
  BY <1>1 DEF RowOf, Others, PairMatrix, PairRow
<1>5. PairsOf(1..n, PairMatrix(id, cs))
        = SumFunction([i \in DOMAIN cs |-> SumFunction([k \in Others(cs, i) |-> PairPart(id, cs[i], cs[k])])])
  BY <1>1, <1>4 DEF PairsOf
<1>6. CASE id = "overlap"
  <2>1. \A i, k : PairPart(id, cs[i], cs[k]) = Positive(Depth(cs, i, k))
    BY <1>6 DEF PairPart, Shared, Depth
  <2>2. Overlap(cs)
          = SumFunction([i \in DOMAIN cs |-> SumFunction([k \in Others(cs, i) |-> PairPart(id, cs[i], cs[k])])])
    BY <2>1 DEF Overlap
  <2> QED
    BY <1>3, <1>5, <1>6, <2>2, LossIs
<1>7. CASE id = "containment"
  <2>1. \A i, k : PairPart(id, cs[i], cs[k]) = Nested(cs, i, k) * Nested(cs, i, k)
    BY <1>7 DEF PairPart, DepthIn, Nested
  <2>2. Containment(cs)
          = SumFunction([i \in DOMAIN cs |-> SumFunction([k \in Others(cs, i) |-> PairPart(id, cs[i], cs[k])])])
    BY <2>1 DEF Containment
  <2> QED
    BY <1>3, <1>5, <1>7, <2>2, LossIs
<1> QED
  BY <1>6, <1>7 DEF PairIds

\* The sum over pairs along a coordinate of sphere j.
PairRest(id, bs, j) == PairsOf(DOMAIN bs \ {j}, PairMatrix(id, bs))
PairValues(id, bs, j, c) == [k \in Others(bs, j) |-> Both(id, c, bs[k])]

\* Only the pairs with sphere j change with it.
LEMMA PairsMove ==
  ASSUME NEW n \in Nat, NEW bs \in [1..n -> FourBalls], NEW j \in 1..n, NEW of \in Coordinates,
         NEW id \in PairIds, NEW d \in Steps
  PROVE  /\ PairValues(id, bs, j, Shifted(bs[j], of, d)) \in [Others(bs, j) -> Int]
         /\ PairRest(id, bs, j) \in Int
         /\ \A p : Loss(id, p, Stepped(bs, j, of, d))
                     = Plus(PairRest(id, bs, j), PairValues(id, bs, j, Shifted(bs[j], of, d)))
<1> DEFINE cs == Stepped(bs, j, of, d)
           c == Shifted(bs[j], of, d)
           D == 1..n
           w == PairMatrix(id, cs)
           u == PairMatrix(id, bs)
<1>1. cs \in [D -> Balls] /\ bs \in [D -> Balls]
  BY StepsOf
<1>2. cs[j] = c /\ \A i \in D \ {j} : cs[i] = bs[i]
  BY StepsOf DEF Stepped, Replaced
<1>3. DOMAIN cs = D /\ DOMAIN bs = D /\ Others(bs, j) = D \ {j} /\ j \in D
  BY <1>1 DEF Others
<1> HIDE DEF cs, c
<1>4. IsMatrix(D, w) /\ IsMatrix(D, u) /\ \A p : Loss(id, p, cs) = PairsOf(D, w)
  BY <1>1, PairLossIs
<1>5. \A i, k \in D \ {j} : u[i][k] = w[i][k]
  BY <1>2, <1>3 DEF PairMatrix, PairRow
<1>6. CrossOf(D, w, j) = PairValues(id, bs, j, c)
  BY <1>2, <1>3 DEF CrossOf, PairMatrix, PairRow, PairValues, Both
<1> HIDE DEF w, u
<1>7. PairsOf(D \ {j}, u) = PairsOf(D \ {j}, w)
  BY <1>5, PairsAgree
<1>8. /\ PairsOf(D, w) = PairsOf(D \ {j}, w) + SumFunction(CrossOf(D, w, j))
      /\ CrossOf(D, w, j) \in [D \ {j} -> Int]
      /\ PairsOf(D \ {j}, w) \in Int
  BY <1>3, <1>4, PairsSplit
<1> QED
  BY <1>3, <1>4, <1>6, <1>7, <1>8 DEF Plus, PairRest, cs, c, u

\* The loss of two spheres.
LEMMA PairLossOfTwo ==
  ASSUME NEW cs \in [1..2 -> Balls], NEW id \in PairIds
  PROVE  \A p : Loss(id, p, cs) = Both(id, cs[1], cs[2])
<1>1. 1..2 = {1, 2} /\ 2 \in Nat
  OBVIOUS
<1>2. IsMatrix({1, 2}, PairMatrix(id, cs)) /\ \A p : Loss(id, p, cs) = PairsOf({1, 2}, PairMatrix(id, cs))
  BY <1>1, PairLossIs
<1>3. DOMAIN cs = {1, 2}
  BY <1>1
<1>4. /\ PairMatrix(id, cs)[1][2] = PairPart(id, cs[1], cs[2])
      /\ PairMatrix(id, cs)[2][1] = PairPart(id, cs[2], cs[1])
  BY <1>3 DEF PairMatrix, PairRow
<1> QED
  BY <1>2, <1>4, PairOfTwo DEF Both
-----------------------------------------------------------------------------
Scaled(S, f, m, h) ==
  IsFiniteSet(S) /\ f \in [S -> Int] /\ m \in Int /\ h = [s \in S |-> m * f[s]]

\* ScaledSum for a function given by its multiple.
LEMMA SumScaled ==
  ASSUME NEW S, NEW f, NEW m, NEW h, Scaled(S, f, m, h)
  PROVE  h \in [S -> Int] /\ SumFunction(f) \in Int /\ SumFunction(h) = m * SumFunction(f)
<1>1. IsFiniteSet(S) /\ f \in [S -> Int] /\ m \in Int
  BY DEF Scaled
<1>2. h \in [S -> Int] /\ \A s \in S : h[s] = m * f[s]
  <2>1. \A s \in S : m * f[s] \in Int
    <3> SUFFICES ASSUME NEW s \in S PROVE m * f[s] \in Int
      OBVIOUS
    <3>1. f[s] \in Int
      BY <1>1
    <3> QED
      BY <1>1, <3>1
  <2> QED
    BY <2>1 DEF Scaled
<1> QED
  BY <1>1, <1>2, ScaledSum

\* Both gradients are sums over the other spheres.
LEMMA PairGradsAre ==
  ASSUME NEW n \in Nat, NEW bs \in [1..n -> Balls], NEW j \in 1..n, NEW of \in Coordinates,
         NEW id \in PairIds
  PROVE  /\ PairGrads(id, bs, j, of) \in [Others(bs, j) -> Int] /\ IsFiniteSet(Others(bs, j))
         /\ \A p : Grad(id, p, bs, j)[of] = SumFunction(PairGrads(id, bs, j, of))
<1> DEFINE S == Others(bs, j)
           h == PairGrads(id, bs, j, of)
<1>1. IsFiniteSet(S) /\ \A k \in S : bs[k] \in Balls /\ bs[k].center \in Int
  <2>1. IsFiniteSet(1..n)
    BY FS_Interval
  <2>2. IsFiniteSet((1..n) \ {j})
    BY <2>1, FS_RemoveElement
  <2>3. S = (1..n) \ {j}
    BY DEF Others
  <2>4. \A k \in S : bs[k] \in Balls
    BY <2>3
  <2> QED
    BY <2>2, <2>3, <2>4, WithinIs
<1>2. h \in [S -> Int]
  <2>1. \A k \in S : PairGrad(id, bs[j], bs[k], of) \in Int
    BY <1>1, PairIs
  <2> QED
    BY <2>1 DEF PairGrads
<1>3. \A k \in S : /\ Along(bs[j], bs[k].center) \in {-1, 0, 1}
                   /\ Towards(bs[j], bs[k].center, "center") = Along(bs[j], bs[k].center)
                   /\ Towards(bs[j], bs[k].center, "radius") = -1
  BY <1>1, TowardsIs
<1>4. CASE id = "overlap"
  <2> DEFINE T == {k \in S : Depth(bs, j, k) > 0}
             f == [k \in T |-> Along(bs[j], bs[k].center)]
  <2>1. f \in [T -> Int] /\ T \in SUBSET S
    BY <1>3
  <2>2. OverlapGrad(bs, j) = Ball(-2 * SumFunction(f), 2 * Cardinality(T))
    BY DEF OverlapGrad
  <2>3. h = [k \in S |-> IF k \in T THEN -2 * Towards(bs[j], bs[k].center, of) ELSE 0]
    BY <1>4 DEF PairGrads, PairGrad, OverlapPart, Depth
  <2>4. \A p : Grad(id, p, bs, j) = OverlapGrad(bs, j)
    BY <1>4, GradIs
  <2> HIDE DEF T, f, h, S
  <2>5. CASE of = "center"
    <3> DEFINE u == [s \in S |-> IF s \in T THEN f[s] ELSE 0]
    <3>1. ZeroElsewhere(S, T, f, u)
      BY <1>1, <2>1 DEF ZeroElsewhere
    <3>2. \A s \in S : h[s] = -2 * u[s]
      BY <1>3, <2>3, <2>5 DEF f
    <3> HIDE DEF u
    <3>3. u \in [S -> Int] /\ SumFunction(f) \in Int /\ SumFunction(u) = SumFunction(f)
      BY <3>1, SumZeroElsewhere
    <3>4. Scaled(S, u, -2, h)
      BY <1>1, <2>3, <3>2, <3>3 DEF Scaled
    <3>5. SumFunction(h) = -2 * SumFunction(u)
      BY <3>4, SumScaled
    <3>6. OverlapGrad(bs, j)[of] = -2 * SumFunction(f)
      BY <2>2, <2>5, BallAt
    <3> QED
      BY <1>1, <1>2, <2>4, <3>3, <3>5, <3>6 DEF h, S
  <2>6. CASE of = "radius"
    <3> DEFINE u == [s \in S |-> IF s \in T THEN 1 ELSE 0]
    <3>1. Counting(S, T, u)
      BY <1>1, <2>1 DEF Counting
    <3>2. \A s \in S : h[s] = 2 * u[s]
      BY <1>3, <2>3, <2>6
    <3> HIDE DEF u
    <3>3. u \in [S -> Int] /\ SumFunction(u) = Cardinality(T)
      BY <3>1, SumCounting
    <3>4. Scaled(S, u, 2, h)
      BY <1>1, <2>3, <3>2, <3>3 DEF Scaled
    <3>5. SumFunction(h) = 2 * SumFunction(u)
      BY <3>4, SumScaled
    <3>6. OverlapGrad(bs, j)[of] = 2 * Cardinality(T)
      BY <2>2, <2>6, BallAt
    <3> QED
      BY <1>1, <1>2, <2>4, <3>3, <3>5, <3>6 DEF h, S
  <2> QED
    BY <2>5, <2>6 DEF Coordinates
<1>5. CASE id = "containment"
  <2> DEFINE f == [k \in S |-> -2 * (Nested(bs, j, k) + Nested(bs, k, j)) * Along(bs[j], bs[k].center)]
             g == [k \in S |-> 2 * (Nested(bs, k, j) - Nested(bs, j, k))]
  <2>1. ContainmentGrad(bs, j) = Ball(SumFunction(f), SumFunction(g))
    BY DEF ContainmentGrad
  <2>2. \A k \in S : Nested(bs, j, k) = DepthIn(bs[j], bs[k]) /\ Nested(bs, k, j) = DepthIn(bs[k], bs[j])
    BY DEF Nested, DepthIn
  <2>3. h = IF of = "center" THEN f ELSE g
    BY <1>5, <2>2 DEF PairGrads, PairGrad, WithinPart
  <2>4. \A p : Grad(id, p, bs, j) = ContainmentGrad(bs, j)
    BY <1>5, GradIs
  <2> HIDE DEF f, g, h
  <2>5. ContainmentGrad(bs, j)[of] = SumFunction(h)
    BY <2>1, <2>3, BallAt DEF Coordinates
  <2> QED
    BY <1>1, <1>2, <2>4, <2>5 DEF h
<1> QED
  BY <1>4, <1>5 DEF PairIds

\* Two spheres on their own.
FirstOfTwo(n, j) == n = 2 /\ j = 1

\* The gradient of the first of two spheres.
LEMMA PairGradOfTwo ==
  ASSUME NEW cs \in [1..2 -> Balls], NEW of \in Coordinates, NEW id \in PairIds
  PROVE  \A p : Grad(id, p, cs, 1)[of] = PairGrad(id, cs[1], cs[2], of)
<1>1. 2 \in Nat /\ 1 \in 1..2
  OBVIOUS
<1>2. /\ PairGrads(id, cs, 1, of) \in [Others(cs, 1) -> Int]
      /\ \A p : Grad(id, p, cs, 1)[of] = SumFunction(PairGrads(id, cs, 1, of))
  BY <1>1, PairGradsAre
<1>3. Others(cs, 1) = {2}
  BY DEF Others
<1>4. PairGrads(id, cs, 1, of)[2] = PairGrad(id, cs[1], cs[2], of)
  BY <1>3 DEF PairGrads
<1> QED
  BY <1>2, <1>3, <1>4, SumOfOne

\* A packing of two spheres and its steps.
LEMMA TwoBalls ==
  ASSUME NEW a \in FourBalls, NEW b \in FourBalls, NEW of \in Coordinates, NEW p
  PROVE  /\ <<a, b>> \in [1..2 -> Balls] /\ <<a, b>>[1] = a /\ <<a, b>>[2] = b
         /\ IsTerm(Term(p, <<a, b>>, 1))
         /\ \A d \in Steps : /\ Stepped(<<a, b>>, 1, of, d) \in [1..2 -> Balls]
                             /\ Stepped(<<a, b>>, 1, of, d)[1] = Shifted(a, of, d)
                             /\ Stepped(<<a, b>>, 1, of, d)[2] = b
         /\ \A id : \A d : At(id, Term(p, <<a, b>>, 1), of, d) = Loss(id, p, Stepped(<<a, b>>, 1, of, d))
<1> DEFINE bs == <<a, b>>
<1>1. bs \in [1..2 -> FourBalls] /\ bs[1] = a /\ bs[2] = b /\ 1 \in 1..2 /\ 2 \in Nat
  OBVIOUS
<1> HIDE DEF bs
<1>2. PICK n \in Nat, j \in 1..2 : FirstOfTwo(n, j) /\ j \in 1..n /\ bs \in [1..n -> FourBalls]
  BY <1>1 DEF FirstOfTwo
<1>4. /\ bs \in [1..n -> Balls] /\ IsTerm(Term(p, bs, j))
      /\ \A d \in Steps : Stepped(bs, j, of, d) \in [1..n -> Balls]
      /\ \A id : \A d : At(id, Term(p, bs, j), of, d) = Loss(id, p, Stepped(bs, j, of, d))
  BY <1>2, PackingIs
<1>3. \A d \in Steps : Stepped(bs, 1, of, d)[1] = Shifted(a, of, d) /\ Stepped(bs, 1, of, d)[2] = b
  BY <1>1 DEF Stepped, Replaced
<1> QED
  BY <1>1, <1>2, <1>3, <1>4 DEF bs, FirstOfTwo
-----------------------------------------------------------------------------
\* Two spheres, one of which moves: where the slopes of their share lie.
PairSteps(id, a, b, of, d) == Both(id, Shifted(a, of, d), b)
PairSlopes(id, a, b, of) ==
  Between(2 * PairGrad(id, a, b, of),
          Slope(-1, PairSteps(id, a, b, of, -1), PairSteps(id, a, b, of, 0), PairSteps(id, a, b, of, -2)),
          Slope(1, PairSteps(id, a, b, of, 1), PairSteps(id, a, b, of, 0), PairSteps(id, a, b, of, 2)))

\* Twice what lies between two slopes lies between twice the slopes.
LEMMA Doubled ==
  ASSUME NEW x \in Int, NEW a1 \in Int, NEW a2 \in Int, NEW zero \in Int, NEW b1 \in Int, NEW b2 \in Int
  PROVE  Between(2 * x, Slope(-1, a1, zero, a2), Slope(1, b1, zero, b2)) =>
           Between(4 * x, Slope(-1, 2 * a1, 2 * zero, 2 * a2), Slope(1, 2 * b1, 2 * zero, 2 * b2))
BY DEF Between, Slope

\* The overlap of two spheres: its gradient lies between its slopes.
LEMMA OverlapSlopes ==
  ASSUME NEW a \in FourBalls, NEW b \in FourBalls, NEW of \in Coordinates
  PROVE  PairSlopes("overlap", a, b, of)
<1> DEFINE x == b.center
           r == b.radius
           D(d) == DepthAt(r, Gap(x, Shifted(a, of, d)))
           along == Towards(a, x, of)
           rate == DepthRate(Gap(x, a), r, along)
<1>1. x \in Fours /\ r \in Fours /\ x \in Int /\ r \in Int /\ a \in Balls /\ b \in Balls
  BY FourBallIs
<1>2. Between(2 * rate, Slope(-1, D(-1), D(0), D(-2)), Slope(1, D(1), D(0), D(2)))
  BY <1>1, DepthSlopes
<1>3. ASSUME NEW c \in Balls
      PROVE  /\ Both("overlap", c, b) = 2 * DepthAt(r, Gap(x, c)) /\ DepthAt(r, Gap(x, c)) \in Int
             /\ c.radius + b.radius - Dist(c.center, b.center) = r - Gap(x, c)
  <2>1. /\ c.center \in Int /\ c.radius \in Int
        /\ Dist(c.center, x) \in Nat /\ Dist(c.center, x) = Dist(x, c.center)
    BY <1>1, WithinIs
  <2>2. Dist(x, c.center) = Dist(c.center, x) /\ Gap(x, c) = Dist(c.center, x) - c.radius
    BY <2>1 DEF Gap
  <2>3. c.radius + r - Dist(c.center, x) = r - Gap(x, c) /\ r + c.radius - Dist(x, c.center) = r - Gap(x, c)
        /\ r - Gap(x, c) \in Int
    BY <1>1, <2>1, <2>2
  <2>4. Shared(c, b) = DepthAt(r, Gap(x, c)) /\ Shared(b, c) = DepthAt(r, Gap(x, c))
    BY <2>3 DEF Shared, DepthAt
  <2>5. DepthAt(r, Gap(x, c)) \in Int
    BY <2>3 DEF DepthAt, Positive
  <2>6. Both("overlap", c, b) = DepthAt(r, Gap(x, c)) + DepthAt(r, Gap(x, c))
    BY <2>4 DEF Both, PairPart
  <2> QED
    BY <2>3, <2>5, <2>6
<1>4. \A d \in Steps : Shifted(a, of, d) \in Balls
  BY <1>1, ShiftedIs, StepsAre DEF Coordinates
<1>5. \A d \in Steps : PairSteps("overlap", a, b, of, d) = 2 * D(d) /\ D(d) \in Int
  BY <1>3, <1>4 DEF PairSteps
<1>6. along \in {-1, 0, 1}
  BY <1>1, TowardsIs
<1>7. PairGrad("overlap", a, b, of) = 2 * rate /\ rate \in Int
  <2>1. a.radius + b.radius - Dist(a.center, b.center) = r - Gap(x, a)
    BY <1>1, <1>3
  <2>2. PairGrad("overlap", a, b, of) = IF r - Gap(x, a) > 0 THEN -2 * along ELSE 0
    BY <2>1 DEF PairGrad, OverlapPart
  <2>3. rate = IF r - Gap(x, a) > 0 THEN 0 - along ELSE 0
    BY DEF DepthRate
  <2> HIDE DEF rate, along, x, r
  <2> QED
    BY <1>6, <2>2, <2>3
<1> HIDE DEF D, rate
<1>8. D(0) \in Int /\ D(1) \in Int /\ D(2) \in Int /\ D(-1) \in Int /\ D(-2) \in Int
  BY <1>5, StepsAre
<1>9. /\ PairSteps("overlap", a, b, of, 0) = 2 * D(0)
      /\ PairSteps("overlap", a, b, of, 1) = 2 * D(1) /\ PairSteps("overlap", a, b, of, 2) = 2 * D(2)
      /\ PairSteps("overlap", a, b, of, -1) = 2 * D(-1) /\ PairSteps("overlap", a, b, of, -2) = 2 * D(-2)
  BY <1>5, StepsAre
<1>10. Between(4 * rate, Slope(-1, 2 * D(-1), 2 * D(0), 2 * D(-2)), Slope(1, 2 * D(1), 2 * D(0), 2 * D(2)))
  BY <1>2, <1>7, <1>8, Doubled
<1>11. 2 * PairGrad("overlap", a, b, of) = 4 * rate
  BY <1>7
<1> QED
  BY <1>9, <1>10, <1>11 DEF PairSlopes

\* The square of a positive part a step away, and two.
Sq(x) == Positive(x) * Positive(x)

\* Such a square has no kink.
LEMMA SqSlope ==
  ASSUME NEW x \in Fours, NEW way \in {-1, 1}
  PROVE  /\ 4 * Sq(x + way) - 3 * Sq(x) - Sq(x + 2 * way) = 4 * way * Positive(x)
         /\ Sq(x + way) \in Int /\ Sq(x) \in Int /\ Sq(x + 2 * way) \in Int /\ Positive(x) \in Nat
<1>1. way * 1 = way /\ way * 2 = 2 * way /\ x \in Int /\ way \in Int
  BY FoursAre
<1>2. 4 * Sq(x + way) - 3 * Sq(x) - Sq(x + 2 * way) = 4 * way * Positive(x)
  BY <1>1, SquareSlope DEF Sq
<1>3. \A y \in Int : Sq(y) \in Int
  BY IntegersAre DEF Sq
<1>4. x + way \in Int /\ x + 2 * way \in Int /\ Positive(x) \in Nat
  BY <1>1 DEF Positive
<1> QED
  BY <1>1, <1>2, <1>3, <1>4

\* Two squares that move along, each its way.
SquaresMove(x, y, u, v, one, zero, two) ==
  /\ x \in Fours /\ y \in Fours /\ u \in {-1, 1} /\ v \in {-1, 1}
  /\ one = Sq(x + u) + Sq(y + v) /\ zero = Sq(x) + Sq(y) /\ two = Sq(x + 2 * u) + Sq(y + 2 * v)

\* Their slopes are those of both.
LEMMA TwoSquares ==
  ASSUME NEW x, NEW y, NEW u, NEW v, NEW one, NEW zero, NEW two, SquaresMove(x, y, u, v, one, zero, two)
  PROVE  /\ 4 * one - 3 * zero - two = 4 * u * Positive(x) + 4 * v * Positive(y)
         /\ one \in Int /\ zero \in Int /\ two \in Int
         /\ Positive(x) \in Nat /\ Positive(y) \in Nat
<1>1. /\ x \in Fours /\ y \in Fours /\ u \in {-1, 1} /\ v \in {-1, 1}
      /\ one = Sq(x + u) + Sq(y + v) /\ zero = Sq(x) + Sq(y) /\ two = Sq(x + 2 * u) + Sq(y + 2 * v)
  BY DEF SquaresMove
<1> DEFINE a1 == Sq(x + u)
           a0 == Sq(x)
           a2 == Sq(x + 2 * u)
           b1 == Sq(y + v)
           b0 == Sq(y)
           b2 == Sq(y + 2 * v)
           p == 4 * u * Positive(x)
           q == 4 * v * Positive(y)
<1>2. 4 * a1 - 3 * a0 - a2 = p /\ a1 \in Int /\ a0 \in Int /\ a2 \in Int /\ Positive(x) \in Nat
  BY <1>1, SqSlope
<1>3. 4 * b1 - 3 * b0 - b2 = q /\ b1 \in Int /\ b0 \in Int /\ b2 \in Int /\ Positive(y) \in Nat
  BY <1>1, SqSlope
<1>4. one = a1 + b1 /\ zero = a0 + b0 /\ two = a2 + b2
  BY <1>1
<1> HIDE DEF a1, a0, a2, b1, b0, b2, p, q
<1>5. 4 * one - 3 * zero - two = p + q
  BY <1>2, <1>3, <1>4
<1> QED
  BY <1>2, <1>3, <1>4, <1>5 DEF p, q
-----------------------------------------------------------------------------
\* How deep two spheres are inside each other, from the gap at the center of b.
Outer(b, c) == 0 - Gap(b.center, c) - b.radius
Inner(b, c) == b.radius - Gap(b.center, c) - 2 * c.radius

\* The depths of two spheres in each other, from that gap.
LEMMA WithinAt ==
  ASSUME NEW b \in Balls, NEW c \in Balls
  PROVE  /\ DepthIn(b, c) = Positive(Outer(b, c)) /\ DepthIn(c, b) = Positive(Inner(b, c))
         /\ Both("containment", c, b) = Sq(Outer(b, c)) + Sq(Inner(b, c))
         /\ Outer(b, c) \in Int /\ Inner(b, c) \in Int
<1>1. /\ c.center \in Int /\ c.radius \in Int
      /\ Dist(c.center, b.center) \in Nat /\ Dist(c.center, b.center) = Dist(b.center, c.center)
  BY WithinIs
<1>2. b.radius \in Int /\ b.center \in Int
  BY WithinIs
<1>3. Gap(b.center, c) = Dist(c.center, b.center) - c.radius
  BY <1>1 DEF Gap
<1>4. /\ c.radius - (Dist(c.center, b.center) + b.radius) = Outer(b, c)
      /\ b.radius - (Dist(c.center, b.center) + c.radius) = Inner(b, c)
      /\ Outer(b, c) \in Int /\ Inner(b, c) \in Int
  BY <1>1, <1>2, <1>3 DEF Outer, Inner
<1>5. DepthIn(b, c) = Positive(Outer(b, c)) /\ DepthIn(c, b) = Positive(Inner(b, c))
  BY <1>1, <1>4 DEF DepthIn
<1>6. Positive(Outer(b, c)) \in Int /\ Positive(Inner(b, c)) \in Int
  BY <1>4, IntegersAre
<1>7. Sq(Outer(b, c)) \in Int /\ Sq(Inner(b, c)) \in Int
  BY <1>4, IntegersAre DEF Sq
<1>8. Both("containment", c, b) = Sq(Inner(b, c)) + Sq(Outer(b, c))
  BY <1>5 DEF Both, PairPart, Sq
<1> QED
  BY <1>4, <1>5, <1>7, <1>8

\* Both depths along a coordinate, from where the gap goes.
Contrary(way) == IF way = 1 THEN -1 ELSE 1
InnerWay(of, way) == IF of = "center" THEN Contrary(way) ELSE way

\* Both go straight along every coordinate.
LEMMA WithinSteps ==
  ASSUME NEW a \in FourBalls, NEW b \in FourBalls, NEW of \in Coordinates
  PROVE  \E x, y, up, down :
           /\ x = Outer(b, a) /\ y = Inner(b, a) /\ up \in {-1, 1} /\ down \in {-1, 1}
           /\ Bends(Towards(a, b.center, of), up, down)
           /\ SquaresMove(x, y, Contrary(up), InnerWay(of, up),
                PairSteps("containment", a, b, of, 1), PairSteps("containment", a, b, of, 0),
                PairSteps("containment", a, b, of, 2))
           /\ SquaresMove(x, y, Contrary(down), InnerWay(of, down),
                PairSteps("containment", a, b, of, -1), PairSteps("containment", a, b, of, 0),
                PairSteps("containment", a, b, of, -2))
<1> DEFINE p == b.center
           r == b.radius
           s == a.radius
           x == Outer(b, a)
           y == Inner(b, a)
           E(d) == Shifted(a, of, d)
<1>1. p \in Fours /\ r \in Fours /\ s \in Fours /\ a \in Balls /\ b \in Balls /\ r \in Int /\ s \in Int
  BY FourBallIs
<1>2. PICK g, up, down : GapsStep(p, a, of, g, up, down)
  BY <1>1, GapStepsIs
<1>3. /\ g = Gap(p, a) /\ g \in Fours /\ g \in Int /\ up \in {-1, 1} /\ down \in {-1, 1}
      /\ Bends(Towards(a, p, of), up, down)
      /\ Gap(p, E(0)) = g /\ Gap(p, E(1)) = g + up /\ Gap(p, E(2)) = g + 2 * up
      /\ Gap(p, E(-1)) = g + down /\ Gap(p, E(-2)) = g + 2 * down
  BY <1>2 DEF GapsStep
<1>4. x \in Fours /\ y \in Fours /\ x = 0 - g - r /\ y = r - g - 2 * s
  <2>1. PICK i \in Int, k \in Int, l \in Int : g = 4 * i /\ r = 4 * k /\ s = 4 * l
    BY <1>1, <1>3 DEF Fours
  <2>2. x = 0 - g - r /\ y = r - g - 2 * s
    BY <1>3 DEF Outer, Inner
  <2>3. x = 4 * (0 - i - k) /\ y = 4 * (k - i - 2 * l) /\ 0 - i - k \in Int /\ k - i - 2 * l \in Int
    BY <2>1, <2>2
  <2> QED
    BY <2>2, <2>3 DEF Fours
<1>5. /\ E(0).radius = s
      /\ of = "center" => E(1).radius = s /\ E(2).radius = s /\ E(-1).radius = s /\ E(-2).radius = s
      /\ of = "radius" => /\ E(1).radius = s + 1 /\ E(2).radius = s + 2
                          /\ E(-1).radius = s - 1 /\ E(-2).radius = s - 2
  <2>1. ASSUME NEW d \in Steps
        PROVE  /\ of = "center" => E(d).radius = s
               /\ of = "radius" => E(d).radius = s + d
               /\ E(0) = a
    <3>1. /\ Shifted(a, "center", d) = Ball(a.center + d, s)
          /\ Shifted(a, "radius", d) = Ball(a.center, s + d)
          /\ Shifted(a, of, 0) = a
      BY <1>1, ShiftedIs, StepsAre DEF Coordinates
    <3> QED
      BY <3>1, BallHas
  <2>2. E(0).radius = s
    BY <2>1, StepsAre
  <2>3. \A d \in Steps : (of = "center" => E(d).radius = s) /\ (of = "radius" => E(d).radius = s + d)
    BY <2>1
  <2> HIDE DEF E, s
  <2>4. of = "center" => E(1).radius = s /\ E(2).radius = s /\ E(-1).radius = s /\ E(-2).radius = s
    BY <2>3, StepsAre
  <2>5. of = "radius" => /\ E(1).radius = s + 1 /\ E(2).radius = s + 2
                         /\ E(-1).radius = s + (-1) /\ E(-2).radius = s + (-2)
    BY <2>3, StepsAre
  <2>6. s \in Int
    BY <1>1 DEF s
  <2> QED
    BY <2>2, <2>4, <2>5, <2>6
<1>6. \A d \in Steps : E(d) \in Balls
  BY <1>1, ShiftedIs, StepsAre DEF Coordinates
<1>7. \A d \in Steps : PairSteps("containment", a, b, of, d) = Sq(Outer(b, E(d))) + Sq(Inner(b, E(d)))
  BY <1>1, <1>6, WithinAt DEF PairSteps
<1>8. of = "radius" => up = -1 /\ down = 1
  <2>1. of = "radius" => Towards(a, p, of) = -1
    BY DEF Towards
  <2> QED
    BY <1>3, <2>1 DEF Bends
<1>9. \A d \in Steps : Outer(b, E(d)) = 0 - Gap(p, E(d)) - r /\ Inner(b, E(d)) = r - Gap(p, E(d)) - 2 * E(d).radius
  BY DEF Outer, Inner
<1>o. of = "center" \/ of = "radius"
  BY DEF Coordinates
<1> HIDE DEF E, x, y, p, r, s
<1>10. /\ Outer(b, E(0)) = x /\ Outer(b, E(1)) = x + Contrary(up) /\ Outer(b, E(2)) = x + 2 * Contrary(up)
       /\ Outer(b, E(-1)) = x + Contrary(down) /\ Outer(b, E(-2)) = x + 2 * Contrary(down)
  <2>1. Outer(b, E(0)) = 0 - g - r /\ Outer(b, E(1)) = 0 - (g + up) - r /\ Outer(b, E(2)) = 0 - (g + 2 * up) - r
        /\ Outer(b, E(-1)) = 0 - (g + down) - r /\ Outer(b, E(-2)) = 0 - (g + 2 * down) - r
    BY <1>3, <1>9, StepsAre
  <2>2. \A way \in {-1, 1} : /\ 0 - (g + way) - r = x + Contrary(way)
                             /\ 0 - (g + 2 * way) - r = x + 2 * Contrary(way)
    BY <1>1, <1>3, <1>4 DEF Contrary, r
  <2> QED
    BY <1>3, <1>4, <2>1, <2>2
<1>11. /\ Inner(b, E(0)) = y
       /\ Inner(b, E(1)) = y + InnerWay(of, up) /\ Inner(b, E(2)) = y + 2 * InnerWay(of, up)
       /\ Inner(b, E(-1)) = y + InnerWay(of, down) /\ Inner(b, E(-2)) = y + 2 * InnerWay(of, down)
  <2>1. /\ Inner(b, E(0)) = r - g - 2 * E(0).radius
        /\ Inner(b, E(1)) = r - (g + up) - 2 * E(1).radius
        /\ Inner(b, E(2)) = r - (g + 2 * up) - 2 * E(2).radius
        /\ Inner(b, E(-1)) = r - (g + down) - 2 * E(-1).radius
        /\ Inner(b, E(-2)) = r - (g + 2 * down) - 2 * E(-2).radius
    BY <1>3, <1>9, StepsAre
  <2>0. r \in Int /\ s \in Int /\ g \in Int
    BY <1>1, <1>3 DEF r, s
  <2>2. CASE of = "center"
    <3>1. \A way \in {-1, 1} : /\ r - (g + way) - 2 * s = y + InnerWay(of, way)
                               /\ r - (g + 2 * way) - 2 * s = y + 2 * InnerWay(of, way)
      BY <1>4, <2>0, <2>2 DEF InnerWay, Contrary
    <3> QED
      BY <1>3, <1>4, <1>5, <2>0, <2>1, <2>2, <3>1
  <2>3. CASE of = "radius"
    <3>1. up = -1 /\ down = 1 /\ InnerWay(of, up) = -1 /\ InnerWay(of, down) = 1
      BY <1>8, <2>3 DEF InnerWay
    <3> QED
      BY <1>4, <1>5, <2>0, <2>1, <2>3, <3>1
  <2> QED
    BY <1>o, <2>2, <2>3
<1>12. \A way \in {-1, 1} : Contrary(way) \in {-1, 1} /\ InnerWay(of, way) \in {-1, 1}
  BY DEF Contrary, InnerWay
<1> DEFINE F(d) == PairSteps("containment", a, b, of, d)
<1>13. /\ F(0) = Sq(Outer(b, E(0))) + Sq(Inner(b, E(0)))
       /\ F(1) = Sq(Outer(b, E(1))) + Sq(Inner(b, E(1))) /\ F(2) = Sq(Outer(b, E(2))) + Sq(Inner(b, E(2)))
       /\ F(-1) = Sq(Outer(b, E(-1))) + Sq(Inner(b, E(-1))) /\ F(-2) = Sq(Outer(b, E(-2))) + Sq(Inner(b, E(-2)))
  BY <1>7, StepsAre
<1> HIDE DEF F
<1>14. SquaresMove(x, y, Contrary(up), InnerWay(of, up), F(1), F(0), F(2))
  BY <1>3, <1>4, <1>10, <1>11, <1>12, <1>13 DEF SquaresMove
<1>15. SquaresMove(x, y, Contrary(down), InnerWay(of, down), F(-1), F(0), F(-2))
  BY <1>3, <1>4, <1>10, <1>11, <1>12, <1>13 DEF SquaresMove
<1> QED
  BY <1>3, <1>14, <1>15 DEF F, x, y, p

\* Slopes of two squares and what the gradient is between them.
KinkOfSquares(of, along, up, down, P, Q, one, zero, two, less, least) ==
  /\ of \in Coordinates /\ up \in {-1, 1} /\ down \in {-1, 1} /\ P \in Nat /\ Q \in Nat
  /\ Bends(along, up, down) /\ (of = "radius" => along = -1)
  /\ one \in Int /\ zero \in Int /\ two \in Int /\ less \in Int /\ least \in Int
  /\ 4 * one - 3 * zero - two = 4 * Contrary(up) * P + 4 * InnerWay(of, up) * Q
  /\ 4 * less - 3 * zero - least = 4 * Contrary(down) * P + 4 * InnerWay(of, down) * Q
GradOfSquares(of, along, P, Q) == IF of = "center" THEN -2 * (Q + P) * along ELSE 2 * (P - Q)

\* In every case the gradient lies between the slopes.
LEMMA SquaresKink ==
  ASSUME NEW of, NEW along, NEW up, NEW down, NEW P, NEW Q, NEW one, NEW zero, NEW two, NEW less, NEW least,
         KinkOfSquares(of, along, up, down, P, Q, one, zero, two, less, least)
  PROVE  Between(2 * GradOfSquares(of, along, P, Q), Slope(-1, less, zero, least), Slope(1, one, zero, two))
<1> USE DEF KinkOfSquares
<1> DEFINE right == 4 * one - 3 * zero - two
           left  == 4 * less - 3 * zero - least
<1>1. right \in Int /\ left \in Int
  OBVIOUS
<1>2. Slope(1, one, zero, two) = right /\ Slope(-1, less, zero, least) = 0 - left
  BY DEF Slope
<1>3. CASE of = "center" /\ along = 0
  <2>1. up = 1 /\ down = 1
    BY <1>3 DEF Bends
  <2>2. right = 0 - 4 * P - 4 * Q /\ left = 0 - 4 * P - 4 * Q
    BY <1>3, <2>1 DEF Contrary, InnerWay
  <2>3. GradOfSquares(of, along, P, Q) = 0
    BY <1>3 DEF GradOfSquares
  <2> HIDE DEF right, left
  <2> QED
    BY <1>2, <2>2, <2>3 DEF Between
<1>4. CASE of = "center" /\ along = 1
  <2>1. up = 1 /\ down = -1
    BY <1>4 DEF Bends
  <2>2. right = 0 - 4 * P - 4 * Q /\ left = 4 * P + 4 * Q
    BY <1>4, <2>1 DEF Contrary, InnerWay
  <2>3. GradOfSquares(of, along, P, Q) = 0 - 2 * P - 2 * Q
    BY <1>4 DEF GradOfSquares
  <2> HIDE DEF right, left
  <2> QED
    BY <1>2, <2>2, <2>3 DEF Between
<1>5. CASE of = "center" /\ along = -1
  <2>1. up = -1 /\ down = 1
    BY <1>5 DEF Bends
  <2>2. right = 4 * P + 4 * Q /\ left = 0 - 4 * P - 4 * Q
    BY <1>5, <2>1 DEF Contrary, InnerWay
  <2>3. GradOfSquares(of, along, P, Q) = 2 * P + 2 * Q
    BY <1>5 DEF GradOfSquares
  <2> HIDE DEF right, left
  <2> QED
    BY <1>2, <2>2, <2>3 DEF Between
<1>6. CASE of = "radius"
  <2>1. up = -1 /\ down = 1
    BY <1>6 DEF Bends
  <2>2. right = 4 * P - 4 * Q /\ left = 4 * Q - 4 * P
    BY <1>6, <2>1 DEF Contrary, InnerWay
  <2>3. GradOfSquares(of, along, P, Q) = 2 * (P - Q)
    BY <1>6 DEF GradOfSquares
  <2> HIDE DEF right, left
  <2> QED
    BY <1>2, <2>2, <2>3 DEF Between
<1>7. along \in {-1, 0, 1}
  BY DEF Bends
<1> QED
  BY <1>3, <1>4, <1>5, <1>6, <1>7 DEF Coordinates

\* The containment of two spheres in each other: its gradient lies between its slopes.
LEMMA WithinSlopes ==
  ASSUME NEW a \in FourBalls, NEW b \in FourBalls, NEW of \in Coordinates
  PROVE  PairSlopes("containment", a, b, of)
<1> DEFINE F(d) == PairSteps("containment", a, b, of, d)
           along == Towards(a, b.center, of)
<1>1. a \in Balls /\ b \in Balls /\ b.center \in Int
  BY FourBallIs
<1>2. PICK x, y, up, down :
           /\ x = Outer(b, a) /\ y = Inner(b, a) /\ up \in {-1, 1} /\ down \in {-1, 1}
           /\ Bends(Towards(a, b.center, of), up, down)
           /\ SquaresMove(x, y, Contrary(up), InnerWay(of, up), F(1), F(0), F(2))
           /\ SquaresMove(x, y, Contrary(down), InnerWay(of, down), F(-1), F(0), F(-2))
  BY WithinSteps
<1>3. /\ 4 * F(1) - 3 * F(0) - F(2) = 4 * Contrary(up) * Positive(x) + 4 * InnerWay(of, up) * Positive(y)
      /\ F(1) \in Int /\ F(0) \in Int /\ F(2) \in Int /\ Positive(x) \in Nat /\ Positive(y) \in Nat
  BY <1>2, TwoSquares
<1>4. /\ 4 * F(-1) - 3 * F(0) - F(-2) = 4 * Contrary(down) * Positive(x) + 4 * InnerWay(of, down) * Positive(y)
      /\ F(-1) \in Int /\ F(-2) \in Int
  BY <1>2, TwoSquares
<1>5. along = IF of = "center" THEN Along(a, b.center) ELSE -1
  BY DEF Towards
<1>6. DepthIn(b, a) = Positive(x) /\ DepthIn(a, b) = Positive(y)
  BY <1>1, <1>2, WithinAt
<1>7. PairGrad("containment", a, b, of) = GradOfSquares(of, along, Positive(x), Positive(y))
  BY <1>5, <1>6 DEF PairGrad, WithinPart, GradOfSquares
<1>8. of = "radius" => along = -1
  BY <1>5
<1> HIDE DEF F
<1>9. KinkOfSquares(of, along, up, down, Positive(x), Positive(y), F(1), F(0), F(2), F(-1), F(-2))
  BY <1>2, <1>3, <1>4, <1>8 DEF KinkOfSquares
<1>10. Between(2 * GradOfSquares(of, along, Positive(x), Positive(y)),
               Slope(-1, F(-1), F(0), F(-2)), Slope(1, F(1), F(0), F(2)))
  <2> HIDE DEF along
  <2> QED
    BY <1>9, SquaresKink
<1> QED
  BY <1>7, <1>10 DEF PairSlopes, F
-----------------------------------------------------------------------------

\* Of two spheres the gradient is the derivative.
LEMMA PairTerm ==
  ASSUME NEW a \in FourBalls, NEW b \in FourBalls, NEW of \in Coordinates, NEW id \in PairIds, NEW p
  PROVE  IsDerivative(id, Term(p, <<a, b>>, 1), of)
<1> DEFINE t == Term(p, <<a, b>>, 1)
           L(d) == At(id, t, of, d)
           D(d) == PairSteps(id, a, b, of, d)
<1>1. PairSlopes(id, a, b, of)
  BY OverlapSlopes, WithinSlopes DEF PairIds
<1>2. IsTerm(t) /\ \A d \in Steps : L(d) = D(d)
  <2>1. \A d : L(d) = Loss(id, p, Stepped(<<a, b>>, 1, of, d))
    BY TwoBalls
  <2>2. \A d \in Steps : /\ Stepped(<<a, b>>, 1, of, d) \in [1..2 -> Balls]
                         /\ Stepped(<<a, b>>, 1, of, d)[1] = Shifted(a, of, d)
                         /\ Stepped(<<a, b>>, 1, of, d)[2] = b
    BY TwoBalls
  <2>3. IsTerm(t)
    BY TwoBalls
  <2> HIDE DEF t, L
  <2>4. \A d \in Steps : Loss(id, p, Stepped(<<a, b>>, 1, of, d)) = Both(id, Shifted(a, of, d), b)
    BY <2>2, PairLossOfTwo
  <2> QED
    BY <2>1, <2>3, <2>4 DEF PairSteps
<1>3. TwiceGrad(id, t, of) = 2 * PairGrad(id, a, b, of)
  <2>1. <<a, b>> \in [1..2 -> Balls] /\ <<a, b>>[1] = a /\ <<a, b>>[2] = b
    BY TwoBalls
  <2>2. Grad(id, p, <<a, b>>, 1)[of] = PairGrad(id, a, b, of)
    BY <2>1, PairGradOfTwo
  <2> QED
    BY <2>2 DEF TwiceGrad, Term
<1> HIDE DEF t
<1>4. /\ TwiceSlope(id, t, of, 1) = Slope(1, L(1), L(0), L(2))
      /\ TwiceSlope(id, t, of, -1) = Slope(-1, L(-1), L(0), L(-2))
  BY <1>2, SlopeAt
<1> HIDE DEF L
<1>5. L(0) = D(0) /\ L(1) = D(1) /\ L(2) = D(2) /\ L(-1) = D(-1) /\ L(-2) = D(-2)
  BY <1>2, StepsAre
<1> QED
  BY <1>1, <1>3, <1>4, <1>5 DEF IsDerivative, PairSlopes, t

\* The overlap and containment gradients are derived, term by term.
LEMMA PairIsDerived ==
  ASSUME NEW n \in Nat, NEW bs \in [1..n -> FourBalls], NEW j \in 1..n, NEW of \in Coordinates,
         NEW id \in PairIds, NEW p
  PROVE  IsDerived(id, Term(p, bs, j), of)
<1> DEFINE whole == Term(p, bs, j)
           S == Others(bs, j)
           b == bs[j]
           terms == Terms(id, whole)
           v == PairGrads(id, bs, j, of)
           f == [d \in Steps |-> PairValues(id, bs, j, Shifted(b, of, d))]
           rest == PairRest(id, bs, j)
<1>1. /\ b \in FourBalls /\ b \in Balls /\ bs \in [1..n -> Balls]
      /\ \A k \in S : bs[k] \in FourBalls /\ bs[k] \in Balls
  <2>1. bs \in [1..n -> Balls] /\ S \subseteq 1..n
    BY StepsOf DEF Others
  <2> QED
    BY <2>1, FourBallIs
<1>2. /\ whole.p = p /\ whole.bs = bs /\ whole.j = j /\ IsTerm(whole)
      /\ \A d : At(id, whole, of, d) = Loss(id, p, Stepped(bs, j, of, d))
  BY PackingIs
<1>3. terms = [k \in S |-> Term(p, <<b, bs[k]>>, 1)]
  <2> HIDE DEF whole
  <2>1. id \in {"overlap", "containment"}
    BY DEF PairIds
  <2> QED
    BY <1>2, <2>1 DEF Terms
<1>4. v \in [S -> Int] /\ IsFiniteSet(S) /\ Grad(id, p, bs, j)[of] = SumFunction(v)
  BY <1>1, PairGradsAre
<1>5. \A d \in Steps : /\ f[d] \in [S -> Int] /\ rest \in Int
                       /\ Loss(id, p, Stepped(bs, j, of, d)) = Plus(rest, f[d])
  BY PairsMove
<1>6. \A d \in Steps, k \in S : f[d][k] = Both(id, Shifted(b, of, d), bs[k])
  BY DEF PairValues
<1>w. \A k \in S : v[k] = PairGrad(id, b, bs[k], of)
  BY DEF PairGrads
<1> HIDE DEF b, terms, v, f, rest, S
<1>7. ASSUME NEW k \in S
      PROVE  /\ terms[k].p = p /\ terms[k].bs = <<b, bs[k]>> /\ terms[k].j = 1 /\ IsTerm(terms[k])
             /\ IsDerivative(id, terms[k], of)
             /\ Grad(id, terms[k].p, terms[k].bs, terms[k].j)[of] = v[k]
             /\ \A d \in Steps : At(id, terms[k], of, d) = f[d][k]
  <2> DEFINE c == bs[k]
             t == Term(p, <<b, c>>, 1)
  <2>1. terms[k] = t /\ c \in FourBalls
    BY <1>1, <1>3
  <2>2. t.p = p /\ t.bs = <<b, c>> /\ t.j = 1
    BY DEF Term
  <2> HIDE DEF c
  <2>3. IsDerivative(id, t, of)
    BY <1>1, <2>1, PairTerm
  <2>4. /\ IsTerm(t) /\ <<b, c>> \in [1..2 -> Balls] /\ <<b, c>>[1] = b /\ <<b, c>>[2] = c
        /\ \A d \in Steps : /\ Stepped(<<b, c>>, 1, of, d) \in [1..2 -> Balls]
                            /\ Stepped(<<b, c>>, 1, of, d)[1] = Shifted(b, of, d)
                            /\ Stepped(<<b, c>>, 1, of, d)[2] = c
        /\ \A d : At(id, t, of, d) = Loss(id, p, Stepped(<<b, c>>, 1, of, d))
    BY <1>1, <2>1, TwoBalls
  <2> HIDE DEF t
  <2>5. Grad(id, p, <<b, c>>, 1)[of] = PairGrad(id, b, c, of)
    BY <2>4, PairGradOfTwo
  <2>6. \A d \in Steps : Loss(id, p, Stepped(<<b, c>>, 1, of, d)) = Both(id, Shifted(b, of, d), c)
    BY <2>4, PairLossOfTwo
  <2>7. v[k] = PairGrad(id, b, c, of) /\ \A d \in Steps : f[d][k] = Both(id, Shifted(b, of, d), c)
    BY <1>6, <1>w DEF c
  <2>8. bs[k] = c
    BY DEF c
  <2> QED
    BY <2>1, <2>2, <2>3, <2>4, <2>5, <2>6, <2>7, <2>8
<1>8. DOMAIN terms = S
  BY <1>3
<1>9. TermsAreDerived(id, whole, of)
  BY <1>7, <1>8 DEF TermsAreDerived, terms
<1> HIDE DEF whole
<1>10. GradSums(id, whole, terms, of, v)
  BY <1>2, <1>4, <1>7, <1>8 DEF GradSums
<1>11. LossSums(id, whole, terms, of, f, rest)
  BY <1>2, <1>5, <1>7, <1>8 DEF LossSums
<1>12. f \in [Steps -> [S -> Int]] /\ rest \in Int
  <2>1. DOMAIN f = Steps /\ f = [d \in Steps |-> f[d]]
    BY DEF f
  <2> QED
    BY <1>5, <2>1, StepsAre
<1>13. Splits(id, whole, terms, of, v, rest, f)
  BY <1>2, <1>4, <1>7, <1>8, <1>9, <1>10, <1>11, <1>12 DEF Splits, terms
<1> QED
  BY <1>13, DerivedIf DEF whole
-----------------------------------------------------------------------------
(***************************************************************************)
(* Containment in the mesh: one term, the sphere itself.  On a segment a   *)
(* center is outside at one end or at the other.                           *)
(***************************************************************************)
IsLine(p, l) ==
  p \in Problems /\ l \in Fours /\ l > 0 /\ p.surface = <<0, l>> /\ p.normals = <<-1, 1>>
Ramp(l, c) == Sq(0 - c) + Sq(c - l)
RampRate(l, c) == 2 * (Positive(c - l) - Positive(0 - c))
HeightPart(l, c, of) == IF of = "center" THEN RampRate(l, c) ELSE 0

\* The height over the nearest end, squared, and its gradient, as sums over both ends.
LEMMA HeightIs ==
  ASSUME NEW p, NEW l, IsLine(p, l), NEW c \in Int
  PROVE  /\ Positive(Height(p, c)) * Positive(Height(p, c)) = Ramp(l, c)
         /\ 2 * Positive(Height(p, c)) * p.normals[NearestSample(p, c)] = RampRate(l, c)
         /\ Ramp(l, c) \in Int /\ RampRate(l, c) \in Int
<1>1. l \in Int /\ l > 0
  BY FoursAre DEF IsLine
<1>2. DOMAIN p.surface = {1, 2} /\ p.surface[1] = 0 /\ p.surface[2] = l /\ p.normals[1] = -1 /\ p.normals[2] = 1
  BY DEF IsLine
<1>3. Dist(0, c) = (IF 0 > c THEN 0 - c ELSE c - 0) /\ Dist(l, c) = (IF l > c THEN l - c ELSE c - l)
  BY <1>1, DistIs
<1> DEFINE S == {i \in DOMAIN p.surface : \A k \in DOMAIN p.surface :
                   Dist(p.surface[i], c) <= Dist(p.surface[k], c)}
<1>4. NearestSample(p, c) = Smallest(S)
  BY DEF NearestSample
<1>5. (1 \in S <=> 2 * c <= l) /\ (2 \in S <=> 2 * c >= l) /\ S \subseteq {1, 2}
  BY <1>1, <1>2, <1>3
<1> HIDE DEF S
<1>6. CASE 2 * c <= l
  <2>1. S = {1} \/ S = {1, 2}
    BY <1>5, <1>6
  <2>2. Smallest(S) = 1
    BY <2>1 DEF Smallest
  <2>3. Height(p, c) = (c - 0) * (-1)
    BY <1>2, <1>4, <2>2 DEF Height
  <2>4. Height(p, c) = 0 - c /\ p.normals[NearestSample(p, c)] = -1
    BY <1>2, <1>4, <2>2, <2>3
  <2>5. Positive(c - l) = 0
    BY <1>1, <1>6 DEF Positive
  <2>6. Positive(0 - c) \in Int /\ Positive(0 - c) * Positive(0 - c) \in Int
    BY IntegersAre
  <2>7. Ramp(l, c) = Positive(0 - c) * Positive(0 - c)
    BY <2>5, <2>6 DEF Ramp, Sq
  <2>8. RampRate(l, c) = 2 * Positive(0 - c) * (-1) /\ RampRate(l, c) \in Int
    BY <2>5, <2>6 DEF RampRate
  <2> QED
    BY <2>4, <2>6, <2>7, <2>8
<1>7. CASE ~(2 * c <= l)
  <2>0. 2 * c > l
    BY <1>1, <1>7
  <2>a. 1 \notin S
    BY <1>5, <1>7
  <2>b. 2 * c >= l
    BY <1>1, <2>0
  <2>1. S = {2}
    BY <1>5, <2>a, <2>b
  <2>2. Smallest(S) = 2
    BY <2>1 DEF Smallest
  <2>3. Height(p, c) = (c - l) * 1
    BY <1>2, <1>4, <2>2 DEF Height
  <2>4. Height(p, c) = c - l /\ p.normals[NearestSample(p, c)] = 1
    BY <1>1, <1>2, <1>4, <2>2, <2>3
  <2>5. Positive(0 - c) = 0
    BY <1>1, <2>0 DEF Positive
  <2>6. Positive(c - l) \in Int /\ Positive(c - l) * Positive(c - l) \in Int
    BY <1>1, IntegersAre
  <2>7. Ramp(l, c) = Positive(c - l) * Positive(c - l)
    BY <2>5, <2>6 DEF Ramp, Sq
  <2>8. RampRate(l, c) = 2 * Positive(c - l) * 1 /\ RampRate(l, c) \in Int
    BY <2>5, <2>6 DEF RampRate
  <2> QED
    BY <2>4, <2>6, <2>7, <2>8
<1> QED
  BY <1>6, <1>7

\* The loss as a sum over spheres.
LEMMA MeshLossIs ==
  ASSUME NEW n \in Nat, NEW cs \in [1..n -> Balls], NEW p, NEW l, IsLine(p, l)
  PROVE  /\ MeshContainment(p, cs) = SumFunction([i \in 1..n |-> Ramp(l, cs[i].center)])
         /\ \A i \in 1..n : cs[i].center \in Int /\ Ramp(l, cs[i].center) \in Int
<1>1. \A i \in 1..n : cs[i].center \in Int
  BY DEF Balls
<1>2. \A i \in 1..n : /\ Ramp(l, cs[i].center) \in Int
                      /\ Positive(Height(p, cs[i].center)) * Positive(Height(p, cs[i].center))
                           = Ramp(l, cs[i].center)
  BY <1>1, HeightIs
<1>3. [i \in DOMAIN cs |-> Positive(Height(p, cs[i].center)) * Positive(Height(p, cs[i].center))]
        = [i \in 1..n |-> Ramp(l, cs[i].center)]
  BY <1>2
<1> QED
  BY <1>1, <1>2, <1>3 DEF MeshContainment

\* The gradient of one sphere.
LEMMA MeshGradIs ==
  ASSUME NEW n \in Nat, NEW bs \in [1..n -> Balls], NEW j \in 1..n, NEW of \in Coordinates,
         NEW p, NEW l, IsLine(p, l)
  PROVE  /\ MeshContainmentGrad(p, bs, j)[of] = HeightPart(l, bs[j].center, of)
         /\ HeightPart(l, bs[j].center, of) \in Int
<1> DEFINE c == bs[j].center
           q == 2 * Positive(Height(p, c)) * p.normals[NearestSample(p, c)]
<1>1. c \in Int
  BY DEF Balls
<1>2. q = RampRate(l, c) /\ RampRate(l, c) \in Int
  <2> HIDE DEF c
  <2> QED
    BY <1>1, HeightIs
<1>3. MeshContainmentGrad(p, bs, j) = Ball(q, 0)
  BY DEF MeshContainmentGrad
<1> HIDE DEF q, c
<1>4. MeshContainmentGrad(p, bs, j)[of] = IF of = "center" THEN q ELSE 0
  BY <1>3, BallAt
<1> QED
  BY <1>2, <1>4 DEF HeightPart, c

\* The loss along a coordinate of sphere j.
MeshRest(l, bs, j) == SumFunction([i \in DOMAIN bs \ {j} |-> Ramp(l, bs[i].center)])

\* Only the term of sphere j changes with it.
LEMMA MeshSplits ==
  ASSUME NEW n \in Nat, NEW bs \in [1..n -> FourBalls], NEW j \in 1..n, NEW of \in Coordinates,
         NEW p, NEW l, IsLine(p, l), NEW d \in Steps
  PROVE  /\ MeshContainment(p, Stepped(bs, j, of, d))
              = Ramp(l, Shifted(bs[j], of, d).center) + MeshRest(l, bs, j)
         /\ Ramp(l, Shifted(bs[j], of, d).center) \in Int /\ MeshRest(l, bs, j) \in Int
<1> DEFINE cs == Stepped(bs, j, of, d)
           D == 1..n
           f == [i \in D |-> Ramp(l, cs[i].center)]
           g == [i \in D \ {j} |-> Ramp(l, bs[i].center)]
<1>1. cs \in [D -> Balls] /\ IsFiniteSet(D)
  <2>1. IsFiniteSet(1..n)
    BY FS_Interval
  <2> QED
    BY <2>1, StepsOf
<1>2. cs[j] = Shifted(bs[j], of, d) /\ \A i \in D \ {j} : cs[i] = bs[i]
  BY StepsOf DEF Stepped, Replaced
<1>3. DOMAIN bs = D /\ j \in D
  BY <1>1
<1> HIDE DEF cs
<1>4. MeshContainment(p, cs) = SumFunction(f) /\ f \in [D -> Int]
  BY <1>1, MeshLossIs
<1>5. [i \in D \ {j} |-> f[i]] = g /\ f[j] = Ramp(l, Shifted(bs[j], of, d).center)
  BY <1>2
<1>6. MeshRest(l, bs, j) = SumFunction(g)
  BY <1>3 DEF MeshRest
<1> HIDE DEF f, g, D
<1>7. SplitOff(D, f, j, g)
  BY <1>1, <1>3, <1>4, <1>5 DEF SplitOff
<1>8. SumFunction(f) = SumFunction(g) + f[j] /\ SumFunction(g) \in Int /\ f[j] \in Int
  BY <1>7, SumSplitOff
<1> QED
  BY <1>4, <1>5, <1>6, <1>8 DEF cs

\* One ball.
MeshSteps(l, b, of, d) == Ramp(l, Shifted(b, of, d).center)

\* Both slopes are the gradient: there is no kink.
LEMMA MeshSlopes ==
  ASSUME NEW b \in FourBalls, NEW of \in Coordinates, NEW l \in Fours
  PROVE  Between(2 * HeightPart(l, b.center, of),
                 Slope(-1, MeshSteps(l, b, of, -1), MeshSteps(l, b, of, 0), MeshSteps(l, b, of, -2)),
                 Slope(1, MeshSteps(l, b, of, 1), MeshSteps(l, b, of, 0), MeshSteps(l, b, of, 2)))
<1> DEFINE c == b.center
           x == 0 - c
           y == c - l
           F(d) == MeshSteps(l, b, of, d)
<1>1. b \in Balls /\ c \in Fours /\ c \in Int /\ l \in Int
  BY FourBallIs, FoursAre
<1>2. x \in Fours /\ y \in Fours /\ x \in Int /\ y \in Int
  <2> HIDE DEF c
  <2>1. 0 \in Fours
    BY FoursAre
  <2> QED
    BY <1>1, <2>1, FoursAre
<1>3. \A d \in Steps : Shifted(b, of, d).center = IF of = "center" THEN c + d ELSE c
  <2> SUFFICES ASSUME NEW d \in Steps PROVE Shifted(b, of, d).center = IF of = "center" THEN c + d ELSE c
    OBVIOUS
  <2>1. /\ Shifted(b, "center", d) = Ball(c + d, b.radius)
        /\ Shifted(b, "radius", d) = Ball(c, b.radius + d)
    BY <1>1, ShiftedIs, StepsAre
  <2>2. of = "center" \/ of = "radius"
    BY DEF Coordinates
  <2> QED
    BY <2>1, <2>2, BallHas
<1>4. CASE of = "center"
  <2>1. /\ F(0) = Ramp(l, c + 0) /\ F(1) = Ramp(l, c + 1) /\ F(2) = Ramp(l, c + 2)
        /\ F(-1) = Ramp(l, c + (-1)) /\ F(-2) = Ramp(l, c + (-2))
    BY <1>3, <1>4, StepsAre DEF MeshSteps
  <2>2. /\ 0 - (c + 0) = x /\ 0 - (c + 1) = x + (-1) /\ 0 - (c + 2) = x + 2 * (-1)
        /\ 0 - (c + (-1)) = x + 1 /\ 0 - (c + (-2)) = x + 2 * 1
    BY <1>1
  <2>3. /\ (c + 0) - l = y /\ (c + 1) - l = y + 1 /\ (c + 2) - l = y + 2 * 1
        /\ (c + (-1)) - l = y + (-1) /\ (c + (-2)) - l = y + 2 * (-1)
    BY <1>1
  <2> HIDE DEF F
  <2>4. F(0) = Sq(x) + Sq(y)
    BY <2>1, <2>2, <2>3 DEF Ramp
  <2>5. F(1) = Sq(x + (-1)) + Sq(y + 1) /\ F(2) = Sq(x + 2 * (-1)) + Sq(y + 2 * 1)
    BY <2>1, <2>2, <2>3 DEF Ramp
  <2>6. F(-1) = Sq(x + 1) + Sq(y + (-1)) /\ F(-2) = Sq(x + 2 * 1) + Sq(y + 2 * (-1))
    BY <2>1, <2>2, <2>3 DEF Ramp
  <2>7. HeightPart(l, c, of) = 2 * (Positive(y) - Positive(x))
    BY <1>4 DEF HeightPart, RampRate
  <2> HIDE DEF x, y, c
  <2>8. SquaresMove(x, y, -1, 1, F(1), F(0), F(2))
    BY <1>2, <2>4, <2>5 DEF SquaresMove
  <2>9. SquaresMove(x, y, 1, -1, F(-1), F(0), F(-2))
    BY <1>2, <2>4, <2>6 DEF SquaresMove
  <2>10. /\ 4 * F(1) - 3 * F(0) - F(2) = 4 * (-1) * Positive(x) + 4 * 1 * Positive(y)
         /\ F(1) \in Int /\ F(0) \in Int /\ F(2) \in Int /\ Positive(x) \in Nat /\ Positive(y) \in Nat
    BY <2>8, TwoSquares
  <2>11. /\ 4 * F(-1) - 3 * F(0) - F(-2) = 4 * 1 * Positive(x) + 4 * (-1) * Positive(y)
         /\ F(-1) \in Int /\ F(-2) \in Int
    BY <2>9, TwoSquares
  <2> DEFINE P == Positive(x)
             Q == Positive(y)
             right == 4 * F(1) - 3 * F(0) - F(2)
             left == 4 * F(-1) - 3 * F(0) - F(-2)
  <2>12. /\ right = 4 * Q - 4 * P /\ left = 4 * P - 4 * Q /\ P \in Int /\ Q \in Int
    BY <2>10, <2>11
  <2>13. Slope(1, F(1), F(0), F(2)) = right /\ Slope(-1, F(-1), F(0), F(-2)) = 0 - left
    BY <2>10, <2>11 DEF Slope
  <2>14. 2 * HeightPart(l, c, of) = 4 * Q - 4 * P
    BY <2>7, <2>12
  <2> HIDE DEF P, Q, right, left
  <2>15. Between(2 * HeightPart(l, c, of), Slope(-1, F(-1), F(0), F(-2)), Slope(1, F(1), F(0), F(2)))
    BY <2>12, <2>13, <2>14 DEF Between
  <2> QED
    BY <2>15 DEF F, c
<1>5. CASE of = "radius"
  <2>1. \A d \in Steps : F(d) = Ramp(l, c)
    BY <1>3, <1>5 DEF MeshSteps
  <2>2. Ramp(l, c) \in Int
    <3>1. Sq(x) \in Int /\ Sq(y) \in Int
      BY <1>2, IntegersAre DEF Sq
    <3> QED
      BY <3>1 DEF Ramp
  <2>3. HeightPart(l, c, of) = 0
    BY <1>5 DEF HeightPart
  <2> HIDE DEF F, c
  <2>4. F(0) = Ramp(l, c) /\ F(1) = Ramp(l, c) /\ F(2) = Ramp(l, c) /\ F(-1) = Ramp(l, c) /\ F(-2) = Ramp(l, c)
    BY <2>1, StepsAre
  <2>5. Slope(1, F(1), F(0), F(2)) = 0 /\ Slope(-1, F(-1), F(0), F(-2)) = 0
    BY <2>2, <2>4 DEF Slope
  <2>6. Between(2 * HeightPart(l, c, of), Slope(-1, F(-1), F(0), F(-2)), Slope(1, F(1), F(0), F(2)))
    BY <2>3, <2>5 DEF Between
  <2> QED
    BY <2>6 DEF F, c
<1> QED
  BY <1>4, <1>5 DEF Coordinates
-----------------------------------------------------------------------------

\* One sphere, its loss and gradient.
LEMMA MeshOfOne ==
  ASSUME NEW b \in FourBalls, NEW of \in Coordinates, NEW p, NEW l, IsLine(p, l)
  PROVE  /\ \A d \in Steps : At("mesh_containment", Term(p, <<b>>, 1), of, d) = MeshSteps(l, b, of, d)
         /\ Grad("mesh_containment", p, <<b>>, 1)[of] = HeightPart(l, b.center, of)
         /\ IsTerm(Term(p, <<b>>, 1))
<1>1. /\ <<b>> \in [1..1 -> FourBalls] /\ <<b>>[1] = b /\ IsTerm(Term(p, <<b>>, 1))
      /\ \A d \in Steps : /\ Stepped(<<b>>, 1, of, d) \in [1..1 -> Balls]
                          /\ Stepped(<<b>>, 1, of, d)[1] = Shifted(b, of, d)
      /\ \A d : At("mesh_containment", Term(p, <<b>>, 1), of, d)
                  = Loss("mesh_containment", p, Stepped(<<b>>, 1, of, d))
  BY OneBall
<1>2. 1 \in Nat /\ 1..1 = {1} /\ b \in Balls /\ <<b>> \in [1..1 -> Balls] /\ 1 \in 1..1
  BY <1>1, FourBallIs
<1>3. ASSUME NEW cs \in [1..1 -> Balls]
      PROVE  MeshContainment(p, cs) = Ramp(l, cs[1].center)
  <2> DEFINE f == [i \in 1..1 |-> Ramp(l, cs[i].center)]
  <2>0. PICK n \in Nat, j \in 1..1 : Only(n, j) /\ cs \in [1..n -> Balls]
    BY <1>2 DEF Only
  <2>1. MeshContainment(p, cs) = SumFunction(f) /\ f \in [1..1 -> Int]
    <3>1. /\ MeshContainment(p, cs) = SumFunction([i \in 1..n |-> Ramp(l, cs[i].center)])
          /\ \A i \in 1..n : Ramp(l, cs[i].center) \in Int
      BY <2>0, MeshLossIs
    <3> QED
      BY <2>0, <3>1 DEF Only
  <2>2. f[1] = Ramp(l, cs[1].center)
    BY <1>2
  <2> HIDE DEF f
  <2> QED
    BY <1>2, <2>1, <2>2, SumOfOne
<1>4. \A d \in Steps : At("mesh_containment", Term(p, <<b>>, 1), of, d) = MeshSteps(l, b, of, d)
  BY <1>1, <1>3, LossIs DEF MeshSteps
<1>5. MeshContainmentGrad(p, <<b>>, 1)[of] = HeightPart(l, b.center, of)
  <2> DEFINE cs == <<b>>
  <2>0. cs \in [1..1 -> Balls] /\ cs[1] = b
    BY <1>1, <1>2
  <2> HIDE DEF cs
  <2>1. PICK n \in Nat, j \in 1..1 : Only(n, j) /\ j \in 1..n /\ cs \in [1..n -> Balls]
    BY <1>2, <2>0 DEF Only
  <2>2. MeshContainmentGrad(p, cs, j)[of] = HeightPart(l, cs[j].center, of)
    BY <2>1, MeshGradIs
  <2> QED
    BY <2>0, <2>1, <2>2 DEF Only, cs
<1> QED
  BY <1>1, <1>4, <1>5, GradIs

\* The mesh containment gradient is derived: sphere j is its only term.
LEMMA MeshIsDerived ==
  ASSUME NEW n \in Nat, NEW bs \in [1..n -> FourBalls], NEW j \in 1..n, NEW of \in Coordinates,
         NEW p, NEW l, IsLine(p, l)
  PROVE  IsDerived("mesh_containment", Term(p, bs, j), of)
<1> DEFINE id == "mesh_containment"
           whole == Term(p, bs, j)
           b == bs[j]
           t == Term(p, <<b>>, 1)
           terms == Terms(id, whole)
           v == [i \in {1} |-> HeightPart(l, b.center, of)]
           f == [d \in Steps |-> [i \in {1} |-> MeshSteps(l, b, of, d)]]
           rest == MeshRest(l, bs, j)
<1>1. b \in FourBalls /\ bs \in [1..n -> Balls] /\ l \in Fours
  BY StepsOf DEF IsLine
<1>2. /\ whole.p = p /\ whole.bs = bs /\ whole.j = j /\ IsTerm(whole)
      /\ \A d : At(id, whole, of, d) = Loss(id, p, Stepped(bs, j, of, d))
  BY PackingIs
<1>3. DOMAIN terms = {1} /\ terms[1] = t
  <2>1. terms = <<t>>
    <3> HIDE DEF whole
    <3> QED
      BY <1>2 DEF Terms
  <2> HIDE DEF terms, t
  <2> QED
    BY <2>1
<1>4. t.p = p /\ t.bs = <<b>> /\ t.j = 1
  BY DEF Term
<1>5. /\ \A d \in Steps : At(id, t, of, d) = MeshSteps(l, b, of, d)
      /\ Grad(id, p, <<b>>, 1)[of] = HeightPart(l, b.center, of)
      /\ IsTerm(t)
  <2> HIDE DEF b
  <2> QED
    BY <1>1, MeshOfOne
<1>6. \A d \in Steps : /\ MeshContainment(p, Stepped(bs, j, of, d)) = MeshSteps(l, b, of, d) + rest
                       /\ MeshSteps(l, b, of, d) \in Int /\ rest \in Int
  BY MeshSplits DEF MeshSteps
<1>7. MeshContainmentGrad(p, bs, j)[of] = HeightPart(l, b.center, of) /\ HeightPart(l, b.center, of) \in Int
  BY <1>1, MeshGradIs
<1>8. /\ v[1] = HeightPart(l, b.center, of) /\ v \in [{1} -> Int] /\ IsFiniteSet({1})
  BY <1>7, FS_Singleton
<1>9. /\ \A d \in Steps : f[d][1] = MeshSteps(l, b, of, d)
      /\ f \in [Steps -> [{1} -> Int]]
  BY <1>6
<1>10. SumFunction(v) = v[1] /\ \A d \in Steps : SumFunction(f[d]) = f[d][1]
  <2> HIDE DEF v, f
  <2>1. SumFunction(v) = v[1]
    BY <1>8, SumOfOne
  <2>2. \A d \in Steps : f[d] \in [{1} -> Int]
    BY <1>9
  <2> QED
    BY <2>1, <2>2, SumOfOne
<1>11. Between(2 * HeightPart(l, b.center, of),
               Slope(-1, MeshSteps(l, b, of, -1), MeshSteps(l, b, of, 0), MeshSteps(l, b, of, -2)),
               Slope(1, MeshSteps(l, b, of, 1), MeshSteps(l, b, of, 0), MeshSteps(l, b, of, 2)))
  <2> HIDE DEF b
  <2> QED
    BY <1>1, MeshSlopes
<1> HIDE DEF terms, v, f, rest, t, whole
<1>12. /\ TwiceSlope(id, t, of, 1) = Slope(1, At(id, t, of, 1), At(id, t, of, 0), At(id, t, of, 2))
       /\ TwiceSlope(id, t, of, -1) = Slope(-1, At(id, t, of, -1), At(id, t, of, 0), At(id, t, of, -2))
  BY <1>5, SlopeAt
<1>13. IsDerivative(id, t, of)
  <2> DEFINE M(d) == MeshSteps(l, b, of, d)
             A(d) == At(id, t, of, d)
  <2>1. A(0) = M(0) /\ A(1) = M(1) /\ A(2) = M(2) /\ A(-1) = M(-1) /\ A(-2) = M(-2)
    <3>1. \A d \in Steps : A(d) = M(d)
      BY <1>5
    <3> HIDE DEF A, M
    <3> QED
      BY <3>1, StepsAre
  <2>2. TwiceGrad(id, t, of) = 2 * HeightPart(l, b.center, of)
    BY <1>4, <1>5 DEF TwiceGrad
  <2> QED
    BY <1>11, <1>12, <2>1, <2>2 DEF IsDerivative
<1>14. TermsAreDerived(id, whole, of)
  BY <1>3, <1>13 DEF TermsAreDerived, terms
<1>15. GradSums(id, whole, terms, of, v)
  BY <1>2, <1>3, <1>4, <1>5, <1>7, <1>8, <1>10, GradIs DEF GradSums
<1>16. LossSums(id, whole, terms, of, f, rest)
  <2>1. \A d \in Steps : At(id, whole, of, d) = Plus(rest, f[d])
    <3> SUFFICES ASSUME NEW d \in Steps PROVE At(id, whole, of, d) = Plus(rest, f[d])
      OBVIOUS
    <3> DEFINE m == MeshSteps(l, b, of, d)
    <3>1. At(id, whole, of, d) = MeshContainment(p, Stepped(bs, j, of, d))
      BY <1>2, LossIs
    <3>2. MeshContainment(p, Stepped(bs, j, of, d)) = m + rest /\ m \in Int /\ rest \in Int
      BY <1>6
    <3>3. SumFunction(f[d]) = m
      BY <1>9, <1>10
    <3> HIDE DEF m
    <3> QED
      BY <3>1, <3>2, <3>3 DEF Plus
  <2>2. \A d \in Steps : At(id, terms[1], of, d) = f[d][1]
    BY <1>3, <1>5, <1>9
  <2> QED
    BY <1>3, <2>1, <2>2 DEF LossSums
<1>17. rest \in Int
  BY <1>6, StepsAre
<1>18. Splits(id, whole, terms, of, v, rest, f)
  BY <1>2, <1>3, <1>5, <1>8, <1>9, <1>14, <1>15, <1>16, <1>17 DEF Splits, terms
<1> QED
  BY <1>18, DerivedIf DEF whole
-----------------------------------------------------------------------------
(***************************************************************************)
(* The mesh and its samples on the fine lattice.                           *)
(***************************************************************************)
LEMMA FinerIs ==
  ASSUME NEW s, s \in Seq(Int)
  PROVE  Finer(s) \in Seq(Fours) /\ DOMAIN Finer(s) = DOMAIN s
<1>1. Len(s) \in Nat /\ DOMAIN s = 1..Len(s) /\ \A i \in DOMAIN s : s[i] \in Int
  OBVIOUS
<1>2. Finer(s) = [i \in 1..Len(s) |-> 4 * s[i]]
  BY <1>1 DEF Finer, Fine
<1>3. \A i \in 1..Len(s) : 4 * s[i] \in Fours
  BY <1>1, FoursAre
<1>4. Finer(s) \in [1..Len(s) -> Fours]
  BY <1>2, <1>3
<1>5. Finer(s) \in Seq(Fours)
  <2>1. PICK n \in Nat : Finer(s) \in [1..n -> Fours]
    BY <1>1, <1>4
  <2> QED
    BY <2>1, SeqDef
<1>6. DOMAIN Finer(s) = DOMAIN s
  BY <1>1, <1>2
<1> QED
  BY <1>5, <1>6

\* The samples are on it, and are the two ends of a segment.
LEMMA FineProblemIs ==
  FineProblem \in Problems /\ DOMAIN FineProblem.surface # {} /\ IsLine(FineProblem, 4 * Length)
<1> DEFINE in == Finer(InsideSamples)
           ends == <<0, Length>>
           on == Finer(ends)
           l == 4 * Length
<1>1. Length \in Int /\ Length > 0 /\ InsideSamples \in Seq(Int)
  BY LineAssumption
<1>2. in \in Seq(Fours)
  BY <1>1, FinerIs
<1>3. ends \in Seq(Int) /\ DOMAIN ends = 1..2 /\ ends[1] = 0 /\ ends[2] = Length
  BY <1>1
<1> HIDE DEF ends, in
<1>4. on \in Seq(Fours) /\ DOMAIN on = 1..2
  BY <1>3, FinerIs
<1>5. on[1] = 0 /\ on[2] = l
  BY <1>1, <1>3 DEF Finer, Fine
<1>6. l \in Fours /\ l > 0 /\ 0 \in Fours
  BY <1>1, FoursAre
<1> HIDE DEF on, l
<1>7. on = <<0, l>>
  BY <1>4, <1>5
<1>8. FineProblem = [inside |-> in, surface |-> on, normals |-> <<-1, 1>>]
  <2> DEFINE first == [Problem EXCEPT !.inside = Finer(@)]
  <2>1. Problem = [inside |-> InsideSamples, surface |-> ends, normals |-> <<-1, 1>>]
    BY DEF Problem, ends
  <2>2. first = [inside |-> in, surface |-> ends, normals |-> <<-1, 1>>]
    BY <2>1 DEF in
  <2>3. FineProblem = [first EXCEPT !.surface = Finer(@)]
    BY <2>1 DEF FineProblem
  <2> HIDE DEF first
  <2> QED
    BY <2>2, <2>3 DEF on
<1>9. <<-1, 1>> \in Seq({-1, 1}) /\ Len(<<-1, 1>>) = 2 /\ Len(on) = 2
  BY <1>7
<1>10. /\ FineProblem \in [inside : Seq(Fours), surface : Seq(Fours), normals : Seq({-1, 1})]
       /\ FineProblem.surface = on /\ FineProblem.normals = <<-1, 1>>
  BY <1>2, <1>4, <1>8, <1>9
<1>11. FineProblem \in Problems
  BY <1>9, <1>10 DEF Problems
<1>12. IsLine(FineProblem, l)
  BY <1>6, <1>7, <1>10, <1>11 DEF IsLine
<1> QED
  BY <1>4, <1>10, <1>11, <1>12 DEF l

\* So are the spheres.
LEMMA FineBallsAre ==
  ASSUME NEW n \in Nat, NEW bs \in [1..n -> Balls]
  PROVE  FineBalls(bs) \in [1..n -> FourBalls]
<1>1. ASSUME NEW i \in 1..n PROVE Ball(Fine * bs[i].center, Fine * bs[i].radius) \in FourBalls
  <2>1. bs[i].center \in Int /\ bs[i].radius \in Int
    BY DEF Balls
  <2> DEFINE c == Fine * bs[i].center
             r == Fine * bs[i].radius
  <2>2. c \in Fours /\ r \in Fours /\ c \in Int /\ r \in Int
    BY <2>1, FoursAre DEF Fine
  <2> HIDE DEF c, r
  <2>3. Ball(c, r) \in Balls /\ Ball(c, r).center = c /\ Ball(c, r).radius = r
    BY <2>2, BallIsBall, BallHas
  <2>4. Ball(c, r) \in FourBalls
    BY <2>2, <2>3 DEF FourBalls
  <2> QED
    BY <2>4 DEF c, r
<1>2. DOMAIN bs = 1..n
  OBVIOUS
<1> QED
  BY <1>1, <1>2 DEF FineBalls

\* The eight losses.
LEMMA EveryLossIsDerived ==
  ASSUME NEW n \in Nat, n # 0, NEW bs \in [1..n -> FourBalls], NEW j \in 1..n, NEW of \in Coordinates,
         NEW id \in LossIds
  PROVE  IsDerived(id, Term(FineProblem, bs, j), of)
<1>1. /\ FineProblem \in Problems /\ DOMAIN FineProblem.surface # {}
      /\ IsLine(FineProblem, 4 * Length)
  BY FineProblemIs
<1>2. IsDerived("coverage", Term(FineProblem, bs, j), of)
  BY <1>1, CoverageIsDerived
<1>3. IsDerived("surface", Term(FineProblem, bs, j), of)
  BY <1>1, SurfaceIsDerived
<1>4. IsDerived("sqem", Term(FineProblem, bs, j), of)
  BY <1>1, SqemIsDerived
<1>5. IsDerived("boundary", Term(FineProblem, bs, j), of)
  BY <1>1, BoundaryIsDerived
<1>6. IsDerived("hausdorff", Term(FineProblem, bs, j), of)
  BY <1>1, HausdorffIsDerived
<1>7. \A other \in PairIds : IsDerived(other, Term(FineProblem, bs, j), of)
  BY PairIsDerived
<1>8. IsDerived("mesh_containment", Term(FineProblem, bs, j), of)
  BY <1>1, MeshIsDerived
<1>9. id \in PairIds \/ id \in {"coverage", "surface", "sqem", "boundary", "hausdorff", "mesh_containment"}
  BY DEF LossIds, PairIds
<1> QED
  BY <1>2, <1>3, <1>4, <1>5, <1>6, <1>7, <1>8, <1>9

\* The gradients of every packing that is not empty are derivatives.
LEMMA PackingGradients ==
  ASSUME NEW n \in Nat, n # 0, NEW bs \in [1..n -> Balls]
  PROVE  GradientsAreDerivativesOf(bs)
<1>1. FineBalls(bs) \in [1..n -> FourBalls] /\ DOMAIN bs = 1..n
  BY FineBallsAre
<1>2. ASSUME NEW id \in LossIds, NEW j \in DOMAIN bs, NEW of \in Coordinates
      PROVE  IsDerived(id, Term(FineProblem, FineBalls(bs), j), of)
  BY <1>1, EveryLossIsDerived
<1>3. ASSUME NEW id, NEW of, NEW whole, IsDerived(id, whole, of)
      PROVE  LET terms == Terms(id, whole)
             IN  /\ TwiceGrad(id, whole, of)
                      = SumFunction([i \in DOMAIN terms |-> TwiceGrad(id, terms[i], of)])
                 /\ \A side \in {-1, 1} :
                      TwiceSlope(id, whole, of, side)
                        = SumFunction([i \in DOMAIN terms |-> TwiceSlope(id, terms[i], of, side)])
                 /\ \A i \in DOMAIN terms :
                      IsDerivative(id, terms[i], of) \/ (id \in {"sqem", "hausdorff"} /\ Tied(terms[i]))
  BY <1>3 DEF IsDerived, GradsSum, SlopesSumUp, TermsAreDerived
<1> QED
  BY <1>2, <1>3 DEF GradientsAreDerivativesOf, Coordinates

\* That is, those of any packing on the way of a session.
LEMMA GradientsOfEveryPacking == LineSpec => []GradientsAreDerivativesOf(balls)
<1>1. LineInv => GradientsAreDerivativesOf(balls)
  <2> SUFFICES ASSUME LineInv PROVE GradientsAreDerivativesOf(balls)
    OBVIOUS
  <2>1. Len(sess.spheres) \in Nat /\ Len(sess.spheres) # 0 /\ balls \in [1..Len(sess.spheres) -> Balls]
    BY LenProperties DEF LineInv, TypeOK, Sessions
  <2> QED
    BY <2>1, PackingGradients
<1> QED
  BY <1>1, LineInvariant, PTL

(***************************************************************************)
(* The hand-derived gradients of the eight losses are their derivatives,   *)
(* for every packing with whole centers and radii on every segment with    *)
(* every list of inside samples: term by term the gradient lies between    *)
(* the derivatives to either side (and so is the derivative where there    *)
(* is one), and gradients and derivatives add up to those of the loss.     *)
(***************************************************************************)
THEOREM GradientsAlwaysDerivatives == LineSpec => []GradientsAreDerivatives
<1>1. GradientsAreDerivativesOf(balls) => GradientsAreDerivatives
  BY DEF GradientsAreDerivatives
<1> QED
  BY <1>1, GradientsOfEveryPacking, PTL
=============================================================================
