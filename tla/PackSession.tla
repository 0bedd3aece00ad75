----------------------------- MODULE PackSession -----------------------------
(***************************************************************************)
(* The sequential packing session: step and finalize called in any order a *)
(* caller may choose.  The library's own driver (pack: Session::run, then  *)
(* finalize) is one of these orders.                                       *)
(***************************************************************************)
EXTENDS Session

VARIABLE sess   \* the session

Init == \E n \in StartCounts : sess = NewSession(n)

(***************************************************************************)
(* A call to step on a session that is done fails and changes nothing.     *)
(***************************************************************************)
Step == ~IsDone(sess) /\ sess' \in StepResults(sess)

Finalize == sess' \in FinalizeResults(sess)

Next == Step \/ Finalize

Spec == Init /\ [][Next]_sess
-----------------------------------------------------------------------------
(***************************************************************************)
(* Properties.                                                             *)
(***************************************************************************)
\* Every field of the session has its type and no session is without spheres.
TypeOK == sess \in Sessions /\ sess.spheres # <<>>

(***************************************************************************)
(* As long as a session can still train, its optimizer holds moments for   *)
(* exactly its spheres: slot i carries moments of the sphere in slot i or  *)
(* none.  A pass reorders the survivors by value, so a missing reset would *)
(* train one sphere with the momentum of another.                          *)
(***************************************************************************)
MomentsMatchSpheres ==
  sess.state # "finalized" =>
    /\ Len(sess.moments) = Len(sess.spheres)
    /\ \A i \in 1..Len(sess.spheres) : sess.moments[i] \in {0, sess.spheres[i]}

(***************************************************************************)
(* No sphere is ever in two slots, and only spheres that were placed are   *)
(* there: culling, reseeding and pruning select without repetition.        *)
(***************************************************************************)
SpheresDistinct ==
  /\ IsInjective(sess.spheres)
  /\ \A i \in 1..Len(sess.spheres) : sess.spheres[i] \in 1..sess.born

(***************************************************************************)
(* Density control never falls silent: while a session with density        *)
(* control trains, a pass was marked (or the session began) at most        *)
(* 2 * MinInterval + 1 iterations ago.                                     *)
(***************************************************************************)
PassNeverOverdue ==
  (DensityEnabled /\ sess.state = "running") =>
    sess.iteration - sess.lastPass <= 2 * MinInterval + 1

(***************************************************************************)
(* A pass comes at least MinInterval iterations after the one before,      *)
(* keeps at least one survivor, and leaves no bad sphere behind unless it  *)
(* already culls all it may: one fewer than the target and the population. *)
(***************************************************************************)
PassStep ==
  sess'.passes # sess.passes =>
    /\ sess'.lastPass - sess.lastPass >= MinInterval
    /\ Range(sess'.spheres) \cap Range(sess.spheres) # {}
    /\ \/ sess'.last.bad \cap Range(sess'.spheres) = {}
       \/ sess'.last.removed = AtMost(Target, Len(sess.spheres)) - 1
PassesCullEveryBadSphere == [][PassStep]_sess

(***************************************************************************)
(* The session reports `done' exactly when no iteration remains, so a      *)
(* step-by-step caller that stops at `done' stops at the right time.       *)
(***************************************************************************)
DoneIsReported ==
  sess.last # NoStep =>
    /\ sess.state = "running" => ~sess.last.done
    /\ sess.state \in {"converged", "completed"} => sess.last.done
    /\ sess.last.converged => sess.iteration = sess.last.iteration + 1
                              /\ ~sess.last.fired

(***************************************************************************)
(* The session implements the promise made to its observers.               *)
(***************************************************************************)
Progress == INSTANCE SessionProgress WITH view <- ViewOf(sess)

ImplementsProgress == Progress!Spec
=============================================================================
