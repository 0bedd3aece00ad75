-------------------------- MODULE GpuSearchProofs --------------------------
(***************************************************************************)
(* Proofs about GpuSearch for every number of sessions, adapters, samples, *)
(* spheres and queries: a query is answered with what the CPU computes.    *)
(* First the arithmetic: a proposal that is decisive in rounded numbers is *)
(* the exact first minimum (DecisiveProposal).  Then the invariant IInv,   *)
(* in layers: Types, Control (who owns the staging buffer), Explained (the *)
(* message before the flag) and Data (what each buffer holds on the way).  *)
(* Then what to_csr makes of the pairs, in whatever order they were        *)
(* appended (CsrOfAList), and with it that the searches of all sessions    *)
(* implement SearchPromise.                                                *)
(***************************************************************************)
EXTENDS GpuSearch, FiniteSetTheorems, SequenceTheorems, WellFoundedInduction, TLAPS

\* A set of naturals that is not empty has a least element.
LEMMA LeastOfNaturals ==
  ASSUME NEW S \in SUBSET Nat, S # {}
  PROVE  \E m \in S : \A l \in S : m <= l
<1> DEFINE Less == OpToRel(<, Nat)
<1>1. Less = {ss \in Nat \X Nat : ss[1] < ss[2]}
  BY DEF OpToRel
<1>2. IsWellFoundedOn(Less, Nat)
  BY NatLessThanWellFounded
<1> HIDE DEF Less
<1>3. PICK m \in S : \A l \in S : ~ (<<l, m>> \in Less)
  BY <1>2, WFMin
<1>4. ASSUME NEW l \in S, l < m
      PROVE  <<l, m>> \in Less
  BY <1>1, <1>4
<1>5. \A l \in S : l \in Nat /\ m \in Nat
  OBVIOUS
<1>6. ASSUME NEW l \in S PROVE m <= l
  <2> SUFFICES ~(l < m)
    BY <1>5
  <2> QED
    BY <1>3, <1>4
<1> QED
  BY <1>6

\* row_min returns the first index of the least value.
LEMMA FirstMinIsLeast ==
  ASSUME NEW n \in Nat \ {0}, NEW f \in [1..n -> Int]
  PROVE  /\ FirstMin(f) \in 1..n
         /\ \A k \in 1..n : f[FirstMin(f)] < f[k] \/ (f[FirstMin(f)] = f[k] /\ FirstMin(f) <= k)
<1> DEFINE Least(m, j) == \A k \in 1..m : f[j] < f[k] \/ (f[j] = f[k] /\ j <= k)
           Bad == {m \in 1..n : \A j \in 1..m : ~Least(m, j)}
<1>1. \A j, m \in 1..n : f[j] \in Int /\ f[m] \in Int
  OBVIOUS
<1>2. Least(1, 1)
  OBVIOUS
\* A first minimum of a shorter prefix, or the value after it, is one of a longer.
<1>3. ASSUME NEW m \in 2..n, NEW j \in 1..(m - 1), Least(m - 1, j)
      PROVE  \E i \in 1..m : Least(m, i)
  <2>1. m \in 1..n /\ j \in 1..n /\ j \in 1..m /\ m \in 1..m
    OBVIOUS
  <2>2. CASE f[m] < f[j]
    <3>1. ASSUME NEW k \in 1..(m - 1)
          PROVE  f[m] < f[k]
      <4>1. f[j] <= f[k]
        BY <1>3, <3>1
      <4>2. f[j] \in Int /\ f[k] \in Int /\ f[m] \in Int
        BY <2>1
      <4> QED
        BY <4>1, <4>2, <2>2
    <3>2. Least(m, m)
      BY <3>1
    <3> QED
      <4> HIDE DEF Least
      <4> QED BY <3>2, <2>1
  <2>3. CASE f[j] <= f[m]
    <3>1. Least(m, j)
      <4> SUFFICES ASSUME NEW k \in 1..m PROVE f[j] < f[k] \/ (f[j] = f[k] /\ j <= k)
        OBVIOUS
      <4>1. CASE k \in 1..(m - 1)
        BY <4>1, <1>3
      <4>2. CASE k = m
        <5>1. f[j] \in Int /\ f[m] \in Int
          BY <2>1
        <5> QED
          BY <4>2, <2>3, <5>1
      <4> QED
        BY <4>1, <4>2
    <3> QED
      <4> HIDE DEF Least
      <4> QED BY <3>1, <2>1
  <2> QED
    BY <2>1, <2>2, <2>3, <1>1
<1> HIDE DEF Least
<1>4. Bad = {}
  <2> SUFFICES ASSUME Bad # {} PROVE FALSE
    OBVIOUS
  <2>1. PICK m \in Bad : \A l \in Bad : m <= l
    <3>1. Bad \in SUBSET Nat
      OBVIOUS
    <3> QED
      <4> HIDE DEF Bad
      <4> QED BY <3>1, LeastOfNaturals
  <2>2. m \in 1..n /\ \A j \in 1..m : ~Least(m, j)
    BY <2>1
  <2>3. m \in 2..n
    BY <2>2, <1>2
  <2>4. m - 1 \in 1..n /\ m - 1 \notin Bad
    <3> HIDE DEF Bad
    <3> QED BY <2>1, <2>3
  <2>5. PICK j \in 1..(m - 1) : Least(m - 1, j)
    BY <2>4
  <2> QED
    BY <2>2, <2>3, <2>5, <1>3
<1>5. PICK j \in 1..n : Least(n, j)
  BY <1>4, SMTT(30)
<1>6. DOMAIN f = 1..n
  OBVIOUS
<1> QED
  BY <1>5, <1>6 DEF FirstMin, Least

\* Only one index is the first of the least value.
LEMMA FirstMinIsOnly ==
  ASSUME NEW n \in Nat \ {0}, NEW f \in [1..n -> Int], NEW j \in 1..n,
         \A k \in 1..n : f[j] < f[k] \/ (f[j] = f[k] /\ j <= k)
  PROVE  FirstMin(f) = j
<1>1. /\ FirstMin(f) \in 1..n
      /\ f[FirstMin(f)] < f[j] \/ (f[FirstMin(f)] = f[j] /\ FirstMin(f) <= j)
  BY FirstMinIsLeast
<1>2. f[j] < f[FirstMin(f)] \/ (f[j] = f[FirstMin(f)] /\ j <= FirstMin(f))
  BY <1>1
<1>3. f[j] \in Int /\ f[FirstMin(f)] \in Int
  BY <1>1
<1> QED
  BY <1>1, <1>2, <1>3

\* Every other value of a row is at least the margin above the proposed one.
LEMMA ProposalMargin ==
  ASSUME NEW n \in Nat \ {0}, NEW f \in [1..n -> Int]
  PROVE  /\ Proposal(f).idx = FirstMin(f)
         /\ Proposal(f).margin \in Int
         /\ \A k \in (1..n) \ {FirstMin(f)} : Proposal(f).margin <= f[k] - f[FirstMin(f)]
<1> DEFINE j == FirstMin(f)
           others == {f[k] : k \in DOMAIN f \ {j}} \cup {Big}
           Smallest(g) == \A h \in others : g <= h
<1>1. j \in 1..n /\ Big \in Int
  BY FirstMinIsLeast, SearchAssumption
<1>2. \E g \in others : Smallest(g)
  <2> DEFINE b == [f EXCEPT ![j] = Big]
  <2>1. b \in [1..n -> Int]
    BY <1>1
  <2>2. others = {b[k] : k \in 1..n}
    BY <1>1
  <2>3. /\ FirstMin(b) \in 1..n
        /\ \A k \in 1..n : b[FirstMin(b)] < b[k] \/ b[FirstMin(b)] = b[k]
    <3> HIDE DEF b
    <3> QED BY <2>1, FirstMinIsLeast
  <2>4. \A k \in 1..n : b[FirstMin(b)] <= b[k]
    <3> HIDE DEF b
    <3> QED BY <2>1, <2>3
  <2>5. b[FirstMin(b)] \in others /\ Smallest(b[FirstMin(b)])
    <3> HIDE DEF b
    <3> QED BY <2>2, <2>3, <2>4
  <2> QED
    BY <2>5
<1>3. (CHOOSE g \in others : Smallest(g)) \in others /\ Smallest(CHOOSE g \in others : Smallest(g))
  BY <1>2
<1>4. others \subseteq Int
  BY <1>1
<1>5. Proposal(f) = [idx |-> j, margin |-> (CHOOSE g \in others : Smallest(g)) - f[j]]
  BY DEF Proposal
<1>6. \A k \in (1..n) \ {j} : f[k] \in others /\ f[k] \in Int
  OBVIOUS
<1> QED
  <2> HIDE DEF j, others, Smallest
  <2> DEFINE g == CHOOSE g \in others : Smallest(g)
  <2>1. g \in Int /\ f[j] \in Int
    BY <1>1, <1>3, <1>4
  <2>2. \A k \in (1..n) \ {j} : g <= f[k]
    BY <1>3, <1>6 DEF Smallest
  <2>3. Proposal(f).idx = j /\ Proposal(f).margin = g - f[j]
    BY <1>5
  <2> HIDE DEF g
  <2>4. \A k \in (1..n) \ {j} : Proposal(f).margin <= f[k] - f[j]
    BY <2>1, <2>2, <2>3, <1>6
  <2> QED
    BY <2>1, <2>3, <2>4 DEF j

(***************************************************************************)
(* A proposal in f32 whose margin beats the tolerance names the first      *)
(* minimum of the exact values.                                            *)
(***************************************************************************)
LEMMA DecisiveProposal ==
  ASSUME NEW n \in Nat \ {0}, NEW g \in [1..n -> Int], NEW f \in [1..n -> Int],
         \A k \in 1..n : f[k] - g[k] \in (-Err)..Err,
         Decisive(Proposal(f))
  PROVE  Proposal(f).idx = FirstMin(g)
<1> DEFINE j == FirstMin(f)
<1>1. j \in 1..n /\ Proposal(f).idx = j
  BY ProposalMargin, FirstMinIsLeast
<1>2. \A k \in (1..n) \ {j} : f[k] - f[j] > Tol
  <2> TAKE k \in (1..n) \ {j}
  <2>1. Proposal(f).margin <= f[k] - f[j] /\ Proposal(f).margin \in Int
    BY ProposalMargin
  <2>2. f[k] \in Int /\ f[j] \in Int /\ Tol \in Int
    BY <1>1, SearchAssumption
  <2>3. Proposal(f).margin > Tol
    BY DEF Decisive
  <2> DEFINE m == Proposal(f).margin  fk == f[k]  fj == f[j]
  <2>4. m \in Int /\ fk \in Int /\ fj \in Int /\ Tol \in Int /\ m <= fk - fj /\ m > Tol
    BY <2>1, <2>2, <2>3
  <2> HIDE DEF m, fk, fj
  <2>5. fk - fj > Tol
    BY <2>4
  <2> QED
    BY <2>5 DEF fk, fj
<1>3. \A k \in (1..n) \ {j} : g[j] < g[k]
  <2> HIDE DEF j
  <2> TAKE k \in (1..n) \ {j}
  <2>1. f[k] \in Int /\ f[j] \in Int /\ g[k] \in Int /\ g[j] \in Int
    BY <1>1
  <2>2. f[k] - g[k] <= Err /\ -Err <= f[j] - g[j] /\ Err \in Int /\ Tol \in Int /\ Tol >= Err + Err
    <3>1. f[k] - g[k] \in (-Err)..Err /\ f[j] - g[j] \in (-Err)..Err
      BY <1>1
    <3> QED
      BY <2>1, <3>1, SearchAssumption
  <2>3. f[k] - f[j] > Tol
    BY <1>2
  <2> DEFINE fk == f[k]  fj == f[j]  gk == g[k]  gj == g[j]
  <2>4. fk \in Int /\ fj \in Int /\ gk \in Int /\ gj \in Int
    BY <2>1
  <2>5. fk - gk <= Err /\ -Err <= fj - gj /\ Err \in Int /\ Tol \in Int /\ Tol >= Err + Err
    BY <2>2
  <2>6. fk - fj > Tol
    BY <2>3
  <2> HIDE DEF fk, fj, gk, gj
  <2>7. gj < gk
    BY <2>4, <2>5, <2>6
  <2> QED
    BY <2>7 DEF gj, gk
<1>4. FirstMin(g) = j
  <2> HIDE DEF j
  <2>1. \A k \in 1..n : g[j] < g[k] \/ (g[j] = g[k] /\ j <= k)
    BY <1>1, <1>3
  <2> QED
    BY <1>1, <2>1, FirstMinIsOnly
<1> QED
  BY <1>1, <1>4
-----------------------------------------------------------------------------
(***************************************************************************)
(* The invariant, in layers.                                               *)
(***************************************************************************)
Types ==
  /\ context \in [DOMAIN Adapters -> [open : BOOLEAN, failed : BOOLEAN, error : BOOLEAN]]
  /\ backend = [s \in Sessions |-> backend[s]]
  /\ broken \in [Sessions -> BOOLEAN]
  /\ error \in [Sessions -> BOOLEAN]
  /\ job \in [Sessions -> Jobs]
  /\ pc \in [Sessions -> Places]
  /\ query \in [Sessions -> Queries \cup {NoQuery}]
  /\ answer = [s \in Sessions |-> answer[s]]
  /\ scratch = [s \in Sessions |-> scratch[s]]

\* Who owns the staging buffer, and where a query can be.
Control ==
  \A s \in Sessions :
    /\ pc[s] = "idle" => query[s] = NoQuery
    /\ pc[s] # "idle" => backend[s] # Unopened /\ query[s] \in Queries
    /\ pc[s] \notin {"idle", "asked"} => OnGpu(s) /\ query[s].n # 0
    /\ pc[s] \in {"idle", "asked"} /\ ~broken[s] => job[s] = "none"
    /\ pc[s] \in {"encode", "decide"} => job[s] = "none"
    /\ pc[s] = "report" => job[s] = "refused"
    /\ pc[s] = "wait" => job[s] # "none"
    /\ pc[s] = "wait" /\ job[s] = "refused" => DeviceFailed(s)

\* The message comes before the flag.
Explained ==
  /\ \A a \in DOMAIN Adapters : context[a].failed => context[a].error
  /\ \A s \in Sessions : /\ broken[s] => error[s]
                         /\ pc[s] = "break" => error[s]
                         /\ pc[s] = "report" => context[backend[s]].error
-----------------------------------------------------------------------------
\* The first three layers hold when nothing is open.
LEMMA TypesInit == Init => Types /\ Control /\ Explained
BY QueriesAssumption DEF Init, Types, Jobs, Control, Explained, NewScratch, Places, OnGpu, DeviceFailed

\* Each action assigns values of the right kind.
LEMMA TypesNext ==
  ASSUME Types, Control, [Next]_vars
  PROVE  Types'
<1> USE DEF Types, Jobs, Places
<1>0. CASE UNCHANGED vars
  BY <1>0 DEF vars
<1>1. ASSUME NEW s \in Sessions, Open(s)
      PROVE  Types'
  <2>1. context' \in [DOMAIN Adapters -> [open : BOOLEAN, failed : BOOLEAN, error : BOOLEAN]]
    <3>1. PICK a : \/ context' = context
                   \/ a \in DOMAIN Adapters /\ context' = [context EXCEPT ![a].open = TRUE]
      BY <1>1 DEF Open
    <3> QED
      BY <3>1, ZenonT(60)
  <2>2. \E a : backend' = [backend EXCEPT ![s] = a]
    BY <1>1 DEF Open
  <2> QED
    BY <1>1, <2>1, <2>2 DEF Open
<1>2. ASSUME NEW s \in Sessions, Ask(s)
      PROVE  Types'
  BY <1>2 DEF Ask, Goto
<1>3. ASSUME NEW s \in Sessions, AnswerOnCpu(s)
      PROVE  Types'
  BY <1>3 DEF AnswerOnCpu, Finish, Goto
<1>4. ASSUME NEW s \in Sessions, Upload(s)
      PROVE  Types'
  BY <1>4 DEF Upload, Goto
<1>5. ASSUME NEW s \in Sessions, Submit(s)
      PROVE  Types'
  <2>1. backend[s] \in DOMAIN Adapters
    BY <1>5 DEF Submit, Control, OnGpu
  <2>2. context' \in [DOMAIN Adapters -> [open : BOOLEAN, failed : BOOLEAN, error : BOOLEAN]]
    <3>1. PICK a \in DOMAIN Adapters : \/ context' = context
                                       \/ context' = [context EXCEPT ![a].error = TRUE]
      BY <1>5, <2>1 DEF Submit
    <3> QED
      BY <3>1, ZenonT(60)
  <2>3. job' \in [Sessions -> Jobs] /\ pc' \in [Sessions -> Places]
    BY <1>5 DEF Submit, Goto
  <2>4. \E sc : scratch' = [scratch EXCEPT ![s] = sc]
    BY <1>5 DEF Submit
  <2>5. UNCHANGED <<backend, broken, error, query, answer>>
    BY <1>5 DEF Submit
  <2> QED
    BY <2>2, <2>3, <2>4, <2>5
<1>6. ASSUME NEW s \in Sessions, Report(s)
      PROVE  Types'
  BY <1>6, ZenonT(60) DEF Report, Goto
<1>7. ASSUME NEW s \in Sessions, GpuRuns(s)
      PROVE  Types'
  BY <1>7 DEF GpuRuns
<1>8. ASSUME NEW s \in Sessions, MapDone(s)
      PROVE  Types'
  BY <1>8 DEF MapDone, Waits, Goto
<1>9. ASSUME NEW s \in Sessions, MapFails(s) \/ Fails(s)
      PROVE  Types'
  BY <1>9 DEF MapFails, Fails, RangeFails, Deadline, PollFails, Waits, StopWaiting, Goto
<1>16. ASSUME NEW s \in Sessions, Callback(s)
      PROVE  Types'
  BY <1>16 DEF Callback, Waits
<1>10. ASSUME NEW s \in Sessions, GrowPairs(s)
      PROVE  Types'
  BY <1>10 DEF GrowPairs, Goto
<1>11. ASSUME NEW s \in Sessions, Decide(s)
      PROVE  Types'
  BY <1>11 DEF Decide, Finish, Goto
<1>12. ASSUME NEW s \in Sessions, GiveUp(s)
      PROVE  Types'
  BY <1>12 DEF GiveUp, Goto
<1>13. ASSUME NEW s \in Sessions, Break(s)
      PROVE  Types'
  BY <1>13 DEF Break, Finish, Goto
<1>14. ASSUME NEW a \in DOMAIN Adapters, DeviceError(a)
      PROVE  Types'
  BY <1>14, ZenonT(60) DEF DeviceError, local
<1>15. ASSUME NEW a \in DOMAIN Adapters, DeviceFlag(a)
      PROVE  Types'
  BY <1>15, ZenonT(60) DEF DeviceFlag, local
<1> QED
  BY <1>0, <1>1, <1>2, <1>3, <1>4, <1>5, <1>6, <1>7, <1>8, <1>9, <1>10, <1>11, <1>12, <1>13, <1>14, <1>15, <1>16 DEF Next, Works

\* Each action keeps who owns the staging buffer.
LEMMA ControlNext ==
  ASSUME Types, Control, [Next]_vars
  PROVE  Control'
<1> USE DEF Types, Jobs, Places, Control, OnGpu, DeviceFailed, GpuOk, ToGpu
<1>0. CASE UNCHANGED vars
  BY <1>0 DEF vars
<1>1. ASSUME NEW s \in Sessions, Open(s)
      PROVE  Control'
  BY <1>1 DEF Open
<1>2. ASSUME NEW s \in Sessions, Ask(s)
      PROVE  Control'
  BY <1>2 DEF Ask, Goto
<1>3. ASSUME NEW s \in Sessions, AnswerOnCpu(s)
      PROVE  Control'
  BY <1>3 DEF AnswerOnCpu, Finish, Goto
<1>4. ASSUME NEW s \in Sessions, Upload(s)
      PROVE  Control'
  BY <1>4 DEF Upload, Goto
<1>5. ASSUME NEW s \in Sessions, Submit(s)
      PROVE  Control'
  BY <1>5 DEF Submit, Goto
<1>6. ASSUME NEW s \in Sessions, Report(s)
      PROVE  Control'
  BY <1>6 DEF Report, Goto
<1>7. ASSUME NEW s \in Sessions, GpuRuns(s)
      PROVE  Control'
  BY <1>7 DEF GpuRuns
<1>8. ASSUME NEW s \in Sessions, MapDone(s)
      PROVE  Control'
  BY <1>8 DEF MapDone, Waits, Goto
<1>9. ASSUME NEW s \in Sessions, MapFails(s) \/ Fails(s)
      PROVE  Control'
  BY <1>9 DEF MapFails, Fails, RangeFails, Deadline, PollFails, Waits, StopWaiting, Goto
<1>16. ASSUME NEW s \in Sessions, Callback(s)
      PROVE  Control'
  BY <1>16 DEF Callback, Waits
<1>10. ASSUME NEW s \in Sessions, GrowPairs(s)
      PROVE  Control'
  BY <1>10 DEF GrowPairs, Goto
<1>11. ASSUME NEW s \in Sessions, Decide(s)
      PROVE  Control'
  BY <1>11 DEF Decide, Finish, Goto
<1>12. ASSUME NEW s \in Sessions, GiveUp(s)
      PROVE  Control'
  BY <1>12 DEF GiveUp, Goto
<1>13. ASSUME NEW s \in Sessions, Break(s)
      PROVE  Control'
  BY <1>13 DEF Break, Finish, Goto
<1>14. ASSUME NEW a \in DOMAIN Adapters, DeviceError(a)
      PROVE  Control'
  BY <1>14 DEF DeviceError, local
<1>15. ASSUME NEW a \in DOMAIN Adapters, DeviceFlag(a)
      PROVE  Control'
  BY <1>15 DEF DeviceFlag, local
<1> QED
  BY <1>0, <1>1, <1>2, <1>3, <1>4, <1>5, <1>6, <1>7, <1>8, <1>9, <1>10, <1>11, <1>12, <1>13, <1>14, <1>15, <1>16 DEF Next, Works

\* No action sets a flag before its message.
LEMMA ExplainedNext ==
  ASSUME Types, Control, Explained, [Next]_vars
  PROVE  Explained'
<1> USE DEF Types, Jobs, Places, Control, Explained, OnGpu
<1>0. CASE UNCHANGED vars
  BY <1>0 DEF vars
<1>1. ASSUME NEW s \in Sessions, Open(s)
      PROVE  Explained'
  BY <1>1 DEF Open
<1>2. ASSUME NEW s \in Sessions, Ask(s)
      PROVE  Explained'
  BY <1>2 DEF Ask, Goto
<1>3. ASSUME NEW s \in Sessions, AnswerOnCpu(s)
      PROVE  Explained'
  BY <1>3 DEF AnswerOnCpu, Finish, Goto
<1>4. ASSUME NEW s \in Sessions, Upload(s)
      PROVE  Explained'
  BY <1>4 DEF Upload, Goto
<1>5. ASSUME NEW s \in Sessions, Submit(s)
      PROVE  Explained'
  BY <1>5, SMTT(30) DEF Submit, Goto
<1>6. ASSUME NEW s \in Sessions, Report(s)
      PROVE  Explained'
  BY <1>6 DEF Report, Goto
<1>7. ASSUME NEW s \in Sessions, GpuRuns(s)
      PROVE  Explained'
  BY <1>7 DEF GpuRuns
<1>8. ASSUME NEW s \in Sessions, MapDone(s)
      PROVE  Explained'
  BY <1>8 DEF MapDone, Waits, Goto
<1>9. ASSUME NEW s \in Sessions, MapFails(s) \/ Fails(s)
      PROVE  Explained'
  BY <1>9 DEF MapFails, Fails, RangeFails, Deadline, PollFails, Waits, StopWaiting, Goto
<1>16. ASSUME NEW s \in Sessions, Callback(s)
      PROVE  Explained'
  BY <1>16 DEF Callback, Waits
<1>10. ASSUME NEW s \in Sessions, GrowPairs(s)
      PROVE  Explained'
  BY <1>10 DEF GrowPairs, Goto
<1>11. ASSUME NEW s \in Sessions, Decide(s)
      PROVE  Explained'
  BY <1>11 DEF Decide, Finish, Goto
<1>12. ASSUME NEW s \in Sessions, GiveUp(s)
      PROVE  Explained'
  BY <1>12 DEF GiveUp, Goto
<1>13. ASSUME NEW s \in Sessions, Break(s)
      PROVE  Explained'
  BY <1>13 DEF Break, Finish, Goto
<1>14. ASSUME NEW a \in DOMAIN Adapters, DeviceError(a)
      PROVE  Explained'
  BY <1>14 DEF DeviceError, local
<1>15. ASSUME NEW a \in DOMAIN Adapters, DeviceFlag(a)
      PROVE  Explained'
  BY <1>15 DEF DeviceFlag, local
<1> QED
  BY <1>0, <1>1, <1>2, <1>3, <1>4, <1>5, <1>6, <1>7, <1>8, <1>9, <1>10, <1>11, <1>12, <1>13, <1>14, <1>15, <1>16 DEF Next, Works

-----------------------------------------------------------------------------
\* The rows a pass computes for a query, and the pairs it lists.
RowsOf(q, pass)  == IF pass = "spheres" THEN q.n ELSE Samples[pass]
ExactRow(q, pass, i) ==
  Proposal(IF pass = "spheres" THEN RoundedDistances(q, i) ELSE Rounded(q, pass, i))
AllPairs(q) == UNION {Listed(q, "surface", i) : i \in 1..Samples["surface"]}

\* A finite list with the elements of a set, once each.
Lists(list, S) ==
  /\ \E n \in Nat : DOMAIN list = 1..n
  /\ {list[k] : k \in DOMAIN list} = S
  /\ \A k, l \in DOMAIN list : k # l => list[k] # list[l]

WellFormed(sc) ==
  /\ sc = [spheres |-> sc.spheres, params |-> sc.params, rows |-> sc.rows,
           pairs |-> sc.pairs, cap |-> sc.cap, staging |-> sc.staging]
  /\ sc.params = [p \in Slots |-> sc.params[p]]
  /\ sc.pairs = [count |-> sc.pairs.count, data |-> sc.pairs.data]
  /\ sc.pairs.count \in Nat
  /\ sc.cap \in Nat

RecordedFor(sc, q) ==
  /\ \A p \in Slots : Runs(q, p) => sc.params[p] = Params(sc, q, p)
  /\ WantPairs(q) => sc.pairs.count = 0

ReadFor(sc, q) ==
  /\ \A p \in Slots : Runs(q, p) =>
       sc.staging.rows[p] = [i \in 1..RowsOf(q, p) |-> ExactRow(q, p, i)]
  /\ WantPairs(q) => sc.staging.pairs.count \in Nat
  /\ WantPairs(q) /\ sc.staging.pairs.count <= sc.cap => Lists(sc.staging.pairs.data, AllPairs(q))

OnItsWay == {"encode", "report", "wait", "decide"}

Data ==
  \A s \in Sessions :
    /\ pc[s] \in OnItsWay \/ (pc[s] \in {"idle", "asked"} /\ ~broken[s]) => WellFormed(scratch[s])
    /\ pc[s] \in OnItsWay =>
         /\ scratch[s].spheres = query[s]
         /\ "nearest" \in query[s].wants => Samples["surface"] # 0
    /\ pc[s] = "report" => RecordedFor(scratch[s], query[s])
    /\ pc[s] = "wait" /\ job[s] = "queued" => RecordedFor(scratch[s], query[s])
    /\ pc[s] = "wait" /\ job[s] = "done" => ReadFor(scratch[s], query[s])
    /\ pc[s] = "wait" /\ job[s] = "mapped" => DeviceFailed(s) \/ ReadFor(scratch[s], query[s])
    /\ pc[s] = "decide" => ReadFor(scratch[s], query[s])

\* A listing of a finite set has its elements, once each.
LEMMA SequencesOfASet ==
  ASSUME NEW S, IsFiniteSet(S), NEW l \in SetToSeqs(S)
  PROVE  /\ Cardinality(S) \in Nat
         /\ Len(l) = Cardinality(S)
         /\ DOMAIN l = 1..Len(l)
         /\ {l[k] : k \in DOMAIN l} = S
         /\ \A i, j \in DOMAIN l : i # j => l[i] # l[j]
<1> DEFINE n == Cardinality(S)
<1>1. n \in Nat
  BY FS_CardinalityType
<1> HIDE DEF n
<1>2. l \in [1..n -> S] /\ \A i, j \in 1..n : i # j => l[i] # l[j]
  BY DEF SetToSeqs, n
<1>3. l \in Seq(S)
  BY <1>1, <1>2, SeqDef
<1>4. Len(l) = n /\ DOMAIN l = 1..n
  <2>1. DOMAIN l = 1..Len(l) /\ Len(l) \in Nat
    BY <1>3, LenProperties
  <2>2. DOMAIN l = 1..n
    BY <1>2
  <2>3. ~(Len(l) < n)
    <3> SUFFICES ASSUME Len(l) < n PROVE FALSE
      OBVIOUS
    <3>1. n \in 1..n /\ n \notin 1..Len(l)
      BY <2>1, <1>1
    <3> QED
      BY <3>1, <2>1, <2>2
  <2>4. ~(n < Len(l))
    <3> SUFFICES ASSUME n < Len(l) PROVE FALSE
      OBVIOUS
    <3>1. Len(l) \in 1..Len(l) /\ Len(l) \notin 1..n
      BY <2>1, <1>1
    <3> QED
      BY <3>1, <2>1, <2>2
  <2>5. Len(l) = n
    <3> DEFINE m == Len(l)
    <3>1. m \in Int /\ n \in Int /\ ~(m < n) /\ ~(n < m)
      BY <2>1, <2>3, <2>4, <1>1
    <3> HIDE DEF m
    <3>2. m = n
      BY <3>1
    <3> QED
      BY <3>2 DEF m
  <2> QED
    BY <2>2, <2>5
<1>5. IsFiniteSet(1..n) /\ Cardinality(1..n) = n
  BY <1>1, FS_Interval
<1>6. l \in Injection(1..n, S)
  BY <1>2 DEF Injection, IsInjective
<1>7. l \in Surjection(1..n, S)
  BY <1>5, <1>6, FS_Injection DEF n
<1>8. {l[k] : k \in DOMAIN l} = S
  BY <1>7, <1>2 DEF Surjection
<1> QED
  BY <1>1, <1>2, <1>4, <1>8 DEF n

\* Finitely many pairs touch.
LEMMA PairsAreFinite ==
  ASSUME NEW q \in Queries
  PROVE  IsFiniteSet(AllPairs(q))
<1>1. q.n \in Nat /\ Samples["surface"] \in Nat
  BY QueriesAssumption, SearchAssumption DEF IsQuery, SampleSets
<1>2. IsFiniteSet((1..Samples["surface"]) \X (1..q.n))
  <2>1. IsFiniteSet(1..q.n)
    BY <1>1, FS_Interval, SMTT(30)
  <2>2. IsFiniteSet(1..Samples["surface"])
    BY <1>1, FS_Interval
  <2> QED
    BY <2>1, <2>2, FS_Product
<1>3. AllPairs(q) \in SUBSET ((1..Samples["surface"]) \X (1..q.n))
  BY DEF AllPairs, Listed
<1> QED
  BY <1>2, <1>3, FS_Subset

\* A recorded pass runs with the parameters of its query.
LEMMA RecordedPairs ==
  ASSUME NEW q \in Queries, NEW sc, RecordedFor(sc, q), NEW p \in SampleSets, Runs(q, p)
  PROVE  /\ sc.params[p].samples = Samples[p]
         /\ sc.params[p].cap = sc.cap
         /\ sc.params[p].pairs <=> p = "surface" /\ WantPairs(q)
<1>1. sc.params[p] = Params(sc, q, p)
  BY DEF RecordedFor, Slots
<1>2. p = "inside" \/ p = "surface"
  BY DEF SampleSets
<1>3. /\ Params(sc, q, p).samples = Samples[p]
      /\ Params(sc, q, p).cap = sc.cap
      /\ Params(sc, q, p).pairs = (p = "surface" /\ WantPairs(q))
  BY <1>2 DEF Params
<1> QED
  BY <1>1, <1>3

\* A query that wants pairs gets all that touch,
LEMMA PairsOfTheKernel ==
  ASSUME NEW q \in Queries, NEW sc, RecordedFor(sc, q), WantPairs(q)
  PROVE  KernelPairs(sc, q) = AllPairs(q)
<1>1. Runs(q, "surface")
  BY DEF WantPairs, Runs
<1>2. sc.params["surface"].pairs
  BY <1>1, RecordedPairs DEF SampleSets
<1>3. Runs(q, "inside") => ~sc.params["inside"].pairs
  BY RecordedPairs DEF SampleSets
<1>4. {p \in SampleSets : Runs(q, p) /\ sc.params[p].pairs} = {"surface"}
  BY <1>1, <1>2, <1>3 DEF SampleSets
<1> QED
  BY <1>4 DEF KernelPairs, AllPairs

\* and one that does not gets none.
LEMMA NoPairsOfTheKernel ==
  ASSUME NEW q \in Queries, NEW sc, RecordedFor(sc, q), ~WantPairs(q)
  PROVE  KernelPairs(sc, q) = {}
<1>1. \A p \in SampleSets : Runs(q, p) => ~sc.params[p].pairs
  BY RecordedPairs
<1> QED
  BY <1>1 DEF KernelPairs

(***************************************************************************)
(* The GPU leaves in the staging buffer what the query needs.              *)
(***************************************************************************)
LEMMA ExecutedIsRead ==
  ASSUME NEW q \in Queries, NEW sc, WellFormed(sc), RecordedFor(sc, q),
         NEW listed \in SetToSeqs(KernelPairs(sc, q))
  PROVE  /\ WellFormed(Executed(sc, q, listed))
         /\ ReadFor(Executed(sc, q, listed), q)
         /\ Executed(sc, q, listed).spheres = sc.spheres
<1> DEFINE rows == [p \in Slots |-> IF Runs(q, p) THEN KernelRows(sc, q, p) ELSE sc.rows[p]]
           pairs == Stored(sc, listed)
           next == Executed(sc, q, listed)
<1>1. next = [sc EXCEPT !.rows = rows, !.pairs = pairs, !.staging = [rows |-> rows, pairs |-> pairs]]
  BY DEF Executed
<1> HIDE DEF rows, pairs, next
<1>2. next = [spheres |-> sc.spheres, params |-> sc.params, rows |-> rows,
              pairs |-> pairs, cap |-> sc.cap, staging |-> [rows |-> rows, pairs |-> pairs]]
  BY <1>1 DEF WellFormed
<1>3. IsFiniteSet(KernelPairs(sc, q))
  BY PairsAreFinite, PairsOfTheKernel, NoPairsOfTheKernel, FS_EmptySet
<1>4. /\ Len(listed) \in Nat
      /\ DOMAIN listed = 1..Len(listed)
      /\ {listed[k] : k \in DOMAIN listed} = KernelPairs(sc, q)
      /\ \A k, l \in DOMAIN listed : k # l => listed[k] # listed[l]
  BY <1>3, SequencesOfASet
<1>5. /\ pairs = [count |-> pairs.count, data |-> pairs.data]
      /\ pairs.count = sc.pairs.count + Len(listed)
  BY DEF pairs, Stored
<1>6. WellFormed(next)
  BY <1>2, <1>4, <1>5 DEF WellFormed
<1>7. ASSUME NEW p \in Slots, Runs(q, p)
      PROVE  rows[p] = [i \in 1..RowsOf(q, p) |-> ExactRow(q, p, i)]
  <2>1. rows[p] = KernelRows(sc, q, p)
    BY <1>7 DEF rows
  <2>2. p # "spheres" => sc.params[p].samples = Samples[p]
    BY <1>7, RecordedPairs DEF Slots
  <2> QED
    BY <2>1, <2>2 DEF KernelRows, RowsOf, ExactRow
<1>8. ASSUME WantPairs(q), pairs.count <= sc.cap
      PROVE  Lists(pairs.data, AllPairs(q))
  <2>1. sc.params["surface"].cap = sc.cap /\ sc.pairs.count = 0
    BY <1>8, RecordedPairs DEF RecordedFor, Runs, WantPairs, SampleSets
  <2>2. pairs.count = Len(listed)
    BY <1>4, <1>5, <2>1
  <2>3. pairs.data = [k \in 1..Len(listed) |-> listed[k]]
    BY <1>4, <1>8, <2>1, <2>2 DEF pairs, Stored, WellFormed
  <2>4. /\ DOMAIN pairs.data = 1..Len(listed)
        /\ \A k \in 1..Len(listed) : pairs.data[k] = listed[k]
    BY <2>3
  <2>5. {pairs.data[k] : k \in DOMAIN pairs.data} = {listed[k] : k \in DOMAIN listed}
    BY <2>4, <1>4
  <2> QED
    BY <2>4, <2>5, <1>4, <1>8, PairsOfTheKernel DEF Lists
<1>9. ReadFor(next, q)
  <2>1. next.staging.rows = rows /\ next.staging.pairs = pairs /\ next.cap = sc.cap
    BY <1>2
  <2>2. WantPairs(q) => pairs.count \in Nat
    BY <1>4, <1>5 DEF RecordedFor
  <2> QED
    BY <2>1, <2>2, <1>7, <1>8 DEF ReadFor
<1> QED
  BY <1>6, <1>9, <1>2 DEF next

\* Recording writes the parameters and clears the counter.
LEMMA RecordedIsRecorded ==
  ASSUME NEW q, NEW sc, WellFormed(sc)
  PROVE  /\ WellFormed(Recorded(sc, q))
         /\ RecordedFor(Recorded(sc, q), q)
         /\ Recorded(sc, q).spheres = sc.spheres
<1> DEFINE params == [p \in Slots |-> IF Runs(q, p) THEN Params(sc, q, p) ELSE sc.params[p]]
           count == IF WantPairs(q) THEN 0 ELSE sc.pairs.count
           next == Recorded(sc, q)
<1>1. next = [sc EXCEPT !.params = params, !.pairs.count = count]
  BY DEF Recorded
<1>2. count \in Nat
  BY DEF WellFormed
<1> HIDE DEF count, next
<1>3. next = [spheres |-> sc.spheres, params |-> params, rows |-> sc.rows,
              pairs |-> [count |-> count, data |-> sc.pairs.data],
              cap |-> sc.cap, staging |-> sc.staging]
  <2> HIDE DEF params
  <2>1. [sc.pairs EXCEPT !.count = count] = [count |-> count, data |-> sc.pairs.data]
    BY DEF WellFormed
  <2> QED
    BY <1>1, <2>1 DEF WellFormed
<1>4. WellFormed(next)
  BY <1>2, <1>3 DEF WellFormed
<1>5. \A p \in Slots : Runs(q, p) => next.params[p] = Params(next, q, p)
  BY <1>3 DEF Params
<1>6. WantPairs(q) => next.pairs.count = 0
  BY <1>3 DEF count
<1> QED
  BY <1>3, <1>4, <1>5, <1>6 DEF RecordedFor, next

\* New buffers are well formed and on no query's way.
LEMMA DataInit == Init => Data
<1>1. WellFormed(NewScratch)
  BY QueriesAssumption DEF WellFormed, NewScratch
<1> QED
  BY <1>1 DEF Init, Data, OnItsWay

\* A device that failed while a session waits for it stays its device, and failed.
LEMMA FailureStays ==
  ASSUME Types, Control, [Next]_vars, NEW r \in Sessions, pc[r] = "wait", DeviceFailed(r)
  PROVE  DeviceFailed(r)'
<1> USE DEF Types, Control, OnGpu, DeviceFailed
<1>1. backend[r] \in DOMAIN Adapters /\ backend[r] # Unopened
  OBVIOUS
<1>2. backend'[r] = backend[r]
  <2>1. ASSUME NEW s \in Sessions, Open(s)
        PROVE  backend'[r] = backend[r]
    BY <1>1, <2>1 DEF Open
  <2>2. ASSUME NEW s \in Sessions, Ask(s) \/ Works(s) \/ Fails(s) \/ GpuRuns(s)
        PROVE  backend' = backend
    BY <2>2 DEF Ask, Works, AnswerOnCpu, Upload, Submit, Report, Callback, MapDone, MapFails,
        GrowPairs, Decide, GiveUp, Break, Fails, RangeFails, Deadline, PollFails, StopWaiting, GpuRuns
  <2>3. ASSUME NEW a \in DOMAIN Adapters, DeviceError(a) \/ DeviceFlag(a)
        PROVE  backend' = backend
    BY <2>3 DEF DeviceError, DeviceFlag, local
  <2> QED
    BY <2>1, <2>2, <2>3 DEF Next, vars
<1>3. ASSUME NEW a \in DOMAIN Adapters, context[a].failed
      PROVE  context'[a].failed
  <2>1. ASSUME NEW s \in Sessions, Open(s)
        PROVE  context'[a].failed
    BY <1>3, <2>1 DEF Open
  <2>2. ASSUME NEW s \in Sessions, Submit(s)
        PROVE  context'[a].failed
    BY <1>3, <2>2 DEF Submit
  <2>3. ASSUME NEW s \in Sessions, Report(s)
        PROVE  context'[a].failed
    BY <1>3, <2>3 DEF Report
  <2>4. ASSUME NEW s \in Sessions,
               \/ Ask(s) \/ AnswerOnCpu(s) \/ Upload(s) \/ Callback(s) \/ MapDone(s)
               \/ MapFails(s) \/ GrowPairs(s) \/ Decide(s) \/ GiveUp(s) \/ Break(s)
               \/ Fails(s) \/ GpuRuns(s)
        PROVE  context' = context
    BY <2>4 DEF Ask, AnswerOnCpu, Upload, Callback, MapDone, MapFails, GrowPairs, Decide,
        GiveUp, Break, Fails, RangeFails, Deadline, PollFails, StopWaiting, GpuRuns
  <2>5. ASSUME NEW b \in DOMAIN Adapters, DeviceError(b) \/ DeviceFlag(b)
        PROVE  context'[a].failed
    BY <1>3, <2>5 DEF DeviceError, DeviceFlag
  <2> QED
    BY <1>3, <2>1, <2>2, <2>3, <2>4, <2>5 DEF Next, Works, vars
<1> QED
  BY <1>1, <1>2, <1>3

\* Each action keeps what the buffers of every session are good for.
LEMMA DataNext ==
  ASSUME Types, Control, Data, [Next]_vars
  PROVE  Data'
<1>a. \A r \in Sessions : pc[r] = "wait" /\ DeviceFailed(r) => DeviceFailed(r)'
  BY FailureStays
<1> USE <1>a DEF Types, Jobs, Places, OnItsWay
<1>0. CASE UNCHANGED vars
  BY <1>0 DEF vars, Data
<1>1. ASSUME NEW s \in Sessions, Open(s)
      PROVE  Data'
  BY <1>1 DEF Open, Data
<1>2. ASSUME NEW s \in Sessions, Ask(s)
      PROVE  Data'
  BY <1>2 DEF Ask, Goto, Data
<1>3. ASSUME NEW s \in Sessions, AnswerOnCpu(s)
      PROVE  Data'
  BY <1>3 DEF AnswerOnCpu, Finish, Goto, Data
<1>4. ASSUME NEW s \in Sessions, Upload(s)
      PROVE  Data'
  <2>1. WellFormed(scratch[s])
    BY <1>4 DEF Upload, Data, ToGpu, GpuOk
  <2>2. scratch' = [scratch EXCEPT ![s] = [@ EXCEPT !.spheres = query[s]]]
    BY <1>4 DEF Upload
  <2>3. scratch'[s] = [scratch[s] EXCEPT !.spheres = query[s]]
    BY <2>2
  <2>4. WellFormed(scratch'[s]) /\ scratch'[s].spheres = query[s]
    BY <2>1, <2>3 DEF WellFormed
  <2>5. \A r \in Sessions \ {s} : scratch'[r] = scratch[r] /\ pc'[r] = pc[r]
    BY <1>4, <2>2 DEF Upload, Goto
  <2>6. pc'[s] = "encode" /\ UNCHANGED <<query, job, broken>>
    BY <1>4 DEF Upload, Goto
  <2>7. "nearest" \in query[s].wants => Samples["surface"] # 0
    BY <1>4 DEF Upload, ToGpu
  <2> QED
    BY <2>4, <2>5, <2>6, <2>7 DEF Data
<1>5. ASSUME NEW s \in Sessions, Submit(s)
      PROVE  Data'
  <2>1. WellFormed(scratch[s])
    BY <1>5 DEF Submit, Data
  <2>2. scratch'[s] = Recorded(scratch[s], query[s])
    BY <1>5 DEF Submit
  <2>3. /\ WellFormed(scratch'[s]) /\ RecordedFor(scratch'[s], query[s])
        /\ scratch'[s].spheres = scratch[s].spheres
    BY <2>1, <2>2, RecordedIsRecorded
  <2>4. \A r \in Sessions \ {s} : scratch'[r] = scratch[r] /\ pc'[r] = pc[r] /\ job'[r] = job[r]
    BY <1>5 DEF Submit, Goto
  <2>5. /\ pc'[s] = "wait" \/ pc'[s] = "report"
        /\ pc'[s] = "wait" => job'[s] = "queued"
        /\ UNCHANGED <<query, broken>>
    <3>1. CASE job' = [job EXCEPT ![s] = "queued"] /\ Goto(s, "wait")
      BY <1>5, <3>1 DEF Submit, Goto
    <3>2. CASE Goto(s, "report")
      BY <1>5, <3>2 DEF Submit, Goto
    <3> QED
      BY <1>5, <3>1, <3>2 DEF Submit
  <2>6. /\ scratch[s].spheres = query[s]
        /\ "nearest" \in query[s].wants => Samples["surface"] # 0
    BY <1>5 DEF Submit, Data
  <2> QED
    BY <2>3, <2>4, <2>5, <2>6 DEF Data
<1>6. ASSUME NEW s \in Sessions, Report(s)
      PROVE  Data'
  BY <1>6 DEF Report, Goto, Data, Control
<1>7. ASSUME NEW s \in Sessions, GpuRuns(s)
      PROVE  Data'
  <2>1. \A r \in Sessions \ {s} : scratch'[r] = scratch[r] /\ job'[r] = job[r]
    BY <1>7 DEF GpuRuns
  <2>2. job[s] = "queued" /\ job'[s] = "done" /\ UNCHANGED <<pc, query, broken>>
    BY <1>7 DEF GpuRuns
  <2>3. CASE pc[s] = "wait"
    <3> DEFINE q == query[s]
    <3>1. /\ scratch[s].spheres = q /\ WellFormed(scratch[s]) /\ RecordedFor(scratch[s], q)
          /\ "nearest" \in q.wants => Samples["surface"] # 0
      BY <2>2, <2>3 DEF Data
    <3>2. q \in Queries
      BY <2>3 DEF Control
    <3>3. PICK listed \in SetToSeqs(KernelPairs(scratch[s], q)) :
            scratch'[s] = Executed(scratch[s], q, listed)
      BY <1>7, <3>1 DEF GpuRuns
    <3> HIDE DEF q
    <3>4. WellFormed(scratch'[s]) /\ ReadFor(scratch'[s], q) /\ scratch'[s].spheres = q
      BY <3>1, <3>2, <3>3, ExecutedIsRead
    <3> QED
      BY <2>1, <2>2, <2>3, <3>1, <3>4 DEF Data, q
  <2>4. CASE pc[s] # "wait"
    <3>1. pc[s] \notin OnItsWay
      BY <2>2, <2>4 DEF Control
    <3>2. pc[s] \in {"idle", "asked"} => broken[s]
      BY <2>2 DEF Control
    <3> QED
      BY <2>1, <2>2, <3>1, <3>2 DEF Data
  <2> QED
    BY <2>3, <2>4
<1>8. ASSUME NEW s \in Sessions, MapDone(s)
      PROVE  Data'
  BY <1>8 DEF MapDone, Waits, Goto, Data, Control, DeviceFailed
<1>9. ASSUME NEW s \in Sessions, MapFails(s) \/ Fails(s)
      PROVE  Data'
  BY <1>9 DEF MapFails, Fails, RangeFails, Deadline, PollFails, Waits, StopWaiting, Goto, Data
<1>16. ASSUME NEW s \in Sessions, Callback(s)
      PROVE  Data'
  BY <1>16 DEF Callback, Waits, Data, Control, DeviceFailed
<1>10. ASSUME NEW s \in Sessions, GrowPairs(s)
      PROVE  Data'
  <2> DEFINE sc == scratch[s]
             cap == GrownCap(sc.cap, sc.staging.pairs.count)
  <2>1. /\ WellFormed(sc) /\ sc.spheres = query[s] /\ ReadFor(sc, query[s])
        /\ "nearest" \in query[s].wants => Samples["surface"] # 0
    BY <1>10 DEF GrowPairs, Data
  <2>2. scratch' = [scratch EXCEPT ![s] = [@ EXCEPT !.cap = cap, !.pairs = [count |-> 0, data |-> <<>>]]]
    BY <1>10 DEF GrowPairs
  <2>3. scratch'[s] = [sc EXCEPT !.cap = cap, !.pairs = [count |-> 0, data |-> <<>>]]
    BY <2>2
  <2>4. cap \in Nat
    <3>1. sc.staging.pairs.count \in Nat /\ sc.cap \in Nat
      BY <1>10, <2>1 DEF GrowPairs, MustGrow, ReadFor, WellFormed
    <3> QED
      BY <3>1 DEF GrownCap
  <2> HIDE DEF sc, cap
  <2>5. WellFormed(scratch'[s]) /\ scratch'[s].spheres = sc.spheres
    <3>1. scratch'[s] = [spheres |-> sc.spheres, params |-> sc.params, rows |-> sc.rows,
                         pairs |-> [count |-> 0, data |-> <<>>], cap |-> cap,
                         staging |-> sc.staging]
      BY <2>1, <2>3 DEF WellFormed
    <3> QED
      BY <2>1, <2>4, <3>1 DEF WellFormed
  <2>6. \A r \in Sessions \ {s} : scratch'[r] = scratch[r] /\ pc'[r] = pc[r]
    BY <1>10, <2>2 DEF GrowPairs, Goto
  <2>7. pc'[s] = "encode" /\ UNCHANGED <<query, job, broken>>
    BY <1>10 DEF GrowPairs, Goto
  <2> QED
    BY <2>1, <2>5, <2>6, <2>7 DEF Data
<1>11. ASSUME NEW s \in Sessions, Decide(s)
      PROVE  Data'
  BY <1>11 DEF Decide, Finish, Goto, Data
<1>12. ASSUME NEW s \in Sessions, GiveUp(s)
      PROVE  Data'
  BY <1>12 DEF GiveUp, Goto, Data
<1>13. ASSUME NEW s \in Sessions, Break(s)
      PROVE  Data'
  BY <1>13 DEF Break, Finish, Goto, Data
<1>14. ASSUME NEW a \in DOMAIN Adapters, DeviceError(a)
      PROVE  Data'
  BY <1>14 DEF DeviceError, local, Data
<1>15. ASSUME NEW a \in DOMAIN Adapters, DeviceFlag(a)
      PROVE  Data'
  BY <1>15 DEF DeviceFlag, local, Data
<1> QED
  BY <1>0, <1>1, <1>2, <1>3, <1>4, <1>5, <1>6, <1>7, <1>8, <1>9, <1>10, <1>11, <1>12, <1>13, <1>14, <1>15, <1>16 DEF Next, Works

-----------------------------------------------------------------------------
IInv == Types /\ Control /\ Explained /\ Data

\* The inductive invariant holds in every reachable state.
LEMMA Invariant == Spec => []IInv
<1>1. Init => IInv
  BY TypesInit, DataInit DEF IInv
<1>2. IInv /\ [Next]_vars => IInv'
  BY TypesNext, ControlNext, ExplainedNext, DataNext DEF IInv
<1> QED
  BY <1>1, <1>2, PTL DEF Spec

(***************************************************************************)
(* No pass is recorded over a staging buffer that an earlier submission    *)
(* still owns (SessionSearch::readback), for any number of sessions,       *)
(* adapters and queries.                                                   *)
(***************************************************************************)
THEOREM StagingStaysFree == Spec => []StagingIsFree
<1>1. IInv => StagingIsFree
  BY DEF IInv, Control, StagingIsFree
<1> QED
  BY <1>1, Invariant, PTL

(***************************************************************************)
(* A session that has left its GPU has a reason to show (gpu_error).       *)
(***************************************************************************)
THEOREM FallbacksAreExplained == Spec => []FallbackIsExplained
<1>1. IInv => FallbackIsExplained
  BY DEF IInv, Types, Explained, FallbackIsExplained, OnGpu, GpuOk, DeviceFailed, GpuError
<1> QED
  BY <1>1, Invariant, PTL
-----------------------------------------------------------------------------
\* decide_rows: what it decides from the rounded row is the exact minimum.
LEMMA RowIsExact ==
  ASSUME NEW q \in Queries, q.n # 0, NEW set \in SampleSets, NEW i \in 1..Samples[set]
  PROVE  DecideRow(q, set, i, Proposal(Rounded(q, set, i))) = RowMin(q, set, i)
<1> DEFINE f == Rounded(q, set, i)
           g == Gaps(q, set, i)
<1>1. /\ q.n \in Nat \ {0}
      /\ \A j \in 1..q.n : /\ q.dist[set][i][j] \in Int /\ q.radius[j] \in Int
                           /\ q.noise[set][i][j] \in (-Err)..Err
  BY QueriesAssumption DEF IsQuery
<1>2. Err \in Nat
  BY SearchAssumption
<1>3. f \in [1..q.n -> Int] /\ g \in [1..q.n -> Int]
  BY <1>1, <1>2 DEF Rounded, Gaps
<1>4. \A j \in 1..q.n : f[j] - g[j] \in (-Err)..Err
  <2> TAKE j \in 1..q.n
  <2>1. f[j] = g[j] + q.noise[set][i][j]
    BY DEF Rounded, Gaps
  <2>2. g[j] \in Int /\ q.noise[set][i][j] \in (-Err)..Err
    BY <1>1, <1>3
  <2> QED
    BY <2>1, <2>2, <1>2
<1> HIDE DEF f, g
<1>5. Decisive(Proposal(f)) => Proposal(f).idx = FirstMin(g)
  BY <1>1, <1>3, <1>4, DecisiveProposal
<1> QED
  BY <1>1, <1>5 DEF DecideRow, RowMin, f, g

\* The same for the nearest sample of a sphere.
LEMMA NearestIsExact ==
  ASSUME NEW q \in Queries, NEW j \in 1..q.n, Samples["surface"] # 0,
         Decisive(Proposal(RoundedDistances(q, j)))
  PROVE  Proposal(RoundedDistances(q, j)).idx = NearestOne(q, j)
<1> DEFINE f == RoundedDistances(q, j)
           g == Distances(q, j)
           n == Samples["surface"]
<1>1. n \in Nat \ {0} /\ Err \in Nat
  BY SearchAssumption DEF SampleSets
<1>2. \A i \in 1..n : /\ q.dist["surface"][i][j] \in Int
                      /\ q.noise["surface"][i][j] \in (-Err)..Err
  BY QueriesAssumption DEF IsQuery, SampleSets
<1>3. f \in [1..n -> Int] /\ g \in [1..n -> Int]
  BY <1>1, <1>2 DEF RoundedDistances, Distances
<1>4. \A i \in 1..n : f[i] - g[i] \in (-Err)..Err
  <2> TAKE i \in 1..n
  <2>1. f[i] = g[i] + q.noise["surface"][i][j]
    BY DEF RoundedDistances, Distances
  <2>2. g[i] \in Int /\ q.noise["surface"][i][j] \in (-Err)..Err
    BY <1>2, <1>3
  <2> QED
    BY <2>1, <2>2, <1>1
<1> HIDE DEF f, g, n
<1>5. Decisive(Proposal(f)) => Proposal(f).idx = FirstMin(g)
  BY <1>1, <1>3, <1>4, DecisiveProposal
<1> QED
  BY <1>5 DEF NearestOne, f, g, n

\* When the buffers are read the decisions are the CPU's.
LEMMA DecidedIsExact ==
  ASSUME NEW s \in Sessions, IInv, pc[s] = "decide"
  PROVE  LET q == query[s]
             rows == scratch[s].staging.rows
         IN  /\ "inside" \in q.wants =>
                  DecideRows(q, "inside", rows["inside"]) = RowMinima(q, "inside")
             /\ "surface" \in q.wants =>
                  DecideRows(q, "surface", rows["surface"]) = RowMinima(q, "surface")
             /\ "nearest" \in q.wants =>
                  DecideNearest(q, rows["spheres"]) = NearestPerCenter(q)
<1> DEFINE q == query[s]
           rows == scratch[s].staging.rows
<1>1. q \in Queries /\ q.n # 0 /\ ReadFor(scratch[s], q)
  BY DEF IInv, Control, Data
<1>2. "nearest" \in q.wants => Samples["surface"] # 0
  BY DEF IInv, Data, OnItsWay
<1>3. Samples["inside"] \in Nat /\ Samples["surface"] \in Nat
  BY SearchAssumption DEF SampleSets
<1>4. \A p \in Slots : Runs(q, p) => rows[p] = [i \in 1..RowsOf(q, p) |-> ExactRow(q, p, i)]
  BY <1>1 DEF ReadFor
<1> HIDE DEF q, rows
<1>5. ASSUME NEW set \in SampleSets, set \in q.wants
      PROVE  DecideRows(q, set, rows[set]) = RowMinima(q, set)
  <2>1. ASSUME NEW i \in 1..Samples[set]
        PROVE  DecideRow(q, set, i, rows[set][i]) = RowMin(q, set, i)
    <3>1. Runs(q, set)
      <4>1. CASE set = "inside"
        <5>1. Samples["inside"] > 0
          BY <1>3, <2>1, <4>1
        <5> QED
          BY <5>1, <1>5, <4>1 DEF Runs
      <4>2. CASE set = "surface"
        <5>1. Samples["surface"] > 0
          BY <1>3, <2>1, <4>2
        <5> QED
          BY <5>1, <1>5, <4>2 DEF Runs
      <4> QED
        BY <1>5, <4>1, <4>2 DEF SampleSets
    <3>2. rows[set] = [k \in 1..RowsOf(q, set) |-> ExactRow(q, set, k)]
      BY <1>4, <3>1 DEF Slots
    <3>3. set # "spheres"
      BY DEF SampleSets
    <3>4. rows[set][i] = Proposal(Rounded(q, set, i))
      BY <2>1, <3>2, <3>3 DEF RowsOf, ExactRow
    <3> QED
      BY <1>1, <3>4, RowIsExact
  <2> QED
    BY <2>1 DEF DecideRows, RowMinima
<1>6. ASSUME "nearest" \in q.wants
      PROVE  DecideNearest(q, rows["spheres"]) = NearestPerCenter(q)
  <2>1. rows["spheres"] = [k \in 1..q.n |-> Proposal(RoundedDistances(q, k))]
    BY <1>4, <1>6 DEF Slots, Runs, RowsOf, ExactRow
  <2>2. ASSUME NEW j \in 1..q.n
        PROVE  (IF Decisive(rows["spheres"][j]) THEN rows["spheres"][j].idx ELSE NearestOne(q, j))
                 = NearestOne(q, j)
    <3>1. rows["spheres"][j] = Proposal(RoundedDistances(q, j))
      BY <2>1
    <3> QED
      BY <3>1, <1>1, <1>2, <1>6, NearestIsExact
  <2> QED
    BY <2>2 DEF DecideNearest, NearestPerCenter
<1> QED
  BY <1>5, <1>6 DEF q, rows, SampleSets

(***************************************************************************)
(* What a session gets is bit by bit what the CPU computes, for every f32  *)
(* rounding within Err, whatever the GPU, the driver and other sessions    *)
(* do: the row minima and the nearest samples, which SearchPromise asks to *)
(* be equal (its candidate lists are the next theorem's).                  *)
(***************************************************************************)
ExceptPairs(a) == [a EXCEPT !.pairs = <<>>]

AnswersAreExact ==
  [][\A s \in Sessions : query[s] # NoQuery /\ query'[s] = NoQuery =>
       ExceptPairs(answer'[s]) = ExceptPairs(CpuAnswer(query[s]))]_vars

\* SessionSearch::queries answers as the CPU would, the candidate lists aside.
THEOREM EveryAnswerIsExact == Spec => AnswersAreExact
<1>1. ASSUME IInv, [Next]_vars, NEW s \in Sessions, query[s] # NoQuery, query'[s] = NoQuery
      PROVE  ExceptPairs(answer'[s]) = ExceptPairs(CpuAnswer(query[s]))
  <2>1. \/ AnswerOnCpu(s) \/ Break(s) \/ Decide(s)
    <3>1. ASSUME NEW r \in Sessions, r # s, AnswerOnCpu(r) \/ Break(r) \/ Decide(r)
          PROVE  query'[s] = query[s]
      <4>1. query' = [query EXCEPT ![r] = NoQuery]
        BY <3>1 DEF AnswerOnCpu, Break, Decide, Finish
      <4>2. query \in [Sessions -> Queries \cup {NoQuery}]
        BY <1>1 DEF IInv, Types
      <4> QED
        BY <4>1, <4>2, <3>1
    <3>2. ASSUME NEW r \in Sessions, Ask(r)
          PROVE  query'[s] = query[s] \/ query'[s] \in Queries
      BY <3>2 DEF Ask, IInv, Types
    <3>3. ASSUME NEW r \in Sessions, Open(r) \/ Upload(r) \/ Submit(r) \/ Report(r) \/ GpuRuns(r)
                   \/ Callback(r) \/ MapDone(r) \/ MapFails(r) \/ Fails(r)
                   \/ GrowPairs(r) \/ GiveUp(r)
          PROVE  query' = query
      BY <3>3 DEF Open, Upload, Submit, Report, GpuRuns, Callback, MapDone, MapFails,
        Fails, RangeFails, Deadline, PollFails, StopWaiting, GrowPairs, GiveUp
    <3>4. ASSUME NEW a \in DOMAIN Adapters, DeviceError(a) \/ DeviceFlag(a)
          PROVE  query' = query
      BY <3>4 DEF DeviceError, DeviceFlag, local
    <3>5. UNCHANGED vars => query' = query
      BY DEF vars
    <3> QED
      BY <1>1, <3>1, <3>2, <3>3, <3>4, <3>5, QueriesAssumption DEF Next, Works
  <2>2. ASSUME AnswerOnCpu(s) \/ Break(s)
        PROVE  answer'[s] = CpuAnswer(query[s])
    BY <1>1, <2>2 DEF AnswerOnCpu, Break, Finish, IInv, Types
  <2>3. ASSUME Decide(s)
        PROVE  ExceptPairs(answer'[s]) = ExceptPairs(CpuAnswer(query[s]))
    <3>1. pc[s] = "decide" /\ answer'[s] = Decided(query[s], scratch[s].staging)
      BY <1>1, <2>3 DEF Decide, Finish, IInv, Types
    <3> QED
      BY <1>1, <3>1, DecidedIsExact DEF ExceptPairs, Decided, CpuAnswer, Answer
  <2> QED
    BY <2>1, <2>2, <2>3
<1>2. IInv /\ [Next]_vars =>
        [\A s \in Sessions : query[s] # NoQuery /\ query'[s] = NoQuery =>
           ExceptPairs(answer'[s]) = ExceptPairs(CpuAnswer(query[s]))]_vars
  BY <1>1
<1> QED
  BY <1>2, Invariant, PTL DEF Spec, AnswersAreExact

(***************************************************************************)
(* The pairs that are read back hold every surface sample inside a sphere  *)
(* and none farther outside than the tolerance and the rounding: the pair  *)
(* buffer is never read short, however often it had to grow.               *)
(***************************************************************************)
PairsAreComplete ==
  \A s \in Sessions : pc[s] = "decide" /\ ~MustGrow(s) /\ WantPairs(query[s]) =>
    LET q == query[s]
        read == scratch[s].staging.pairs.data
        pairs == {read[k] : k \in DOMAIN read}
    IN  /\ \A j \in 1..q.n : \A i \in Engulfed(q, j) : <<i, j>> \in pairs
        /\ \A p \in pairs : q.dist["surface"][p[1]][p[2]] - q.radius[p[2]] < Tol + Err

\* A session that decides has read every pair.
LEMMA IInvReadsPairs == IInv => PairsAreComplete
<1>1. ASSUME IInv, NEW s \in Sessions, pc[s] = "decide", ~MustGrow(s), WantPairs(query[s])
      PROVE  LET q == query[s]
                 read == scratch[s].staging.pairs.data
                 pairs == {read[k] : k \in DOMAIN read}
             IN  /\ \A j \in 1..q.n : \A i \in Engulfed(q, j) : <<i, j>> \in pairs
                 /\ \A p \in pairs : q.dist["surface"][p[1]][p[2]] - q.radius[p[2]] < Tol + Err
  <2> DEFINE q == query[s]
             read == scratch[s].staging.pairs.data
             pairs == {read[k] : k \in DOMAIN read}
  <2>1. q \in Queries
    BY <1>1 DEF IInv, Control
  <2>2. pairs = AllPairs(q)
    <3>1. ReadFor(scratch[s], q) /\ WellFormed(scratch[s])
      BY <1>1 DEF IInv, Data, OnItsWay
    <3>2. scratch[s].staging.pairs.count <= scratch[s].cap
      BY <1>1, <3>1 DEF MustGrow, ReadFor, WellFormed
    <3> QED
      BY <1>1, <3>1, <3>2 DEF ReadFor, Lists
  <2> HIDE DEF q, pairs
  <2>3. \A i \in 1..Samples["surface"], j \in 1..q.n :
          /\ q.dist["surface"][i][j] \in Int /\ q.radius[j] \in Int
          /\ q.noise["surface"][i][j] \in (-Err)..Err
    BY <2>1, QueriesAssumption DEF IsQuery, SampleSets
  <2>4. Err \in Nat /\ Tol \in Nat /\ Tol >= Err + Err
    BY SearchAssumption
  <2>5. ASSUME NEW j \in 1..q.n, NEW i \in Engulfed(q, j)
        PROVE  <<i, j>> \in pairs
    <3>1. i \in 1..Samples["surface"] /\ -(q.dist["surface"][i][j] - q.radius[j]) > 0
      BY <2>5 DEF Engulfed
    <3>2. q.radius[j] - (q.dist["surface"][i][j] + q.noise["surface"][i][j]) > -Tol
      BY <2>3, <2>4, <3>1
    <3>3. <<i, j>> \in Listed(q, "surface", i)
      BY <3>2 DEF Listed
    <3> QED
      BY <2>2, <3>1, <3>3 DEF AllPairs
  <2>6. ASSUME NEW p \in pairs
        PROVE  q.dist["surface"][p[1]][p[2]] - q.radius[p[2]] < Tol + Err
    <3>1. PICK i \in 1..Samples["surface"] : p \in Listed(q, "surface", i)
      BY <2>2, <2>6 DEF AllPairs
    <3>2. PICK j \in 1..q.n : /\ p = <<i, j>>
                             /\ q.radius[j] - (q.dist["surface"][i][j] + q.noise["surface"][i][j]) > -Tol
      BY <3>1 DEF Listed
    <3>3. q.dist["surface"][i][j] - q.radius[j] < Tol + Err
      BY <2>3, <2>4, <3>2
    <3> QED
      BY <3>2, <3>3
  <2> QED
    BY <2>5, <2>6 DEF q, pairs
<1> QED
  BY <1>1 DEF PairsAreComplete

\* SessionSearch::run_rows reads every pair before it decides.
THEOREM PairsAreAlwaysComplete == Spec => []PairsAreComplete
BY IInvReadsPairs, Invariant, PTL
-----------------------------------------------------------------------------
\* A listing of a set of numbers, the smallest first.
Orders(f, S) ==
  /\ f \in [1..Cardinality(S) -> S]
  /\ \A i, j \in DOMAIN f : i < j => f[i] < f[j]

\* Some numbers can be listed in ascending order: by the least bound for
\* which they cannot.
LEMMA NumbersHaveOrder ==
  ASSUME NEW N \in Nat, NEW S \in SUBSET (1..N)
  PROVE  \E f : Orders(f, S)
<1> DEFINE Bad == {n \in Nat : \E T \in SUBSET (1..n) : ~\E f : Orders(f, T)}
<1> SUFFICES ASSUME Bad # {} PROVE FALSE
  OBVIOUS
<1>1. PICK n \in Bad : \A l \in Bad : n <= l
  <2>1. Bad \in SUBSET Nat
    OBVIOUS
  <2> HIDE DEF Bad
  <2> QED
    BY <2>1, LeastOfNaturals
<1>2. n \in Nat /\ \A l \in Nat : l < n => l \notin Bad
  <2>1. n \in Nat
    OBVIOUS
  <2> HIDE DEF Bad
  <2> QED
    BY <1>1, <2>1
<1>3. PICK T \in SUBSET (1..n) : ~\E f : Orders(f, T)
  OBVIOUS
<1>4. n # 0
  <2> SUFFICES ASSUME n = 0 PROVE FALSE
    OBVIOUS
  <2>1. T = {}
    OBVIOUS
  <2>2. Cardinality(T) = 0
    BY <2>1, FS_EmptySet
  <2>3. Orders(<<>>, T)
    BY <2>1, <2>2 DEF Orders
  <2> QED
    BY <1>3, <2>3
<1>5. n - 1 \in Nat /\ n - 1 \notin Bad
  <2> HIDE DEF Bad
  <2> QED
    BY <1>2, <1>4
<1>6. T \ {n} \in SUBSET (1..(n - 1))
  BY <1>2
<1>7. PICK f : Orders(f, T \ {n})
  BY <1>5, <1>6
<1>8. n \in T
  <2> SUFFICES ASSUME n \notin T PROVE FALSE
    OBVIOUS
  <2>1. T \ {n} = T
    OBVIOUS
  <2> QED
    BY <1>3, <1>7, <2>1
<1> HIDE DEF Bad
<1>9. /\ Cardinality(T \ {n}) \in Nat
      /\ Cardinality(T) = Cardinality(T \ {n}) + 1
  <2>1. IsFiniteSet(T)
    <3>1. IsFiniteSet(1..n)
      BY <1>2, FS_Interval
    <3> QED
      BY <3>1, FS_Subset
  <2>2. IsFiniteSet(T \ {n}) /\ Cardinality(T \ {n}) = Cardinality(T) - 1
    BY <1>8, <2>1, FS_RemoveElement
  <2> QED
    BY <2>1, <2>2, FS_CardinalityType
<1> DEFINE c == Cardinality(T \ {n})
           g == [i \in 1..(c + 1) |-> IF i = c + 1 THEN n ELSE f[i]]
<1>10. /\ c \in Nat /\ f \in [1..c -> T \ {n}]
       /\ \A i, j \in 1..c : i < j => f[i] < f[j]
       /\ \A i \in 1..c : f[i] < n
  <2>1. c \in Nat /\ f \in [1..c -> T \ {n}]
    BY <1>7, <1>9 DEF Orders
  <2>2. DOMAIN f = 1..c
    BY <2>1
  <2>3. \A i, j \in 1..c : i < j => f[i] < f[j]
    BY <1>7, <2>2 DEF Orders
  <2>4. \A t \in T \ {n} : t < n
    BY <1>2
  <2> HIDE DEF c
  <2> QED
    BY <2>1, <2>3, <2>4
<1> HIDE DEF c
<1>11. g \in [1..(c + 1) -> T]
  BY <1>8, <1>10
<1>12. \A i, j \in 1..(c + 1) : i < j => g[i] < g[j]
  BY <1>10
<1>13. DOMAIN g = 1..(c + 1)
  OBVIOUS
<1>14. Cardinality(T) = c + 1
  BY <1>9 DEF c
<1> HIDE DEF g
<1>15. Orders(g, T)
  BY <1>11, <1>12, <1>13, <1>14 DEF Orders
<1> QED
  BY <1>3, <1>15

\* The candidates of the CPU are what a sphere engulfs, in order.
LEMMA AscendingIsOrder ==
  ASSUME NEW N \in Nat, NEW S \in SUBSET (1..N)
  PROVE  /\ Orders(Ascending(S), S)
         /\ IsFiniteSet(S) /\ Cardinality(S) \in Nat
         /\ {Ascending(S)[k] : k \in 1..Cardinality(S)} = S
<1> DEFINE c == Cardinality(S)
           f == Ascending(S)
<1>1. IsFiniteSet(S) /\ c \in Nat
  <2>1. IsFiniteSet(1..N)
    BY FS_Interval
  <2> QED
    BY <2>1, FS_Subset, FS_CardinalityType
<1>2. Orders(f, S)
  <2>1. PICK g : Orders(g, S)
    BY NumbersHaveOrder
  <2> QED
    BY <2>1 DEF Ascending, Orders
<1>3. f \in [1..c -> S] /\ \A i, j \in 1..c : i < j => f[i] < f[j]
  BY <1>2 DEF Orders
<1> HIDE DEF c, f
<1>4. \A i, j \in 1..c : i # j => f[i] # f[j]
  <2> SUFFICES ASSUME NEW i \in 1..c, NEW j \in 1..c, i # j
               PROVE  f[i] # f[j]
    OBVIOUS
  <2>0. f[i] \in S /\ f[j] \in S /\ \A x \in S : x \in Int
    BY <1>3
  <2>1. f[i] \in Int /\ f[j] \in Int
    BY <2>0
  <2>2. i < j \/ j < i
    BY <1>1
  <2> QED
    BY <2>1, <2>2, <1>3
<1>5. f \in Injection(1..c, S)
  BY <1>3, <1>4 DEF Injection, IsInjective
<1>6. Cardinality(1..c) = Cardinality(S)
  BY <1>1, FS_Interval DEF c
<1>7. f \in Surjection(1..c, S)
  BY <1>1, <1>5, <1>6, FS_Injection
<1>8. {f[k] : k \in 1..c} = S
  BY <1>7, <1>3 DEF Surjection
<1> QED
  BY <1>1, <1>2, <1>8 DEF c, f

\* The samples of a sphere, and their list in ascending order, without repeats.
SamplesOf(N, pairs, j) == {i \in 1..N : <<i, j>> \in pairs}

IsRowOf(row, c, S) ==
  /\ row \in [1..c -> Nat]
  /\ \A a, b \in 1..c : a < b => row[a] < row[b]
  /\ {row[k] : k \in 1..c} = S

(***************************************************************************)
(* A list of pairs, in any order and each once, becomes for each sphere    *)
(* its samples in ascending order.                                         *)
(***************************************************************************)
LEMMA CsrOfAList ==
  ASSUME NEW N \in Nat, NEW n \in Nat, NEW pairs \in SUBSET ((1..N) \X (1..n)),
         NEW flat, Lists(flat, pairs), NEW j \in 1..n
  PROVE  \E c \in Nat : IsRowOf(ToCsr(n, flat)[j], c, SamplesOf(N, pairs, j))
<1> DEFINE own == {k \in DOMAIN flat : flat[k][2] = j}
           S == {i \in 1..N : <<i, j>> \in pairs}
           c == Cardinality(own)
           f == Sorted(flat, own)
           row == [m \in 1..c |-> flat[f[m]][1]]
<1>1. ToCsr(n, flat)[j] = row
  BY DEF ToCsr
<1>2. IsFiniteSet(own) /\ c \in Nat
  <2>1. PICK m \in Nat : DOMAIN flat = 1..m
    BY DEF Lists
  <2>2. IsFiniteSet(1..m)
    BY FS_Interval
  <2>3. own \in SUBSET (1..m)
    BY <2>1
  <2> HIDE DEF own
  <2> QED
    BY <2>2, <2>3, FS_Subset, FS_CardinalityType
<1>3. \A k \in own : flat[k] = <<flat[k][1], j>> /\ flat[k] \in pairs /\ flat[k][1] \in S
  <2>1. \A k \in DOMAIN flat : flat[k] \in pairs
    BY DEF Lists
  <2>2. \A p \in pairs : p = <<p[1], p[2]>> /\ p[1] \in 1..N
    OBVIOUS
  <2> QED
    BY <2>1, <2>2
<1>4. \A k, l \in own : k # l => flat[k][1] # flat[l][1]
  <2> SUFFICES ASSUME NEW k \in own, NEW l \in own, k # l, flat[k][1] = flat[l][1]
               PROVE  FALSE
    OBVIOUS
  <2>1. flat[k] = flat[l]
    BY <1>3
  <2>2. k \in DOMAIN flat /\ l \in DOMAIN flat
    OBVIOUS
  <2> QED
    BY <2>1, <2>2 DEF Lists
<1>5. \A i \in S : \E k \in own : flat[k][1] = i
  <2> SUFFICES ASSUME NEW i \in S
               PROVE  \E k \in own : flat[k][1] = i
    OBVIOUS
  <2>1. PICK k \in DOMAIN flat : flat[k] = <<i, j>>
    BY DEF Lists
  <2>2. flat[k][1] = i /\ flat[k][2] = j
    BY <2>1
  <2> QED
    BY <2>2
<1>6. Cardinality(S) = c
  <2> DEFINE h == [k \in own |-> flat[k][1]]
  <2>1. h \in Bijection(own, S)
    <3>1. h \in [own -> S]
      BY <1>3
    <3>2. \A k, l \in own : h[k] = h[l] => k = l
      BY <1>4
    <3>3. \A i \in S : \E k \in own : h[k] = i
      BY <1>5
    <3> HIDE DEF h, own, S
    <3> QED
      BY <3>1, <3>2, <3>3 DEF Bijection, Injection, Surjection, IsInjective
  <2> HIDE DEF h, own, S
  <2>2. ExistsBijection(own, S)
    BY <2>1 DEF ExistsBijection
  <2> QED
    BY <2>2, <1>2, FS_Bijection
<1>7. PICK g : Orders(g, S)
  BY NumbersHaveOrder
<1>8. g \in [1..c -> S] /\ \A a, b \in 1..c : a < b => g[a] < g[b]
  BY <1>6, <1>7 DEF Orders
<1>9. \A i \in S : i \in Nat
  OBVIOUS
<1> HIDE DEF own, S, c
<1>10. \E e \in [1..c -> own] :
         \A a, b \in DOMAIN e : a < b => e[a] # e[b] /\ flat[e[a]][1] <= flat[e[b]][1]
  <2> DEFINE e == [m \in 1..c |-> CHOOSE k \in own : flat[k][1] = g[m]]
  <2>1. \A m \in 1..c : e[m] \in own /\ flat[e[m]][1] = g[m]
    BY <1>5, <1>8
  <2>2. e \in [1..c -> own] /\ DOMAIN e = 1..c
    BY <2>1
  <2> HIDE DEF e
  <2>3. ASSUME NEW a \in 1..c, NEW b \in 1..c, a < b
        PROVE  e[a] # e[b] /\ flat[e[a]][1] <= flat[e[b]][1]
    <3>1. g[a] < g[b] /\ g[a] \in Nat /\ g[b] \in Nat
      BY <1>8, <1>9, <2>3
    <3> DEFINE x == g[a]  y == g[b]
    <3>2. x <= y /\ x # y
      BY <3>1
    <3> HIDE DEF x, y
    <3> QED
      BY <3>2, <2>1 DEF x, y
  <2> QED
    BY <2>2, <2>3
<1>11. /\ f \in [1..c -> own]
       /\ \A a, b \in 1..c : a < b => f[a] # f[b] /\ flat[f[a]][1] <= flat[f[b]][1]
  BY <1>10 DEF Sorted, c
<1> HIDE DEF f
<1>12. \A a \in 1..c : row[a] = flat[f[a]][1] /\ row[a] \in S /\ row[a] \in Nat
  BY <1>3, <1>9, <1>11
<1>13. row \in [1..c -> Nat]
  BY <1>12
<1>14. ASSUME NEW a \in 1..c, NEW b \in 1..c, a < b
       PROVE  row[a] < row[b]
  <2>1. row[a] <= row[b] /\ row[a] # row[b]
    BY <1>4, <1>11, <1>12, <1>14
  <2> DEFINE x == row[a]  y == row[b]
  <2>2. x \in Nat /\ y \in Nat /\ x <= y /\ x # y
    BY <1>12, <2>1
  <2> HIDE DEF x, y
  <2>3. x < y
    BY <2>2
  <2> QED
    BY <2>3 DEF x, y
<1>15. {row[k] : k \in 1..c} = S
  <2>1. \A a, b \in 1..c : a # b => f[a] # f[b]
    <3> SUFFICES ASSUME NEW a \in 1..c, NEW b \in 1..c, a # b
                 PROVE  f[a] # f[b]
      OBVIOUS
    <3>1. a < b \/ b < a
      BY <1>2
    <3> QED
      BY <3>1, <1>11
  <2>2. f \in Injection(1..c, own)
    BY <1>11, <2>1 DEF Injection, IsInjective
  <2>3. Cardinality(1..c) = Cardinality(own)
    BY <1>2, FS_Interval DEF c
  <2>4. f \in Surjection(1..c, own)
    BY <1>2, <2>2, <2>3, FS_Injection
  <2>5. \A k \in own : \E m \in 1..c : f[m] = k
    BY <2>4 DEF Surjection
  <2>6. ASSUME NEW i \in S
        PROVE  \E m \in 1..c : row[m] = i
    <3>1. PICK k \in own : flat[k][1] = i
      BY <1>5
    <3>2. PICK m \in 1..c : f[m] = k
      BY <2>5
    <3> QED
      BY <1>12, <3>1, <3>2
  <2> HIDE DEF row
  <2> QED
    BY <1>12, <2>6
<1> HIDE DEF row
<1>16. /\ c \in Nat /\ row \in [1..c -> Nat]
       /\ \A a, b \in 1..c : a < b => row[a] < row[b]
       /\ {row[k] : k \in 1..c} = {i \in 1..N : <<i, j>> \in pairs}
  BY <1>2, <1>13, <1>14, <1>15 DEF S
<1>17. IsRowOf(row, c, SamplesOf(N, pairs, j))
  BY <1>16 DEF IsRowOf, SamplesOf
<1> HIDE DEF c
<1> QED
  BY <1>1, <1>16, <1>17

-----------------------------------------------------------------------------
\* The promise is in terms of the same CPU search.
LEMMA PromiseIsOfTheCpu ==
  /\ \A q : ExceptPairs(Promise!CpuAnswer(q)) = ExceptPairs(CpuAnswer(q))
  /\ \A q, j : Promise!Engulfed(q, j) = Engulfed(q, j)
<1>1. \A q, j : Promise!Engulfed(q, j) = Engulfed(q, j)
  BY DEF Engulfed, Promise!Engulfed
<1>2. \A f : Promise!FirstMin(f) = FirstMin(f)
  BY DEF FirstMin, Promise!FirstMin
<1>3. \A q, set, i, j : Promise!Row(q, set, i, j) = Row(q, set, i, j)
  BY DEF Row, Promise!Row
<1>4. \A q, set, i : Promise!Gaps(q, set, i) = Gaps(q, set, i)
  BY DEF Gaps, Promise!Gaps
<1>5. \A q, j : Promise!Distances(q, j) = Distances(q, j)
  BY DEF Distances, Promise!Distances
<1>6. \A q, set, i : Promise!RowMin(q, set, i) = RowMin(q, set, i)
  BY <1>2, <1>3, <1>4 DEF RowMin, Promise!RowMin, NoRow, Promise!NoRow
<1>7. \A q, set : Promise!RowMinima(q, set) = RowMinima(q, set)
  BY <1>6 DEF RowMinima, Promise!RowMinima
<1>8. \A q : Promise!NearestPerCenter(q) = NearestPerCenter(q)
  BY <1>2, <1>5 DEF NearestPerCenter, Promise!NearestPerCenter, NearestOne, Promise!NearestOne
<1>9. \A q, a, b, c, d : Promise!Answer(q, a, b, c, d) = Answer(q, a, b, c, d)
  BY DEF Answer, Promise!Answer
<1>10. \A q : ExceptPairs(Promise!CpuAnswer(q)) = ExceptPairs(CpuAnswer(q))
  BY <1>7, <1>8, <1>9 DEF CpuAnswer, Promise!CpuAnswer, ExceptPairs, Answer
<1> QED
  BY <1>1, <1>10

\* An ascending list of samples that holds every engulfed one, none out of reach.
LEMMA ListIsCandidates ==
  ASSUME NEW q, NEW j, NEW list, NEW c \in Nat, list \in [1..c -> Nat],
         \A a, b \in 1..c : a < b => list[a] < list[b],
         Engulfed(q, j) \subseteq {list[k] : k \in 1..c},
         \A k \in 1..c : q.dist["surface"][list[k]][j] - q.radius[j] < Tol + Err
  PROVE  Promise!Candidates(q, j, list)
<1>1. list \in Seq(Nat) /\ Len(list) = c /\ DOMAIN list = 1..c
  OBVIOUS
<1>2. \A k \in 1..(Len(list) - 1) : list[k] < list[k + 1]
  <2> SUFFICES ASSUME NEW k \in 1..(Len(list) - 1)
               PROVE  list[k] < list[k + 1]
    OBVIOUS
  <2>1. k \in 1..c /\ k + 1 \in 1..c /\ k < k + 1
    BY <1>1
  <2> QED
    BY <2>1
<1> QED
  BY <1>1, <1>2, PromiseIsOfTheCpu DEF Promise!Candidates

\* The CPU keeps the promise, of course,
LEMMA CpuIsPromised ==
  ASSUME NEW q \in Queries
  PROVE  Promise!Exact(q, CpuAnswer(q))
<1> DEFINE N == Samples["surface"]
<1>1. q.n \in Nat /\ N \in Nat /\ Tol \in Nat /\ Err \in Nat
  BY QueriesAssumption, SearchAssumption DEF IsQuery, SampleSets
<1>2. CpuAnswer(q).pairs = IF "pairs" \in q.wants THEN CpuBoundaryPairs(q) ELSE <<>>
  BY DEF CpuAnswer, Answer
<1>3. ASSUME NEW j \in 1..q.n
      PROVE  Promise!Candidates(q, j, Ascending(Engulfed(q, j)))
  <2> DEFINE S == Engulfed(q, j)
             c == Cardinality(S)
             f == Ascending(S)
  <2>1. S \in SUBSET (1..N)
    BY DEF Engulfed
  <2>2. Orders(f, S) /\ c \in Nat /\ {f[k] : k \in 1..c} = S
    BY <1>1, <2>1, AscendingIsOrder
  <2>3. \A i \in S : i \in Nat /\ q.dist["surface"][i][j] - q.radius[j] < Tol + Err
    <3> SUFFICES ASSUME NEW i \in S
                 PROVE  i \in Nat /\ q.dist["surface"][i][j] - q.radius[j] < Tol + Err
      OBVIOUS
    <3>1. i \in 1..N /\ -(q.dist["surface"][i][j] - q.radius[j]) > 0
      BY DEF Engulfed
    <3>2. q.dist["surface"][i][j] \in Int /\ q.radius[j] \in Int
      BY <3>1, QueriesAssumption DEF IsQuery, SampleSets
    <3> QED
      BY <1>1, <3>1, <3>2
  <2>4. f \in [1..c -> S] /\ \A a, b \in 1..c : a < b => f[a] < f[b]
    BY <2>2 DEF Orders
  <2> HIDE DEF S, f, c
  <2>5. f \in [1..c -> Nat] /\ \A k \in 1..c : f[k] \in S
    BY <2>3, <2>4
  <2> QED
    BY <2>2, <2>3, <2>4, <2>5, ListIsCandidates DEF S, f
<1>4. DOMAIN CpuBoundaryPairs(q) = 1..q.n
  BY DEF CpuBoundaryPairs
<1>5. \A j \in 1..q.n : CpuBoundaryPairs(q)[j] = Ascending(Engulfed(q, j))
  BY DEF CpuBoundaryPairs
<1> QED
  BY <1>2, <1>3, <1>4, <1>5, PromiseIsOfTheCpu DEF Promise!Exact, ExceptPairs

\* and so does what was decided from the buffers of the GPU.
LEMMA DecidedIsPromised ==
  ASSUME NEW s \in Sessions, IInv, pc[s] = "decide", ~MustGrow(s)
  PROVE  Promise!Exact(query[s], Decided(query[s], scratch[s].staging))
<1> DEFINE q == query[s]
           read == scratch[s].staging
           a == Decided(q, read)
           N == Samples["surface"]
           flat == IF WantPairs(q) THEN read.pairs.data ELSE <<>>
<1>1. q \in Queries /\ q.n \in Nat /\ N \in Nat
  BY QueriesAssumption, SearchAssumption DEF IsQuery, SampleSets, IInv, Control
<1>2. [a EXCEPT !.pairs = <<>>] = [CpuAnswer(q) EXCEPT !.pairs = <<>>]
  BY DecidedIsExact DEF Decided, CpuAnswer, Answer
<1>3. a.pairs = IF "pairs" \in q.wants THEN ToCsr(q.n, flat) ELSE <<>>
  BY DEF Decided, Answer
<1>4. ASSUME "pairs" \in q.wants, NEW j \in 1..q.n
      PROVE  Promise!Candidates(q, j, ToCsr(q.n, flat)[j])
  <2> DEFINE pairs == {flat[k] : k \in DOMAIN flat}
  <2>1. /\ pairs \in SUBSET ((1..N) \X (1..q.n)) /\ Lists(flat, pairs)
        /\ \A i \in Engulfed(q, j) : <<i, j>> \in pairs
        /\ \A p \in pairs : q.dist["surface"][p[1]][p[2]] - q.radius[p[2]] < Tol + Err
    <3>1. CASE WantPairs(q)
      <4>1. ReadFor(scratch[s], q) /\ WellFormed(scratch[s])
        BY <1>1 DEF IInv, Data, OnItsWay
      <4>2. scratch[s].staging.pairs.count <= scratch[s].cap
        BY <3>1, <4>1 DEF MustGrow, ReadFor, WellFormed
      <4>3. Lists(flat, AllPairs(q)) /\ pairs = AllPairs(q)
        BY <3>1, <4>1, <4>2 DEF ReadFor, Lists
      <4>4. PairsAreComplete
        BY IInvReadsPairs
      <4>5. AllPairs(q) \in SUBSET ((1..N) \X (1..q.n))
        BY DEF AllPairs, Listed
      <4> QED
        BY <3>1, <4>3, <4>4, <4>5, ZenonT(60) DEF PairsAreComplete
    <3>2. CASE ~WantPairs(q)
      <4>1. N = 0 /\ flat = <<>>
        BY <1>1, <1>4, <3>2 DEF WantPairs
      <4>2. Engulfed(q, j) = {} /\ pairs = {} /\ DOMAIN flat = 1..0
        BY <4>1 DEF Engulfed
      <4> QED
        BY <4>2 DEF Lists
    <3> QED
      BY <3>1, <3>2
  <2> HIDE DEF pairs, flat
  <2> DEFINE row == ToCsr(q.n, flat)[j]
  <2>5. PICK c \in Nat : IsRowOf(row, c, SamplesOf(N, pairs, j))
    BY <1>1, <2>1, CsrOfAList
  <2>2. /\ row \in [1..c -> Nat]
        /\ \A k, l \in 1..c : k < l => row[k] < row[l]
        /\ {row[k] : k \in 1..c} = {i \in 1..N : <<i, j>> \in pairs}
    BY <2>5 DEF IsRowOf, SamplesOf
  <2> HIDE DEF row
  <2>3. Engulfed(q, j) \subseteq {row[k] : k \in 1..c}
    BY <2>1, <2>2 DEF Engulfed
  <2>4. ASSUME NEW k \in 1..c
        PROVE  q.dist["surface"][row[k]][j] - q.radius[j] < Tol + Err
    <3>1. <<row[k], j>> \in pairs
      BY <2>2
    <3> QED
      BY <2>1, <3>1
  <2> QED
    BY <2>2, <2>3, <2>4, ListIsCandidates DEF row
<1>5. DOMAIN ToCsr(q.n, flat) = 1..q.n
  BY DEF ToCsr
<1> HIDE DEF a, flat, q
<1>6. Promise!Exact(q, a)
  BY <1>2, <1>3, <1>4, <1>5, PromiseIsOfTheCpu DEF Promise!Exact, ExceptPairs
<1> QED
  BY <1>6 DEF a, q

\* The end of a query as the promise has it.
LEMMA FinishIsReply ==
  ASSUME NEW s \in Sessions, NEW a, IInv, query[s] # NoQuery, Finish(s, a),
         Promise!Exact(query[s], a)
  PROVE  Promise!Reply(s)
<1>1. DOMAIN answer = Sessions /\ DOMAIN query = Sessions
  BY DEF IInv, Types
<1>2. answer' = [answer EXCEPT ![s] = a] /\ query' = [query EXCEPT ![s] = NoQuery]
  BY DEF Finish
<1>3. answer'[s] = a /\ DOMAIN answer' = Sessions /\ \A t \in Sessions \ {s} : answer'[t] = answer[t]
  BY <1>1, <1>2
<1> QED
  BY <1>2, <1>3 DEF Promise!Reply

(***************************************************************************)
(* Search keeps the promise its callers rely on: the queries of every      *)
(* session are answered as by the CPU, the candidate lists of the boundary *)
(* loss included, which are ascending, without repeats, complete, and no   *)
(* sample of them is farther outside than the tolerance and the rounding.  *)
(***************************************************************************)
THEOREM SearchKeepsItsPromise == Spec => ImplementsCpuSearch
<1>1. Init => Promise!Init
  BY DEF Init, Promise!Init
<1>2. ASSUME IInv, [Next]_vars
      PROVE  [Promise!Next]_<<query, answer>>
  <2>1. ASSUME NEW s \in Sessions, Ask(s)
        PROVE  Promise!Ask(s)
    BY <1>2, <2>1 DEF Ask, Promise!Ask, IInv, Control
  <2>2. ASSUME NEW s \in Sessions, AnswerOnCpu(s) \/ Break(s)
        PROVE  Promise!Reply(s)
    <3>1. query[s] \in Queries /\ query[s] # NoQuery
      BY <1>2, <2>2, QueriesAssumption DEF AnswerOnCpu, Break, IInv, Control
    <3>2. Finish(s, CpuAnswer(query[s]))
      BY <2>2 DEF AnswerOnCpu, Break
    <3> QED
      BY <1>2, <3>1, <3>2, CpuIsPromised, FinishIsReply
  <2>3. ASSUME NEW s \in Sessions, Decide(s)
        PROVE  Promise!Reply(s)
    <3>1. pc[s] = "decide" /\ ~MustGrow(s) /\ Finish(s, Decided(query[s], scratch[s].staging))
      BY <2>3 DEF Decide
    <3>2. query[s] # NoQuery
      BY <1>2, <3>1, QueriesAssumption DEF IInv, Control
    <3> QED
      BY <1>2, <3>1, <3>2, DecidedIsPromised, FinishIsReply
  <2>4. ASSUME NEW s \in Sessions,
               \/ Open(s) \/ Upload(s) \/ Submit(s) \/ Report(s) \/ GpuRuns(s)
               \/ Callback(s) \/ MapDone(s) \/ MapFails(s) \/ Fails(s)
               \/ GrowPairs(s) \/ GiveUp(s)
        PROVE  UNCHANGED <<query, answer>>
    BY <2>4 DEF Open, Upload, Submit, Report, GpuRuns, Callback, MapDone, MapFails,
        Fails, RangeFails, Deadline, PollFails, StopWaiting, GrowPairs, GiveUp
  <2>5. ASSUME NEW a \in DOMAIN Adapters, DeviceError(a) \/ DeviceFlag(a)
        PROVE  UNCHANGED <<query, answer>>
    BY <2>5 DEF DeviceError, DeviceFlag, local
  <2>6. UNCHANGED vars => UNCHANGED <<query, answer>>
    BY DEF vars
  <2> QED
    BY <1>2, <2>1, <2>2, <2>3, <2>4, <2>5, <2>6 DEF Next, Works, Promise!Next
<1> QED
  BY <1>1, <1>2, Invariant, PTL DEF Spec, ImplementsCpuSearch, Promise!Spec
=============================================================================
