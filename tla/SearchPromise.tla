--------------------------- MODULE SearchPromise ---------------------------
(***************************************************************************)
(* What every search backend promises the loss and the density control     *)
(* (search/mod.rs): a query is answered as the CPU would, bit by bit,      *)
(* except that the candidate lists of the boundary loss may hold samples   *)
(* the sphere comes close to.                                              *)
(***************************************************************************)
EXTENDS SearchRules

CONSTANTS Sessions, Queries, NoQuery

VARIABLES
  asked,    \* the query each session waits for, or NoQuery
  answer    \* the last answer each session got

\* Every sample the sphere engulfs, none farther away than the band.
Candidates(q, j, list) ==
  /\ \A k \in 1..Len(list)-1 : list[k] < list[k+1]
  /\ Engulfed(q, j) \subseteq {list[k] : k \in DOMAIN list}
  /\ \A k \in DOMAIN list :
       q.dist["surface"][list[k]][j] - q.radius[j] < Tol + Err

Exact(q, a) ==
  /\ [a EXCEPT !.pairs = <<>>] = [CpuAnswer(q) EXCEPT !.pairs = <<>>]
  /\ "pairs" \in q.wants =>
       DOMAIN a.pairs = 1..q.n /\ \A j \in 1..q.n : Candidates(q, j, a.pairs[j])
  /\ "pairs" \notin q.wants => a.pairs = <<>>

Init == asked = [s \in Sessions |-> NoQuery] /\ answer \in [Sessions -> {<<>>}]

Ask(s) ==
  /\ asked[s] = NoQuery
  /\ \E q \in Queries : asked' = [asked EXCEPT ![s] = q]
  /\ UNCHANGED answer

Reply(s) ==
  /\ asked[s] # NoQuery
  /\ asked' = [asked EXCEPT ![s] = NoQuery]
  /\ \A t \in Sessions \ {s} : answer'[t] = answer[t]
  /\ DOMAIN answer' = Sessions
  /\ Exact(asked[s], answer'[s])

Next == \E s \in Sessions : Ask(s) \/ Reply(s)

Spec == Init /\ [][Next]_<<asked, answer>>
=============================================================================
