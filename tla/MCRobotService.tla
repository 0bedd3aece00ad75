--------------------------- MODULE MCRobotService ---------------------------
(***************************************************************************)
(* RobotService for TLC.  All requests of all clients at once are too      *)
(* many: a behaviour makes the requests of one plan, in any interleaving.  *)
(***************************************************************************)
EXTENDS RobotService, Sequences

CONSTANTS ready, fresh   \* session ids

VARIABLE plan

Ready == {ready}
Both == {ready, fresh}

\* Bound: the requests of a behaviour, and whether a websocket follows them.
Plans ==
  [kinds : {<<"pack", "pack", "assemble">>, <<"pack", "load", "analyze">>, <<"load", "pack">>,
            <<"load", "view">>, <<"stats", "load", "stats">>}, follow : {FALSE}]
    \cup [kinds : {<<"pack", "view">>}, follow : {TRUE}]

PlanInit == Init /\ plan \in Plans

KeepsPlan(r) == req[r].pc = "new" /\ req'[r].pc # "new" =>
  /\ r <= Len(plan.kinds) /\ req'[r].kind = plan.kinds[r]
  /\ "assemble" \notin {plan.kinds[i] : i \in 1..Len(plan.kinds)} => req'[r].link = AnyLink

\* Frames nobody follows are left out.
PlanNext ==
  /\ Next
  /\ \A r \in Requests : KeepsPlan(r)
  /\ ~plan.follow => /\ \A k \in Sockets : sock'[k].pc = "none"
                     /\ \A s \in Sessions : sess'[s].live = 0
  /\ plan' = plan

PlanSpec ==
  /\ PlanInit
  /\ [][PlanNext]_<<vars, plan>>
  /\ Fairness
=============================================================================
