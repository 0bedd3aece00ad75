----------------------------- MODULE GpuSearch -----------------------------
(***************************************************************************)
(* The searches of several sessions on shared GPUs                         *)
(* (crates/morphit/src/search/).  A session uploads a query, records and   *)
(* submits its passes, waits for the staging buffer and decides; the GPU   *)
(* runs a submission at any later time, or never.  The device's error      *)
(* handler, a failed poll or mapping and the deadline send a query to the  *)
(* CPU, and the session or all sessions of the device stay there.          *)
(*                                                                         *)
(* Queries of one session come one after another (Session::step is         *)
(* exclusive); sessions only share the contexts, one per adapter.          *)
(***************************************************************************)
EXTENDS SearchRules

CONSTANTS
  Sessions,
  Raw,            \* the adapters as wgpu enumerates them
  Requests,       \* what sessions ask for: [device, index]
  AllowSoftware,  \* MORPHIT_GPU_ALLOW_SOFTWARE
  Queries,        \* the queries sessions make
  NoQuery,
  InitialPairs,   \* capacity of a new pair buffer
  MaxQueries      \* bound: queries of all sessions together

VARIABLES
  context,  \* per adapter: the shared GpuContext
  backend,  \* per session: Unopened, Refused, OnCpu or an adapter
  broken,   \* per session: SessionSearch::broken
  error,    \* per session: whether SessionSearch::error holds a message
  scratch,  \* per session: what the buffers hold
  job,      \* per session: its submission and the mapping it waits for
  pc,       \* per session: where its query is
  query,    \* per session: the query asked, or NoQuery
  answer,   \* per session: the last answer
  made      \* queries asked so far

\* What a session asks has as many numbers as spheres and samples, rounded within Err.
IsQuery(q) ==
  /\ q.n \in Nat
  /\ \A set \in SampleSets : \A i \in 1..Samples[set], j \in 1..q.n :
       /\ q.dist[set][i][j] \in Int /\ q.radius[j] \in Int
       /\ q.noise[set][i][j] \in (-Err)..Err

ASSUME QueriesAssumption ==
  /\ NoQuery \notin Queries /\ \A q \in Queries : IsQuery(q)
  /\ InitialPairs \in Nat

vars == <<context, backend, broken, error, scratch, job, pc, query, answer, made>>
local == <<backend, broken, error, scratch, job, pc, query, answer, made>>

Adapters == RankAdapters(Raw)
Unopened == -2

\* A buffer per pass, the pair buffer and what the last mapping would read.
Slots == SampleSets \cup {"spheres"}
NewScratch ==
  [spheres |-> NoQuery,
   params  |-> [p \in Slots |-> [samples |-> 0, pairs |-> FALSE, cap |-> 0]],
   rows    |-> [p \in Slots |-> <<>>],
   pairs   |-> [count |-> 0, data |-> <<>>],
   cap     |-> InitialPairs,
   staging |-> <<>>]

Init ==
  /\ context = [a \in DOMAIN Adapters |->
                  [open |-> FALSE, failed |-> FALSE, error |-> FALSE]]
  /\ backend = [s \in Sessions |-> Unopened]
  /\ broken = [s \in Sessions |-> FALSE]
  /\ error = [s \in Sessions |-> FALSE]
  /\ scratch = [s \in Sessions |-> NewScratch]
  /\ job = [s \in Sessions |-> "none"]
  /\ pc = [s \in Sessions |-> "idle"]
  /\ query = [s \in Sessions |-> NoQuery]
  /\ answer = [s \in Sessions |-> <<>>]
  /\ made = 0
-----------------------------------------------------------------------------
Goto(s, label) == pc' = [pc EXCEPT ![s] = label]

OnGpu(s) == backend[s] \in DOMAIN Adapters

DeviceFailed(s) == context[backend[s]].failed

\* SessionSearch::gpu_ok.
GpuOk(s) == ~broken[s] /\ ~DeviceFailed(s)

\* Search::gpu_error, whether there is one to report.
GpuError(s) == OnGpu(s) /\ (error[s] \/ context[backend[s]].error)

(***************************************************************************)
(* Search::new: select an adapter and share its context, which the first   *)
(* session on it creates under the lock of the map.                        *)
(***************************************************************************)
\* A bug for the checks to find: the session keeps an adapter it cannot open.
OpenUnchecked(s) ==
  /\ backend[s] = Unopened
  /\ \E request \in Requests, work \in BOOLEAN :
       backend' = [backend EXCEPT ![s] =
                     Select(Adapters, request, work, AllowSoftware)]
  /\ UNCHANGED <<context, broken, error, scratch, job, pc, query, answer, made>>
Open(s) ==
  /\ backend[s] = Unopened
  /\ \E request \in Requests, work \in BOOLEAN, opens \in BOOLEAN :
       LET a == Select(Adapters, request, work, AllowSoftware)
           created == a \in DOMAIN Adapters /\ ~context[a].open
       IN  /\ backend' = [backend EXCEPT ![s] =
                            IF created /\ ~opens THEN Refused ELSE a]
           /\ context' = IF created /\ opens
                         THEN [context EXCEPT ![a].open = TRUE]
                         ELSE context
  /\ UNCHANGED <<broken, error, scratch, job, pc, query, answer, made>>

Ask(s) ==
  /\ backend[s] \notin {Unopened, Refused}
  /\ pc[s] = "idle"
  /\ made < MaxQueries
  /\ made' = made + 1
  /\ \E q \in Queries : query' = [query EXCEPT ![s] = q]
  /\ Goto(s, "asked")
  /\ UNCHANGED <<context, backend, broken, error, scratch, job, answer>>

Finish(s, a) ==
  /\ answer' = [answer EXCEPT ![s] = a]
  /\ query' = [query EXCEPT ![s] = NoQuery]
  /\ Goto(s, "idle")

(***************************************************************************)
(* Nothing to search or to search among, a grid too large, a broken        *)
(* session, a failed device or a number that is not finite: the CPU        *)
(* answers.                                                                *)
(***************************************************************************)
ToGpu(s) ==
  /\ OnGpu(s)
  /\ query[s].n # 0
  /\ "nearest" \in query[s].wants => Samples["surface"] # 0
  /\ query[s].fits
  /\ GpuOk(s)
  /\ query[s].finite

AnswerOnCpu(s) ==
  /\ pc[s] = "asked"
  /\ ~ToGpu(s)
  /\ Finish(s, CpuAnswer(query[s]))
  /\ UNCHANGED <<context, backend, broken, error, scratch, job, made>>

\* ensure_spheres: the spheres are written once for all attempts.
Upload(s) ==
  /\ pc[s] = "asked"
  /\ ToGpu(s)
  /\ scratch' = [scratch EXCEPT ![s].spheres = query[s]]
  /\ Goto(s, "encode")
  /\ UNCHANGED <<context, backend, broken, error, job, query, answer, made>>

(***************************************************************************)
(* encode_rows and encode_nearest with the submission.  Writes to buffers  *)
(* are carried out before any recorded pass runs: every pass has its own   *)
(* parameters.  The device may refuse the submission; its error handler    *)
(* then runs inside the call.                                              *)
(***************************************************************************)
Runs(q, pass) ==
  CASE pass = "inside"  -> "inside" \in q.wants /\ Samples["inside"] > 0
    [] pass = "surface" -> /\ {"surface", "pairs"} \cap q.wants # {}
                           /\ Samples["surface"] > 0
    [] pass = "spheres" -> "nearest" \in q.wants

WantPairs(q) == "pairs" \in q.wants /\ Samples["surface"] > 0

Params(sc, q, pass) ==
  [samples |-> IF pass = "inside" THEN Samples["inside"] ELSE Samples["surface"],
   pairs   |-> pass = "surface" /\ WantPairs(q),
   cap     |-> IF pass = "spheres" THEN 0 ELSE sc.cap]

\* A bug for the checks to find: the count of the last pairs is kept.
RecordedOverOldPairs(sc, q) ==
  [sc EXCEPT !.params = [p \in Slots |->
     IF Runs(q, p) THEN Params(sc, q, p) ELSE sc.params[p]]]
Recorded(sc, q) ==
  [sc EXCEPT
     !.params = [p \in Slots |->
                   IF Runs(q, p) THEN Params(sc, q, p) ELSE sc.params[p]],
     !.pairs.count = IF WantPairs(q) THEN 0 ELSE @]

Submit(s) ==
  /\ pc[s] = "encode"
  /\ scratch' = [scratch EXCEPT ![s] = Recorded(@, query[s])]
  /\ \/ job' = [job EXCEPT ![s] = "queued"] /\ Goto(s, "wait") /\ UNCHANGED context
     \/ /\ job' = [job EXCEPT ![s] = "refused"]
        /\ context' = [context EXCEPT ![backend[s]].error = TRUE]
        /\ Goto(s, "report")
  /\ UNCHANGED <<backend, broken, error, query, answer, made>>

Report(s) ==
  /\ pc[s] = "report"
  /\ context' = [context EXCEPT ![backend[s]].failed = TRUE]
  /\ Goto(s, "wait")
  /\ UNCHANGED <<backend, broken, error, scratch, job, query, answer, made>>

(***************************************************************************)
(* The GPU runs a submission: row_min over the inside and the surface      *)
(* samples, or nearest_sample, then the copies into the staging buffer.    *)
(* Pairs are appended in any order; those beyond the capacity are counted  *)
(* but not stored.                                                         *)
(***************************************************************************)
KernelRows(sc, q, pass) ==
  LET computed(i) == Proposal(IF pass = "spheres" THEN RoundedDistances(q, i)
                                                  ELSE Rounded(q, pass, i))
      rows == IF pass = "spheres" THEN q.n ELSE Samples[pass]
      reach == IF pass = "spheres" THEN q.n ELSE sc.params[pass].samples
  IN  [i \in 1..rows |-> IF i <= reach THEN computed(i) ELSE sc.rows[pass][i]]

KernelPairs(sc, q) ==
  UNION { UNION {Listed(q, set, i) : i \in 1..Samples[set]} :
          set \in {p \in SampleSets : Runs(q, p) /\ sc.params[p].pairs} }

Stored(sc, listed) ==
  LET all == sc.pairs.count + Len(listed)
      cap == sc.params["surface"].cap
      At(k) == IF k <= sc.pairs.count THEN sc.pairs.data[k]
                                      ELSE listed[k - sc.pairs.count]
  IN  [count |-> all,
       data  |-> [k \in 1..(IF all > cap THEN cap ELSE all) |-> At(k)]]

Executed(sc, q, listed) ==
  LET rows  == [p \in Slots |-> IF Runs(q, p) THEN KernelRows(sc, q, p)
                                              ELSE sc.rows[p]]
      pairs == Stored(sc, listed)
  IN  [sc EXCEPT !.rows = rows, !.pairs = pairs,
                 !.staging = [rows |-> rows, pairs |-> pairs]]

GpuRuns(s) ==
  /\ job[s] = "queued"
  /\ LET q == scratch[s].spheres IN
     \E listed \in SetToSeqs(KernelPairs(scratch[s], q)) :
       scratch' = [scratch EXCEPT ![s] = Executed(@, q, listed)]
  /\ job' = [job EXCEPT ![s] = "done"]
  /\ UNCHANGED <<context, backend, broken, error, pc, query, answer, made>>

(***************************************************************************)
(* readback.  The poll blocks, without a timeout, until the submission is  *)
(* through; the callback of the mapping runs in a poll of this session or  *)
(* of another one on the device (on the web, in the browser's event loop). *)
(* The deadline of 30 s is looked at only between two polls, so a GPU that *)
(* never finishes holds the query up for good.  A refused submission maps  *)
(* whatever the buffer held; the flag is looked at once the data are       *)
(* copied.                                                                 *)
(***************************************************************************)
Waits(s, states) == pc[s] = "wait" /\ job[s] \in states

Callback(s) ==
  /\ Waits(s, {"done", "refused"})
  /\ \E result \in {"mapped", "unmapped"} : job' = [job EXCEPT ![s] = result]
  /\ UNCHANGED <<context, backend, broken, error, scratch, pc, query, answer, made>>

MapDone(s) ==
  /\ Waits(s, {"mapped"})
  /\ job' = [job EXCEPT ![s] = "none"]
  /\ Goto(s, IF DeviceFailed(s) THEN "giveup" ELSE "decide")
  /\ UNCHANGED <<context, backend, broken, error, scratch, query, answer, made>>

StopWaiting(s) ==
  /\ Goto(s, "giveup")
  /\ UNCHANGED <<context, backend, broken, error, scratch, job, query, answer, made>>

\* The mapping failed, or its callback was dropped.
MapFails(s) == Waits(s, {"unmapped"}) /\ StopWaiting(s)

\* get_mapped_range fails, and leaves the buffer mapped.
RangeFails(s) == Waits(s, {"mapped"}) /\ StopWaiting(s)

\* Another session's poll took the callback and has not run it in 30 s.
Deadline(s) == Waits(s, {"done", "refused"}) /\ StopWaiting(s)

\* The device's answer to a poll, if it gives one.
PollFails(s) == Waits(s, {"queued", "done", "refused"}) /\ StopWaiting(s)

(***************************************************************************)
(* The rest of run_rows and of the query: repeat with a larger pair buffer *)
(* or decide.                                                              *)
(***************************************************************************)
MustGrow(s) ==
  WantPairs(query[s]) /\ scratch[s].staging.pairs.count > scratch[s].cap

\* A bug for the checks to find: the buffer is made again at its old size.
GrownCapUnchanged(cap, count) == cap
GrownCap(cap, count) ==
  LET more == count + count \div 2 IN IF more > cap * 2 THEN more ELSE cap * 2

GrowPairs(s) ==
  /\ pc[s] = "decide"
  /\ MustGrow(s)
  /\ scratch' = [scratch EXCEPT
                   ![s].cap = GrownCap(@, scratch[s].staging.pairs.count),
                   ![s].pairs = [count |-> 0, data |-> <<>>]]
  /\ Goto(s, "encode")
  /\ UNCHANGED <<context, backend, broken, error, job, query, answer, made>>

Decided(q, read) ==
  Answer(q, DecideRows(q, "inside", read.rows["inside"]),
            DecideRows(q, "surface", read.rows["surface"]),
            ToCsr(q.n, IF WantPairs(q) THEN read.pairs.data ELSE <<>>),
            DecideNearest(q, read.rows["spheres"]))

Decide(s) ==
  /\ pc[s] = "decide"
  /\ ~MustGrow(s)
  /\ Finish(s, Decided(query[s], scratch[s].staging))
  /\ UNCHANGED <<context, backend, broken, error, scratch, job, made>>

\* give_up: the message, then the flag; then the CPU answers.
GiveUp(s) ==
  /\ pc[s] = "giveup"
  /\ error' = [error EXCEPT ![s] = TRUE]
  /\ Goto(s, "break")
  /\ UNCHANGED <<context, backend, broken, scratch, job, query, answer, made>>

\* A bug for the checks to find: a failed query leaves the session on the GPU.
BreakForThisQuery(s) ==
  /\ pc[s] = "break"
  /\ Finish(s, CpuAnswer(query[s]))
  /\ UNCHANGED <<context, backend, broken, error, scratch, job, made>>
Break(s) ==
  /\ pc[s] = "break"
  /\ broken' = [broken EXCEPT ![s] = TRUE]
  /\ Finish(s, CpuAnswer(query[s]))
  /\ UNCHANGED <<context, backend, error, scratch, job, made>>

(***************************************************************************)
(* on_uncaptured_error for an error no session of ours caused: the message *)
(* of the first error, then the flag.                                      *)
(***************************************************************************)
\* A bug for the checks to find: the flag is raised before the message.
DeviceErrorFlagFirst(a) ==
  /\ context[a].open /\ ~context[a].failed
  /\ context' = [context EXCEPT ![a].failed = TRUE]
  /\ UNCHANGED local
DeviceError(a) ==
  /\ context[a].open /\ ~context[a].error
  /\ context' = [context EXCEPT ![a].error = TRUE]
  /\ UNCHANGED local

DeviceFlag(a) ==
  /\ context[a].error /\ ~context[a].failed
  /\ context' = [context EXCEPT ![a].failed = TRUE]
  /\ UNCHANGED local

\* What a session does without the host or the GPU.
Works(s) ==
  \/ AnswerOnCpu(s) \/ Upload(s) \/ Submit(s) \/ Report(s) \/ Callback(s)
  \/ MapDone(s) \/ MapFails(s) \/ GrowPairs(s) \/ Decide(s) \/ GiveUp(s)
  \/ Break(s)

\* What nobody can count on.
Fails(s) == RangeFails(s) \/ Deadline(s) \/ PollFails(s)

Next ==
  \/ \E s \in Sessions : Open(s) \/ Ask(s) \/ Works(s) \/ Fails(s) \/ GpuRuns(s)
  \/ \E a \in DOMAIN Adapters : DeviceError(a) \/ DeviceFlag(a)

Spec == Init /\ [][Next]_vars

\* A callback whose submission is through runs: in the poll that saw it end.
FairSpec == Spec /\ \A s \in Sessions : WF_vars(Works(s))
-----------------------------------------------------------------------------
(* Properties. *)

Jobs == {"none", "queued", "done", "refused", "mapped", "unmapped"}
Places == {"idle", "asked", "encode", "report", "wait", "decide", "giveup", "break"}

\* Every variable has its type; a query is in flight exactly away from idle.
TypeOK ==
  /\ context \in [DOMAIN Adapters ->
                   [open : BOOLEAN, failed : BOOLEAN, error : BOOLEAN]]
  /\ backend \in [Sessions -> {Unopened, Refused, OnCpu} \cup DOMAIN Adapters]
  /\ broken \in [Sessions -> BOOLEAN]
  /\ error \in [Sessions -> BOOLEAN]
  /\ job \in [Sessions -> Jobs]
  /\ pc \in [Sessions -> Places]
  /\ made \in 0..MaxQueries
  /\ \A s \in Sessions :
       /\ pc[s] = "idle" <=> query[s] = NoQuery
       /\ pc[s] \notin {"idle", "asked"} => OnGpu(s)
       /\ OnGpu(s) => context[backend[s]].open

(***************************************************************************)
(* Whatever the GPU, its driver and the other sessions do, a session's     *)
(* queries are answered as the CPU answers them ("Every backend returns    *)
(* bit-identical results", search/mod.rs).                                 *)
(***************************************************************************)
Promise == INSTANCE SearchPromise WITH asked <- query

ImplementsCpuSearch == Promise!Spec

(***************************************************************************)
(* A pass is recorded only when no earlier submission still owns the       *)
(* staging buffer: neither one that is running nor one that was given up   *)
(* and is still to be mapped (SessionSearch::readback).                    *)
(***************************************************************************)
StagingIsFree == \A s \in Sessions : pc[s] = "encode" => job[s] = "none"

(***************************************************************************)
(* Whenever a session has left its GPU, gpu_error has a reason to show:    *)
(* the message is stored before the flag that others see, in give_up and   *)
(* in the device's error handler.                                          *)
(***************************************************************************)
FallbackIsExplained ==
  \A s \in Sessions : OnGpu(s) /\ ~GpuOk(s) => GpuError(s)

(***************************************************************************)
(* Every query is answered, whatever fails and however small the pair      *)
(* buffer was, unless its poll waits for a submission the GPU never        *)
(* finishes (session.rs:509).                                              *)
(***************************************************************************)
QueriesAreAnswered ==
  \A s \in Sessions :
    pc[s] = "asked" ~> (pc[s] = "idle" \/ [](pc[s] = "wait" /\ job[s] = "queued"))
=============================================================================
