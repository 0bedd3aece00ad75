# A TLA+ model of MorphIt

MorphIt approximates a triangle mesh by a fixed number of spheres. An optimizer moves
the spheres iteration by iteration, re-packs them now and then, and prunes them at the
end. Around it are a GPU search, a C API, language bindings, a web service, a robot
pipeline and an interactive studio. This directory models the parts that have state,
order, concurrency or a discrete algorithm, checks them with TLC on small instances,
and proves the main properties with TLAPS for every instance.

Paths below are relative to `src/` in the repository.

## 1. The system

| Component | State it keeps | Operations | What makes it correct |
|---|---|---|---|
| Packing session (`crates/morphit/src/trainer.rs`, `density.rs`, `optim.rs`, `state.rs`) | spheres, optimizer moments, iteration, state, density controller, last step | `new`, `from_parts`, `step`, `run`, `finalize`, `pack` | moments belong to the sphere in their slot; no sphere lost or duplicated; density control culls what it must and never falls silent; one prune that changes no metric |
| Losses and quality (`crates/morphit/src/loss/`, `quality.rs`, `convergence.rs`) | the history of losses and gradients | `evaluate`, `Tracker`, `evaluate_packing` | hand-derived gradients are derivatives, at ties too |
| GPU search (`crates/morphit/src/search/`) | sticky failure flags per session and device, buffers, staging | row minima, nearest samples, boundary pairs, fallback to the CPU | the CPU's results whatever fails; every query is answered |
| Mesh preparation (`crates/morphit/src/mesh_prep.rs`, `mesh.rs`) | a cache per options | `prepare_mesh`, `prepared_with` | the prepared mesh is sound or the raw one |
| Configuration (`crates/morphit/src/config.rs`, `device.rs`, the service's and the command's forms) | a configuration | preset, JSON, `set`, `update`, `validate` | a session runs what was accepted |
| C API session (`crates/morphit-capi/src/lib.rs`, `handles.rs`, `ffi.rs`) | session behind a mutex, published snapshot, cancel and running flags | `morphit_run`, `_step`, `_finalize`, `_cancel`, `_session_free`, readers | one run at a time; readers see whole iterations; prompt cancels; no lock across callbacks; panics freeze the session |
| Python session (`crates/morphit-py/src/session.rs`) | as the C API, and the interpreter's lock | `run`, `step`, iteration, `finalize`, `cancel` | claims exclusive and given up on every way out; no deadlock on the interpreter's lock |
| WebAssembly session (`crates/morphit-wasm/src/session.rs`) | the session, taken out while a promise runs; snapshot | `step`, `stepMany`, `finalize`, `stepSync` | the session always comes back |
| .NET session (`bindings/dotnet/MorphIt/`) | reference count of the handle, error text per thread | `Run`, `RunAsync`, `Step`, `Finalize`, `Cancel`, `Dispose`, readers | two-call reads are of one snapshot; outcomes are true |
| Robot pipeline (`crates/morphit-robot/src/`, the packages of the bindings) | files, report, recorded spheres | add, inspect, pack, assemble, poses | no collision geometry is lost; memory means what the disk means; spheres sit where they were packed |
| Web service (`crates/morphit-server/src/sessions.rs`, `robot.rs`) | session map with last access times, directories, live frames | load, pack-link, assemble, analyze, stats, view, sweep, websocket | map and directories agree; streams end with their session |
| Studio (`apps/morphit-studio/src/`) | documents, results, the job, background tasks, the scene and its dirty flags | open, pack, steer, assemble, analyze, clear, draw | results reach their document once; the screen is current; jobs stop promptly |
| Mesh readers and writers, web front end, assets | none | parsers, printers, static files | unit tests |

Interactions. Every binding owns a packing session and calls `step` and `finalize`;
the C API and Python share it between threads through a mutex, a snapshot and flags;
.NET calls the C API. The studio's job owns one session after another and shares only
a status and three flags with the frames; the robot pipeline and the web service run
one session per collision mesh. A progress callback runs on the thread of the run,
between two iterations. Sessions on one graphics adapter share its device and
therefore its loss.

Hard behaviours. Calls of several threads on one session; a look at a flag followed by
an act on it; a cancel at any moment of a run; panics in the middle of an iteration; a
status whose version follows it; loads, jobs and analyses that finish between two
frames; sessions that expire under a long request and workers that outlive it; disks
that fail half-way and clients that stop reading; a GPU
that fails or never answers; reports and results that outlive the file they describe.
`PROJECT.json` lists each at the line where it bites, with the properties that cover
it.

## 2. The modules

```
DensityControl <- Session <- PackSession <- LineSession <- MCPackSession
                     |                        |  \.. PackSessionProofs
                     |        LineLosses, Listing <- LineSession
                     +---- CApiSession <- MCCApiSession
                     |             \.. CApiSessionProofs
                     +---- PySession <- MCBindings -> WasmSession, DotnetSession
                     |                     \.. BindingsProofs
                     +---- WasmSession
SessionProofs: lemmas about Session, used by the three proof modules above
SessionProgress: the abstract session; PackSession, CApiSession and PySession
                 implement it, DotnetSession assumes it of the C API
SearchRules <- SearchPromise, GpuSearch <- MCGpuSearch
                                   \.. GpuSearchProofs
StudioJob, RobotTable <- Studio <- MCStudio <- MCStudioDesk -> StudioDesk
            RobotTable <- StudioDesk               \.. StudioProofs
PackagePaths <- RobotPackage <- MCLibrary -> Configuration, MeshPrep
              RobotScene <- MCLibrary
                                   \.. LibraryProofs
RobotService <- MCRobotService
           \.. RobotServiceProofs
```

`<-` is EXTENDS, `->` INSTANCE, `\..` a module of proofs.

**DensityControl** is the arithmetic of a density-control pass (`density.rs`): when
one fires, how many spheres it culls (`CullCount`, with both caps and the integer
temperature product), the ranking that puts bad spheres behind all others, the
reseeding of the freed slots and the cooling. Spheres are identities: the k-th sphere
ever placed is the number k. Which spheres are bad, how they rank and whether losses
reached a plateau is left open: every verdict is explored. Temperatures count 1/10000.

**Session** is one session as a record, with `StepResults` and `FinalizeResults` as
the sets of sessions a call may leave (trainer.rs `step_async`, `finalize`).
`moments[i]` names the sphere that slot i's Adam moments were accumulated for, 0 for
none. It follows the order of the code: train, test convergence, density control
(marked and counted even when it changes nothing; the optimizer is reset only when it
changed something), then count, complete and report. `finalize` keeps spheres whose
center is inside (the first one if none is), drops contained ones when asked to, keeps
their order, and is idempotent. **PackSession** lets a caller call `step` and
`finalize` in any order.

**LineLosses** and **LineSession** compute what Session leaves open, with exact
geometry on a line: the mesh is a segment, spheres are intervals with whole ends.
Badness, ranking, reseeding, snapping, containment, pruning, the convergence test and
the union metrics are translated rule by rule; a session with geometry is one Session
describes. **Listing** is the stable sort by key they share. Eight of the eleven
losses have their values and their hand-derived gradients; what the gradients do to
the spheres is left open, so an iteration moves a sphere by one of a few moves, one
sphere at a time.

**SessionProgress** is what an observer is promised: iterations come one at a time,
the number of spheres is constant until one final prune that keeps at least one sphere
and accounts for the rest.

**CApiSession** has one action per atomic access of a thread to the mutex, the
snapshot, the running flag or the cancel flag. `pc` is the place in the call, `op` the
call. A panic may strike while the mutex is held; it poisons the mutex and a run still
clears its flag while unwinding. Readers are not actions: what they can see is
`snapshot` in some state. The host keeps the contract of `morphit_session_free` (no
call starts once it frees; other calls are not in flight, a run may be: it is then
refused as BUSY or over).

**PySession** adds the interpreter's lock. What a thread does between taking and
releasing it is one step; an iteration runs without it and needs it back for callbacks
and signals. Every mutating call claims the session, exceptions may end a call
anywhere, panics poison the mutex.

**WasmSession** has one thread and promises. A promise takes the session out when it
is first polled, not when it is asked for; between its turns the page calls whatever
it likes.

**DotnetSession** has threads that run, run with a token, step, finalize, cancel, read
and dispose one session. Each call into C takes a reference of the SafeHandle; readers
ask for a size and then for the data; the error message is the calling thread's.

**SearchRules** has the CPU's search, the rules that turn what a kernel proposes in
f32 into a decision in f64, and the choice of an adapter. f32 is the exact value plus
a bounded rounding that belongs to the query. **SearchPromise** is the abstract
specification: a query is answered as the CPU answers it. **GpuSearch** is the code:
shared contexts, uploads, passes and their staging buffer, submissions the GPU runs at
any later time or never, lost devices and their error handler, the pair buffer that is
regrown, and the fallback. A query waits in a poll without a timeout (session.rs:509)
until its submission is through; its callback then runs or is dropped. What nobody can
count on are actions of their own: a poll or a mapped range that fails, and the
deadline, which is only looked at when a callback that another poll took has not run
yet. It implements SearchPromise.

**StudioJob** is the job's thread, one step per access to what it shares; a status and
its version are two steps. **Studio** adds the frames' polls and one click a frame,
interleaved with the job. **StudioDesk** is what the frames keep around a job:
documents, results, background tasks that deliver to slots, the assembled URDF,
scores, and the scene that is redrawn where dirty flags say so; there the job is known
by what it delivers. **RobotTable** is the order of a robot's collision meshes in
both. `Relaxed` loads and stores of flags are taken as atomic and in program order; a
flag seen later only delays what the job does.

**Configuration** has one parameter of each type and of each validation rule, and the
ways a configuration reaches a session: presets, JSON documents, `set`, `update`, the
service's form with its allow-list, the command line. **MeshPrep** is `prepare_mesh`
step by step: merging vertices, bodies, orientation by flooding, hulls, the union and
each fallback; the boolean kernel and the inside test are external and give any answer.
So is the hull, of which only its bounds matter to what follows: a tetrahedron in the
corners of its box stands for it. **PackagePaths** resolves mesh references on a disk and in a memory
package; **RobotPackage** inspects, records spheres and assembles; **RobotScene**
computes poses and sphere links with quarter turns, so that rotations are exact.

**RobotService** is robot mode of the web service: the handler of a request, its
blocking worker, the map, the directories, the sweep that every request may do,
websockets and shutdown, one step per access to shared state. Every access to the disk
may fail: a directory is not made or only in part, a removal leaves any part of a
directory (the code ignores it), a write ends after it truncated the file. A file that
is removed while a worker has it open loses its name (`fd`). A websocket sends a frame
inside its branch of the loop, in two steps: between them only the client acts, which
takes the frame, leaves, or does neither. `strays` is history: the directories that
nothing in the service would delete any more, because a creation or a removal failed
half-way or because a session was swept while a request made something in it.

The MC modules give the constants that are sets or sequences, and choose topics:
`MCBindings` one binding a behaviour, `MCStudioDesk` jobs or the desk, `MCLibrary` one
of the sequential parts. Bounds that differ between topics are constants of those
modules. Definitions named for a mistake, each under a comment "A bug for the checks
to find", are variants of a definition: they are used nowhere in the specifications,
and replacing the definition by its variant must make the property named in
`PROJECT.json` fail.

## 3. What TLC checks

| Run | Instance | Properties |
|---|---|---|
| `pack_session` | two kinds of behaviour. Free geometry: 1, 2 or 3 spheres for a target of 3, five iterations, interval 1, patience 2, cooling 50 %, convergence tested every second iteration. On the line: a segment of length 10, three samples, one, two or three spheres (twins, nested chains, tiny, escaped, overlapping), four iterations | `MomentsMatchSpheres`, `PassNeverOverdue`, `PassesCullEveryBadSphere`, `ImplementsProgress`, `ImplementsSession`, `PruningChangesNoMetric`, `GradientsAreDerivatives` |
| `capi_session` | two threads, two calls each, two spheres, three iterations, panics | `OneRun`, `SnapshotIsCurrent`, `CancelStopsRun`, `NoUseAfterRelease`, `PoisonFreezesSnapshot`, `ImplementsProgress`, `CallsReturn` |
| `capi_run_ok` | as above, two iterations, no panics | violated: `RunOkRanEverything` |
| `capi_cancel` | a run and cancels | violated: `RunConsumesCancels` |
| `bindings` | one binding a behaviour: two Python threads with three calls, two iterations, callbacks, exceptions and panics; a page with two promises; two .NET threads with two calls, one iteration, a token and a Dispose | `ClaimIsExclusive`, `NoLockAcrossGil`, `SessionComesBack`, `ReadsAreWhole`, `OutcomesAreTrue`, `ImplementsProgress`, `EveryCallReturns` |
| `gpu_search` | two sessions, three adapters of which one shows up twice, two queries in all of four kinds (near ties turned around by the rounding, a single sphere, nearest samples, not finite), a pair buffer for one pair | `StagingIsFree`, `FallbackIsExplained`, `ImplementsCpuSearch`, `QueriesAreAnswered` |
| `service` | two robot sessions, two links, up to three requests of one of five plans, or a pack and a view followed by a websocket; two frames, a clock of one tick; saving, creating and removing may fail, clients may stop reading | `DiskMatchesStore`, `AssembleIsComplete`, `LiveFramesAreNew`, `SocketsKeepUp` |
| `library` | one topic a behaviour: a robot package held from C or from Python (eight uploads, three documents, references with `..`, `.` and empty parts); meshes of one or two bodies, badly wound, open, flat or one-sided, under eight answers of the external operations; configurations; pack requests and commands; robots of three links in six joint graphs and five turns | `NoCollisionIsLost`, `MemoryAgreesWithDisk`, `SessionsRunWhatWasAsked`, `PreparedMeshIsSound`, `SpheresSitWhereTheyWerePacked` |
| `studio_jobs` | one topic a behaviour. `jobs`: two jobs over two collision meshes, two documents a mode, one iteration an item, failures, cancels. `look` and `work`: the desk with one collision mesh, two loads, two packs; the user looks at meshes, or packs, assembles, analyzes and clears | `DocumentStaysUnderJob`, `PicksUpEachPackOnce`, `ScreenIsCurrent`, `OffersAreCurrent` |
| `studio_steer` | one job over the object or two collision meshes, two iterations an item, early convergence, pauses | `StopsPromptly`, `CancelEndsJob` |
| `studio_end` | two jobs over one collision mesh, failures | violated: `EndIsShown` |
| `studio_finish` | one job, one collision mesh | violated: `FinishIsKept` |

What the less obvious ones say. `PassNeverOverdue`: density control never falls silent
for more than twice its interval. `PruningChangesNoMetric`: dropping nested spheres
leaves every metric of the union as it was. `GradientsAreDerivatives`: the gradient of
each term of a loss (one sample, two spheres, or one of each) lies between the term's
one-sided derivatives, measured on a lattice four times finer, also where spheres
coincide or touch, or a sample is equally near to two; and gradients and derivatives of
the terms add up to those of the loss. At ties no derivative is asked for of `sqem`,
which jumps there, and of the Hausdorff loss, whose worst sample may have several slopes.
`ImplementsSession`: the verdicts the geometry gives are among those `Session`
explores. `ReadsAreWhole`: a .NET array read during a run is of one snapshot although
it takes two calls. `EveryCallReturns`: nobody waits for ever on the session's mutex
and the interpreter's lock, and promises settle. `StagingIsFree`: no pass is recorded
over a staging buffer that is still owned by a submission that was given up.
`QueriesAreAnswered`: every query is answered, or waits for a submission the GPU never
finishes.
`NoCollisionIsLost`: a mesh leaves the URDF only where its spheres enter it, on the
same link. `MemoryAgreesWithDisk`: an in-memory package finds the same file as a
directory would. `DiskMatchesStore`: a session in the map has its directory, the package
it reported, and a whole sphere file for every `pack-link` that answered ok; another
`pack-link` of that link may take that away, for a while when it writes and for good
when its write fails, and two that write at once may spoil the file. No directory stays
behind but the strays, and no later session meets one. `SocketsKeepUp`: a websocket
sends what there is or closes, and closes once its session is gone, unless its client
never takes the frame being sent. `ScreenIsCurrent`: what is drawn is the current document and result unless a
dirty flag promises a redraw.

### Bounds, and why they are enough

Five iterations with interval 1 allow the forced pass (more than twice the interval
after the last one) and passes on the temperature's way from 40 % down to its floor;
three spheres for a target of three give passes that cull one or two, and a population
of 1 the pass that may cull none. `from_parts` is the reason populations below the
target are real. On the line three spheres are what a chain of containments and a cull
with a survivor and a newcomer take; four iterations give a pass and the moves after
it.

Two threads with two calls each reach every overlap of two calls and what the next
call then finds; the third Python call is the one after an exception or a panic. Three
iterations let a cancel hit before, during and after one. Two promises are one that
holds the session and one that must find it gone.

Two GPU sessions on one adapter are what it takes to lose a device under somebody
else; two queries are one that leaves something behind and one that must not find it;
the pair buffer holds one pair, so the second overflows it.

Two documents a mode are needed to replace one, and two jobs to confuse one with the
next. A third service request adds little: the plans take those in which three do
something two cannot (two packs and an assemble, a load that sweeps under a pack). What
requests do to files is checked apart from what a websocket sees of a pack: frames do
not touch the disk, and a view is a request that sweeps under it.
`TTL = 0` with a clock of one tick makes a session expire in that tick. `MaxPrepared =
1`, since entries of the cache of prepared meshes do not read each other.

The bounds `MaxCalls`, `MaxPromises`, `MaxQueries`, `MaxJobs`, `MaxDocs`, `MaxLoads`,
`MaxPacks`, `MaxFrames`, `MaxTime`, `MaxAsked`, `MaxIterations` and `MaxVersion` (no
new pause past that version; resuming, finishing and cancelling stay possible) only
cut behaviours short, and so do those of one topic: `NetCalls` and `NetIterations` of
.NET, `DeskLoads`, `DeskPacks` and `DeskVersion` of the desk. What hosts ask for is
one of `UpdateLists`, `PackRequests` and `Commands`. Deadlock is checked in the
packing session and the studio; the other runs stop once their calls, promises,
queries or requests are used up, and there `CallsReturn`, `EveryCallReturns`,
`QueriesAreAnswered` and `SocketsKeepUp` say that nobody is stuck.

### Fairness

In the C API and .NET a thread inside a call keeps going (`WF(Continues(t))` for every
thread, the callback's return included). Python threads likewise, and a thread that
waits for the interpreter's lock gets it sooner or later although others come and go
(`SF`): the interpreter hands its lock over after a switch interval. A user's callback
returns (`SF(CallbackReturns(t))`): one that loops for ever is the user's. In a page
every promise is polled again (`WF`), the event loop's contract. A GPU session keeps
working (`WF(Works(s))`), and the callback of a submission that is through runs, in the
poll that saw it end. The GPU need not finish anything, no failure has to come and the
deadline not either: a GPU that never finishes holds its query up for good. A websocket
forwards (`WF(Forward(k))`) and looks at its tick although frames come in between
(`SF(CheckTick(k))`): `select!` takes its branches in random order. Nothing is assumed of
clients, so a send need never end, nor of requests and workers. In the studio the job's thread
and the polls of the frames go on (`WF(JobWorks)`, `WF(Polls)`); no click, and no
load, has to come.

### Disagreements found

Four are runs with a violated property:

- **A run may return OK without having run** (`capi_run_ok`). `morphit_finalize` looks
  at `running` (lib.rs:706) before it takes the mutex (lib.rs:710); a `morphit_run`
  that claims the session in between is finalized underneath. It sees `is_done` and
  returns `MORPHIT_OK` although iterations remain and nothing converged. The header
  says "Run all remaining iterations, then finalize".
- **A cancel may hit the next run** (`capi_cancel`). `morphit_run` forgets pending
  cancels (lib.rs:679) before its guard clears `running`; one that arrives in between
  outlives the run that "consumes" it.
- **The end of a second job may never be shown** (`studio_end`). `start_pack` keeps
  `job_version`; when the next job ends between two frames after exactly as many
  status changes as the last one polled, every poll returns early and its result or
  error is never seen. Two packs failing in `Session::new` do it.
- **"Finish now" is dropped while an item is prepared** (`studio_finish`): `pack_one`
  clears the flag after `Session::new` (job.rs:164).

Others were met while modelling. The properties step around them by an explicit
condition, and they are kept here for whoever changes this code.

*Optimizer.* A reseeded sphere's radius is documented as "at least the survivor
median", which fails when 0.3 of the scale is below the median. Pruning nested spheres
keeps the union's metrics exactly but not those that count mass.

*GPU.* `search/gpu/mod.rs:6-8` says software rasterizers are never chosen by `auto`;
`select` takes them when `MORPHIT_GPU_ALLOW_SOFTWARE` is set.

*Python and pages.* A Python `cancel()` before `run()` cancels the next run. The
page's session is documented as busy while a promise is pending, but before the first
poll `finalize` and `stepSync` succeed; completed steps of `stepMany` stay invisible
until it ends.

*.NET.* `SafeHandle` defers `ReleaseHandle` until the run returns, so `Dispose` does
not stop a run, and `Cancel` after it throws. A longer `ResultJson` between the two
calls of `ReadString` raises `BUFFER_TOO_SMALL`, though the session promises reads
during `Run`. `Run` on a converged session reports Completed. A token cancelled
between the run's end and the registration's disposal leaves a cancel for the next
run. An error's message is lost when the failing call also gives up the last reference
of a disposed handle.

*C API.* After `morphit_set_log_callback(NULL)` another thread may still be in the old
callback.

*Service.* The sweep is to "drop sessions idle for longer than the TTL, with their
directories" (sessions.rs:81), but the time of last access is that of the look-up: a
session whose pack takes longer than the TTL goes while its client waits. Its directory
may come back, for good: the worker may be about to make its output directory
(pack.rs:127) or to save (result.rs:42), and makes it anew for nobody. "The socket closes
when the client leaves or the session is gone" (robot.rs:293-294), but a frame is sent
inside its branch of `select!` (robot.rs:323): while the client does not take it, neither
the tick nor the client's messages are looked at. `get` refreshes the access time outside the map's lock, so a sweep may win
between the look and the touch. A concurrent re-pack of a link gives `assemble` a
half-written file, a 500; one whose write fails after it truncated the file
(result.rs:45) leaves a cut file over a good result, and the link reads as broken until
it is packed again. `assemble` writes the spherical URDF even when it answers 400. When
the second directory of a session cannot be made (sessions.rs:104-107) the first stays,
as does what `remove_dir_all` could not remove (sessions.rs:95, 138), and a killed
process leaves all of them: nothing sweeps directories without a session.

*Robot package.* A URDF that repeats a link name makes two equal cuts. Results are
recorded by (link, index) and survive `add_file`, so spheres of a replaced mesh may be
assembled; a C report applied to a replaced URDF may cut other collisions. Memory and
disk differ for `..` through a missing directory, a trailing slash and an empty path,
and the memory package takes a file where a directory is. Links the joints do not
reach, cycles included, keep the identity, and so do their spheres; two packed
collisions of one link give spheres of equal names (assemble.rs:339).

*Configuration.* `from_json` ignores unknown keys that `set` rejects; 2^64 as a float
saturates a seed; seeds above i64::MAX cannot be read back as integers; only C's
`from_json` validates at once.

*Mesh preparation.* A flat body is told by its volume as found, before its faces are
turned (mesh_prep.rs:510): one face wound wrongly gives it a volume, and a body that
encloses nothing takes part in the union. When hulls were built and the union then fails or is skipped, the
report still says `convex_hull` although the raw mesh is packed. Coincident duplicate
bodies fall apart into degenerate pieces and are packed raw without a warning.

*Studio.* A job that ends between a frame's poll and a click in that same frame lets a
document be opened, or the packs so far be assembled and analyzed, before its last
results were picked up. A document that loads within one frame is opened before the
poll, so the old job's result lands in it. Scores that arrive after Clear, Pack or a
new document are shown for what replaced them. `start_pack` drops an object's result
without marking the spheres dirty. `--pack` without a document packs the first one
opened later. A panic of the optimizer leaves the status `running`.

## 4. What is proved

TLAPS checks the proofs in `SessionProofs`, `PackSessionProofs`, `CApiSessionProofs`,
`BindingsProofs`, `GpuSearchProofs`, `RobotServiceProofs`, `StudioProofs` and
`LibraryProofs`. They hold for all values of the constants that satisfy the assumptions
of the modules: `DensityAssumption`, `SessionAssumption`, `LineAssumption`,
`LineSessionAssumption`, `ApiAssumption`, `PyAssumption`, `SearchAssumption`,
`QueriesAssumption`, `ServiceAssumption`, `JobAssumption`, `StudioAssumption`,
`DeskAssumption`, `PackageAssumption` and `LibraryAssumption`. So for any target,
interval, patience and cooling, any segment, samples and spheres on it, any number of
iterations, threads, calls, sessions, queries, links, requests, sockets, documents and
jobs, any packages, updates, requests and robots. The bounds of the runs are among these
constants. The assumptions are mostly types. `SearchAssumption` has the one that
matters: the tolerance is at least twice the rounding. `PackageAssumption` says that
references and names of uploads are sequences of parts. `LibraryAssumption` has
`IsRobot`: a robot's links have different names, and no link or joint already has the
name a sphere link will get, which the code takes for granted; and `IsMesh`: a mesh is
any sequence of triangles. `StudioAssumption` and
`DeskAssumption`: the collision meshes of a robot have different keys.

**SessionProofs** has the lemmas about the operators. `CullCountBounds`: the cull
count leaves a survivor, and stays below the number of bad spheres only at its cap.
`RankingsKeepNoBad`: a survivor is bad only if all good spheres survive. From them, a
pass keeps the population and the distinctness of spheres and culls what it must
(`RepackDistinct`, `RepackCulls`); `StepFields` and `FinalizeFields` say what a call
leaves in each field; `StepIsAdvance` and `FinalizeIsPrune` that calls are steps of
`SessionProgress`.

**PackSessionProofs** proves type correctness, that spheres stay distinct and that a
done session has been reported (three that no run checks, since they are proved), and
the safety properties of free geometry the run checks. None is inductive alone. `IInv`
adds `PassInThePast` (a pass was never marked at a later iteration): without it the
subtraction in `should_trigger`, which saturates, says nothing about the iterations
since the last pass, and `PassNeverOverdue` cannot be carried from a step to the next.
`PassesCullEveryBadSphere` needs `SpheresDistinct`: only then is a culled sphere
really gone. On the line, `LineInv` says that there is one interval per sphere.
`LineIsASession`: what the geometry computes (verdicts, the ranking of `InOrder`, new
spheres, who is kept) is among what `Session` leaves open, so every step on the line is
one of `PackSession`; that the sort lists everything once is by counting what comes no
later (`UpTo`). `PruningIsFree`: dropping contained spheres changes no metric. A sphere
that is dropped lies in one that is kept because containment is transitive and, where
two spheres contain each other, goes by their place: the largest of those that contain
it, and the first of equal ones, is kept.
`GradientsAlwaysDerivatives` is for any number of spheres. It is stated term by term
because a whole loss need not have it: where pairs of spheres have kinks at one point
that bend against each other, the gradients chosen for each need not add up to a value
between the slopes of the sum. (A sphere that coincides with a second one and touches
two others on its left has overlap slopes of -2 on both sides, and the gradient 0.) The
argument: on the fine lattice a step passes no kink, so a gap goes straight to either
side (`GapMoves`, `GapsMoveAlong`), and each term's value after one and two steps is
known (`CoverageKink`, `SurfaceKink`, `DepthKink`, `SquareSlope`, `LargestSlope`). A loss
is a sum over a finite set, in no given order, of its terms and of what does not depend
on the sphere; slopes and gradients of sums are sums (`SlopesSum`, `DerivedIf`). For
overlap and containment, sums over pairs, the pairs with the sphere are split off
(`PairsSplit`), and both losses are one lemma (`PairIsDerived`). The Hausdorff loss is
its only term: at two steps the largest distance is still one of those that were largest
(`LargestMovesOne`).

**CApiSessionProofs** proves all safety properties of the C API session, and that no
lock is held during a callback, with one inductive invariant in layers, each preserved
given the ones before: `Types`; `Places` (which calls can be at which place);
`Excludes` (a thread is at a locked place exactly when the mutex is its own);
`OneRun`; `FreeAlone` (nobody else is inside when a handle is about to be released, or
was); `Published` (the snapshot is the session unless a thread is between an iteration
and its publication, or a panic tore the session; a torn session is poisoned and
unlocked); `Overrun` (the iterations trained since a cancel, by the place of the run).
`CancelStopsRun` follows from the last: the count is only raised while the mutex is
held, and the way back to the mutex leads through the check of the flag.

**BindingsProofs** has, for Python, layers of the same kind: `Types`, `Places`, `Held`
(who holds the mutex and who the interpreter's lock, by the place of each thread),
`Claimed` (the claim is held exactly while one claiming call is under way), `Published`,
`Meaning` (what an outcome says of the session) and `RunSeen` (what a run knows of the
session it claimed, although it lets go of the mutex after every iteration). From them:
claims are exclusive and given up on every way out; no thread holds both locks; what
`run` returns is so; Python's getters see a `SessionProgress`. For a page, `WebInv`: the
session comes back, inductive only together with "the holder is a promise that exists".
For .NET, `NetInv`: what each call knows at each of its places (`NetCall`), the one run
that owns the flag (`NetOwner`), that nobody is inside a freed session (`NetReleased`),
what results say (`NetResults`). The three are composed as the run composes them.

**GpuSearchProofs** has four layers: `Types`; `Control` (who owns the staging buffer
at which place of a query); `Explained` (the message comes before the flag); `Data`
(what the buffers hold when they are read is what the kernels compute of *this*
query). The first two theorems need no `Data`. That answers are exact rests on the
lemma `DecisiveProposal`: a proposal that wins by more than the tolerance in rounded
numbers is the exact first minimum; where none does, the code decides in f64. That a
first minimum exists is by the least counterexample of a well-founded order. It gives
`EveryAnswerIsExact` for row minima and nearest samples and `PairsAreAlwaysComplete`
for what is read back of the boundary pairs. `CsrOfAList`: sorted by sample and
sphere, pairs appended in any order give each sample its candidates in ascending
order. `SearchKeepsItsPromise` is the refinement: every step of the GPU's search, its
failures included, is one of `SearchPromise` or changes no answer.

**RobotServiceProofs** proves that an assembled URDF is complete: a sphere file is
whole only if a worker has saved it to the end (`Saved`), and a request that assembles
has seen that of every link it has read (`Fine`). The second theorem, on live frames,
needs that what an open socket has seen it has sent, that the frame under way is newer
than the last one sent, and that none is ahead of its session (`Behind`), whose frames are only counted up once it was made (`Frames`). The
third, `DiskAlwaysMatchesStore`, is the largest: `DiskInv` says who may use a session
that has left the map (`Placed`: its request saw it there, or is about to delete it),
what state a sphere file is in by the workers that write it, wrote it or failed to
(`Filed`), what the map's sessions may count on (`Matched`: the directory, the reported
package, statistics of meshes that were there), and which other directories there are
(`Known`: a deletion is still to come, or it is a stray). An action is reduced
to what it does to one request and the sessions it frees (`Quiet`), so that most of
the handlers are a case each.

**StudioProofs** has two invariants. `StudioInv` is of a job beside the frames: how many
packs are finished at each place of the thread (`Place`), that what is picked up is a
beginning of them (`PollInv`), that the document under the job is the open one
(`DocInv`), and that a thread that trained past a request has the next check still
ahead of it (`LateInv`). `DeskInv` is of the desk: each function of the code that
changes the studio's state keeps `Fits`, also between two functions of one poll, when
what is drawn, what is offered and the flags are about to be brought together again.
That chosen rows can be listed in the table's order (`RowsHaveOrder`) is proved by the
least number of rows for which it could not.

**LibraryProofs** is about loops over sequences. The code's loops over updates and path
parts are folds in the model, and `FoldLeft` is a recursive function on the sets of
places of a sequence. The library's induction theorems take an operator, so induction is
stated for a set of numbers here (`Induction`, from the well-foundedness of `<`);
`FoldExists` and `FoldIsOnly` say that there is one such function and one only, and
`Walks` and `StepsAre` give the accumulators of a fold one after the other.
`SessionsAlwaysRunWhatWasAsked`: after each update of a batch the configuration has the
values last asked for on top of the old ones (`SetAllMeans`), and nothing of a batch
that is refused; a pack request runs what it asks for since the allow-list has none of
the parameters it sets itself (`PacksWhatWasAsked`). `MemoryAlwaysAgreesWithDisk`: part
by part, the lexical path is where the walk through directories is, or the walk has
failed and nothing of the package lies below the lexical path (`Agree`); after leading
`..` both are in the same directory. `NoCollisionIsEverLost`: a
report, fresh or kept by a C host, has one item for each collision, under its link's
name and its number there (`Describes`), so a cut always meets the mesh that was packed.
`SpheresAlwaysSitWhereTheyWerePacked` is about the breadth-first search for poses, for
any graph of joints. It ends within the visits the model gives it (`SearchEnds`), since
what entered the queue is a root or the child of a joint, each placed once. The
assembled robot has the same roots (`RootsAgree`), and its search has the same poses
and, but for the spheres in it, the same queue (`SearchAgrees`; `Without` is a thinned
queue): no link moves. A joint whose parent was reached has its child reached, unless
the parent still waits, and every moved link is where one of its joints puts it
(`SearchReaches`); the only joints to a sphere are those of spheres with its name
(`SpheresApart`). What remains is algebra: a point moved by the pose of a collision is
the point moved into the link and then with it (`MovedTwice`).
`PreparedMeshIsAlwaysSound` is about the flooding that winds a body, for any triangles:
faces may be degenerate, edges used once, twice or often, pieces apart. A step of the
walk (`Visited`) takes the front face of the queue, or the first one not seen. It only
turns faces, so the walked body is the old one with a set of faces turned. If some set
of turned faces winds the body consistently (`Coherent`), then on the faces seen the
walk agrees with such a set (`FollowsOne`): where a new piece begins, the set may be
exchanged for its complement on all faces not seen (`RestCanTurn`), and a neighbour is
turned exactly when its edge demands it (`TurnsFit`). Every step takes one face off the
queue, so after as many steps as faces all are seen (`Progress`). So a body is open after
the walk only if no turning closes it. Its volume is a sum over faces in no given order:
it has one value (`SummingExists`, `TakeAny`), and turning all faces negates it
(`VolumeReversed`), so that what is united is never wound inward. Hulls are closed
(`HullIsClosed`), bodies are counted by their faces (`OpenAre`), and `PrepareIsSound`
goes through the ways out of `prepare_mesh`.

Only model-checked:

- Liveness (`CallsReturn`, `EveryCallReturns`, `QueriesAreAnswered`, `SocketsKeepUp`,
  `CancelEndsJob`), beyond the prover's temporal reasoning about fairness and `ENABLED`.
- The four violations.

## 5. What is not modelled, and the plan

Left out for good, and why:

- Parsers and printers (mesh formats, the XML and JSON as text), the static web front
  end, assets: one call each, no state, nothing to interleave.
- Rendering, colours, the camera, save dialogs: nothing else depends on them.
- Floating-point numerics: the physics losses (mass, center of mass, inertia), Adam,
  clipping and the softplus storage of radii, ray parity, sampling and mass
  properties. Their hazard is rounding, which needs real arithmetic and is what the
  repository's parity and finite-difference tests measure. The model keeps the
  rounding only in the GPU search, where a decision depends on it.
- The boolean kernel, the hull and the inside test of mesh preparation, and the GPU
  with its driver: external, any answer is explored.
- The service outside robot mode, and the command line beyond the configuration it
  builds: each request is one call of what other modules model.
- Losses in space. The line has ties, contacts and nesting; partial overlap of many
  spheres around a corner it has not.

The next steps: models of the C log callback with threads that log while it is replaced,
and of the history's subsampling in the MJCF and URDF of one object.
