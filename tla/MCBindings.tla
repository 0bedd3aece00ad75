----------------------------- MODULE MCBindings -----------------------------
(***************************************************************************)
(* The session of a language binding for TLC: a behaviour is that of a     *)
(* Python or a .NET session shared by threads, or of a session in a web    *)
(* page.                                                                   *)
(***************************************************************************)
EXTENDS PySession

CONSTANTS
  MaxPromises,              \* of a page
  NetCalls, NetIterations   \* the bound on calls and the iterations in .NET

VARIABLES binding, sess, holder, snap, async, task, turn,
          view, netRunning, netCancel, handle, token, call, netResult, netCalls, seen

Wasm == INSTANCE WasmSession
Dotnet == INSTANCE DotnetSession WITH
  MaxCalls <- NetCalls, Iterations <- NetIterations,
  running <- netRunning, cancel <- netCancel, result <- netResult, calls <- netCalls

webVars == <<sess, holder, snap, async, task, turn>>
netVars == <<view, netRunning, netCancel, handle, token, call, netResult, netCalls, seen>>

TwoSpheres == {2}

BindingsInit ==
  /\ binding \in {"python", "wasm", "dotnet"}
  /\ Init
  /\ Wasm!WInit
  /\ Dotnet!Init
  /\ binding # "wasm" => ~async

BindingsNext ==
  \/ binding = "python" /\ Next /\ UNCHANGED <<binding, webVars, netVars>>
  \/ binding = "wasm" /\ Wasm!WNext /\ UNCHANGED <<binding, vars, netVars>>
  \/ binding = "dotnet" /\ Dotnet!Next /\ UNCHANGED <<binding, vars, webVars>>

FairSpec ==
  /\ BindingsInit
  /\ [][BindingsNext]_<<binding, vars, webVars, netVars>>
  /\ Fairness
  /\ Wasm!WFairness
  /\ Dotnet!Fairness

SessionComesBack == Wasm!SessionComesBack
ReadsAreWhole    == Dotnet!ReadsAreWhole

\* What the runs and calls of a binding report is so.
OutcomesAreTrue == RunsEndTruthfully /\ Dotnet!OutcomesAreTrue

InCall(t) == pc[t] # "idle" \/ call[t].at # "idle"

\* Every call of a thread returns (a behaviour has one binding), and every promise settles.
EveryCallReturns == (\A t \in Threads : InCall(t) ~> ~InCall(t)) /\ Wasm!PromisesSettle
=============================================================================
