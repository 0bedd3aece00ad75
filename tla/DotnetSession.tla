--------------------------- MODULE DotnetSession ---------------------------
(***************************************************************************)
(* A session in .NET (bindings/dotnet/MorphIt/Session.cs) over the C API   *)
(* (crates/morphit-capi/src/lib.rs): threads run, step, finalize, cancel,  *)
(* read and dispose one Session.  Every call into C holds a reference of   *)
(* the SafeHandle, and the native session is freed by whoever gives up the *)
(* last one after Dispose.  Readers ask twice, for a size and for the      *)
(* data; C reports errors by a status and a message kept per thread.       *)
(*                                                                         *)
(* The native session is known here by what it publishes, which CApiSession*)
(* shows to be a SessionProgress; what holds its mutex is one step.  Panics*)
(* and the garbage collector are left out, and one token is shared by all  *)
(* RunAsync calls.                                                         *)
(***************************************************************************)
EXTENDS Integers, FiniteSets

CONSTANTS
  Threads,     \* threads of the .NET program, those of its pool included
  MaxCalls,    \* bound: calls the threads make
  Iterations, StartCounts   \* of the session, see SessionProgress

VARIABLES
  view,      \* the published snapshot of the native session
  running,   \* morphit_session::running
  cancel,    \* morphit_session::cancel
  handle,    \* the SafeHandle: "open", "closed" or "freed"
  token,     \* the CancellationTokenSource: whether it was cancelled, the
             \* registrations it has, and those it is still to call
  call,      \* what each thread is in
  result,    \* what each thread's last call returned or threw
  calls,     \* calls made so far
  seen       \* history: whether someone asked for a cancel, whether a run converged

vars == <<view, running, cancel, handle, token, call, result, calls, seen>>

Native == INSTANCE SessionProgress

Runs    == {"Run", "RunAsync"}
Readers == {"Radii", "ResultJson"}
Ops     == Runs \cup Readers \cup {"Step", "FinalizeSpheres", "Cancel", "Dispose"}

None == [kind |-> "none"]
Idle == [op |-> "none", at |-> "idle", status |-> "OK", message |-> TRUE,
         thrown |-> FALSE, converged |-> FALSE, buffer |-> None]

Value(kind) == [kind |-> kind]
Exception(status, message) == [kind |-> "MorphItException", status |-> status, message |-> message]

Init ==
  /\ Native!Init
  /\ running = FALSE /\ cancel = FALSE
  /\ handle = "open"
  /\ token = [cancelled |-> FALSE, registered |-> {}, toCall |-> {}]
  /\ call = [t \in Threads |-> Idle]
  /\ result = [t \in Threads |-> None]
  /\ calls = 0
  /\ seen = [cancel |-> FALSE, converged |-> FALSE]
-----------------------------------------------------------------------------
At(t, label) == call[t].at = label
Goto(t, label) == call' = [call EXCEPT ![t].at = label]
Returns(t, value) ==
  /\ call' = [call EXCEPT ![t] = Idle]
  /\ result' = [result EXCEPT ![t] = value]

\* The places inside a call to C: its reference keeps the handle from being freed.
NativePlaces == {"cancel?", "iterate", "callback", "finish", "forget", "giveUp", "act", "leave"}
Inside(t)    == call[t].at \in NativePlaces

\* guard: how the body of a C function ends, with a message unless it succeeded.
Ends(t, status, label) ==
  call' = [call EXCEPT ![t].at = label, ![t].status = status, ![t].message = TRUE]

Entry(op) == IF op = "RunAsync" THEN "queued" ELSE "enter"

Starts(t) ==
  /\ At(t, "idle") /\ calls < MaxCalls
  /\ calls' = calls + 1
  /\ \E op \in Ops \ {"Cancel", "Dispose"} :
       call' = [call EXCEPT ![t].op = op, ![t].at = Entry(op)]
  /\ UNCHANGED <<view, running, cancel, handle, token, result, seen>>

\* morphit_cancel, from Cancel or from the token.
Asks ==
  IF handle = "open" THEN cancel' = TRUE /\ seen' = [seen EXCEPT !.cancel = TRUE]
  ELSE UNCHANGED <<cancel, seen>>
Answer == IF handle = "open" THEN Value("ok") ELSE Value("ObjectDisposed")

Cancel(t) ==
  /\ At(t, "idle") /\ calls < MaxCalls
  /\ calls' = calls + 1
  /\ Asks
  /\ result' = [result EXCEPT ![t] = Answer]
  /\ UNCHANGED <<view, running, handle, token, call>>

\* ReleaseHandle: nobody is in a run any more, so morphit_session_free frees.
Dispose(t) ==
  /\ At(t, "idle") /\ calls < MaxCalls /\ handle = "open"
  /\ calls' = calls + 1
  /\ IF \E u \in Threads : Inside(u)
     THEN handle' = "closed" /\ UNCHANGED cancel
     ELSE handle' = "freed" /\ cancel' = TRUE
  /\ result' = [result EXCEPT ![t] = Value("ok")]
  /\ UNCHANGED <<view, running, token, call, seen>>
-----------------------------------------------------------------------------
(***************************************************************************)
(* RunAsync's task: not started once the token is cancelled; its           *)
(* registration calls Cancel at once if the token was cancelled meanwhile. *)
(***************************************************************************)
Queued(t) ==
  /\ At(t, "queued")
  /\ IF token.cancelled THEN Returns(t, Value("OperationCanceled"))
     ELSE Goto(t, "register") /\ UNCHANGED result
  /\ UNCHANGED <<view, running, cancel, handle, token, calls, seen>>

Register(t) ==
  /\ At(t, "register")
  /\ IF token.cancelled
     THEN /\ Asks /\ UNCHANGED token
          /\ IF handle = "open" THEN Goto(t, "enter") /\ UNCHANGED result
             ELSE Returns(t, Value("ObjectDisposed"))
     ELSE /\ token' = [token EXCEPT !.registered = @ \cup {t}]
          /\ Goto(t, "enter") /\ UNCHANGED <<cancel, seen, result>>
  /\ UNCHANGED <<view, running, handle, calls>>

CancelToken ==
  /\ ~token.cancelled
  /\ token' = [token EXCEPT !.cancelled = TRUE, !.toCall = token.registered]
  /\ UNCHANGED <<view, running, cancel, handle, call, result, calls, seen>>

CallRegistered ==
  /\ \E t \in token.toCall : token' = [token EXCEPT !.toCall = @ \ {t}]
  /\ Asks
  /\ UNCHANGED <<view, running, handle, call, result, calls>>

\* The end of the using block; then a cancelled run may throw.
Unregistered(t, value) ==
  /\ token' = [token EXCEPT !.registered = @ \ {t}, !.toCall = @ \ {t}]
  /\ Returns(t, IF value = Value("Cancelled") /\ token.cancelled
                THEN Value("OperationCanceled") ELSE value)

Concludes(t, value) ==
  IF call[t].op = "RunAsync" THEN Unregistered(t, value)
  ELSE Returns(t, value) /\ UNCHANGED token
-----------------------------------------------------------------------------
(***************************************************************************)
(* Entering C: a disposed handle throws; a run claims the session; what    *)
(* steps or finalizes looks whether one is active.                         *)
(***************************************************************************)
Enter(t) ==
  /\ At(t, "enter")
  /\ \/ /\ handle # "open"
        /\ Concludes(t, Value("ObjectDisposed"))
        /\ UNCHANGED running
     \/ /\ handle = "open" /\ call[t].op \notin Readers
        /\ IF running THEN Ends(t, "BUSY", "leave") /\ UNCHANGED running
           ELSE IF call[t].op \in Runs THEN Goto(t, "cancel?") /\ running' = TRUE
           ELSE Goto(t, "act") /\ UNCHANGED running
        /\ UNCHANGED <<result, token>>
  /\ UNCHANGED <<view, cancel, handle, calls, seen>>

TakeCancel(t) ==
  /\ At(t, "cancel?")
  /\ IF cancel THEN Ends(t, "CANCELLED", "forget") ELSE Goto(t, "iterate")
  /\ cancel' = FALSE
  /\ UNCHANGED <<view, running, handle, token, result, calls, seen>>

Advances == Native!Advance /\ seen' = [seen EXCEPT !.converged = @ \/ view'.state = "converged"]

Iterate(t) ==
  /\ At(t, "iterate")
  /\ \/ /\ view.state # "running"
        /\ Goto(t, "finish") /\ UNCHANGED <<view, seen>>
     \/ /\ Advances
        /\ call' = [call EXCEPT ![t].at = "callback", ![t].converged = view'.state = "converged"]
  /\ UNCHANGED <<running, cancel, handle, token, result, calls>>

(***************************************************************************)
(* The delegate Run passes: an exception of onStep must not cross C, so it *)
(* is kept and the run is stopped.  RunAsync's onStep never says stop.     *)
(***************************************************************************)
Callback(t) ==
  /\ At(t, "callback")
  /\ \/ Goto(t, "cancel?") /\ UNCHANGED seen
     \/ /\ call[t].op = "Run" /\ Ends(t, "CANCELLED", "forget")
        /\ seen' = [seen EXCEPT !.cancel = TRUE]
     \/ /\ call' = [call EXCEPT ![t].at = "forget", ![t].status = "CANCELLED", ![t].thrown = TRUE]
        /\ UNCHANGED seen
  /\ UNCHANGED <<view, running, cancel, handle, token, result, calls>>

Prunes == IF view.state = "finalized" THEN UNCHANGED view ELSE Native!Prune

Finish(t) ==
  /\ At(t, "finish")
  /\ Prunes
  /\ Goto(t, "forget")
  /\ UNCHANGED <<running, cancel, handle, token, result, calls, seen>>

Forget(t) ==
  /\ At(t, "forget")
  /\ cancel' = FALSE
  /\ Goto(t, "giveUp")
  /\ UNCHANGED <<view, running, handle, token, result, calls, seen>>

GiveUp(t) ==
  /\ At(t, "giveUp")
  /\ running' = FALSE
  /\ Goto(t, "leave")
  /\ UNCHANGED <<view, cancel, handle, token, result, calls, seen>>

\* morphit_step and morphit_finalize, with the session's mutex.
Act(t) ==
  /\ At(t, "act")
  /\ \/ call[t].op = "FinalizeSpheres" /\ Prunes /\ Ends(t, "OK", "leave") /\ UNCHANGED seen
     \/ call[t].op = "Step" /\ Advances /\ Ends(t, "OK", "leave")
     \/ /\ call[t].op = "Step" /\ view.state # "running" /\ Ends(t, "DONE", "leave")
        /\ UNCHANGED <<view, seen>>
  /\ UNCHANGED <<running, cancel, handle, token, result, calls>>

(***************************************************************************)
(* write_slice and write_string: a size query, then a copy of the snapshot *)
(* of that moment into a buffer of the size told.  Arrays have an element  *)
(* per sphere; the text of another snapshot may be longer.                 *)
(***************************************************************************)
AskSize(t) ==
  /\ At(t, "enter") /\ handle = "open"
  /\ call[t].op \in Readers /\ call[t].buffer = None
  /\ call' = [call EXCEPT ![t].at = "leave", ![t].status = "OK",
                ![t].buffer = [kind |-> "empty", capacity |-> view.count, of |-> view]]
  /\ UNCHANGED <<view, running, cancel, handle, token, result, calls, seen>>

Copy(t) ==
  /\ At(t, "enter") /\ handle = "open"
  /\ call[t].op \in Readers /\ call[t].buffer # None
  /\ LET buffer == call[t].buffer
         short  == IF call[t].op = "Radii" THEN view.count > buffer.capacity
                   ELSE view # buffer.of
     IN \/ short /\ Ends(t, "BUFFER_TOO_SMALL", "leave")
        \/ /\ short => call[t].op # "Radii"
           /\ call' = [call EXCEPT ![t].at = "leave", ![t].status = "OK",
                         ![t].buffer = [@ EXCEPT !.kind = "copied", !.of = view]]
  /\ UNCHANGED <<view, running, cancel, handle, token, result, calls, seen>>
-----------------------------------------------------------------------------
(***************************************************************************)
(* Back from C: a reference less, and the native session is freed if that  *)
(* was the last one of a disposed handle, on this thread, whose message    *)
(* those calls replace.  Then the wrapper looks at what came back.         *)
(***************************************************************************)
Releases(t) == handle = "closed" /\ ~\E u \in Threads \ {t} : Inside(u)

\* A bug for the checks to find: the status is looked at first.
RunValueStatusFirst(c, message) ==
  IF c.status = "CANCELLED" THEN Value("Cancelled")
  ELSE IF c.thrown THEN Value("onStep")
  ELSE IF c.status # "OK" THEN Exception(c.status, message)
  ELSE IF c.converged THEN Value("Converged") ELSE Value("Completed")

RunValue(c, message) ==
  IF c.thrown THEN Value("onStep")
  ELSE IF c.status = "CANCELLED" THEN Value("Cancelled")
  ELSE IF c.status # "OK" THEN Exception(c.status, message)
  ELSE IF c.converged THEN Value("Converged") ELSE Value("Completed")

\* A bug for the checks to find: the array keeps the length first told.
ReadValueUncut(c) == [kind |-> c.op, length |-> c.buffer.capacity, of |-> c.buffer.of]

ReadValue(c) == [kind |-> c.op, length |-> c.buffer.of.count, of |-> c.buffer.of]

Leave(t) ==
  /\ At(t, "leave")
  /\ LET c       == call[t]
         message == c.message /\ ~Releases(t)
         failed  == c.status \notin {"OK", "DONE"}
     IN \/ c.op \in Runs /\ Concludes(t, RunValue(c, message))
        \/ /\ c.op \notin Runs /\ failed
           /\ Returns(t, Exception(c.status, message)) /\ UNCHANGED token
        \/ /\ c.op \in Readers /\ ~failed
           /\ IF c.buffer.kind = "empty" THEN Goto(t, "enter") /\ UNCHANGED result
              ELSE Returns(t, ReadValue(c))
           /\ UNCHANGED token
        \/ /\ c.op \in {"Step", "FinalizeSpheres"} /\ ~failed
           /\ Returns(t, Value("ok")) /\ UNCHANGED token
  /\ IF Releases(t) THEN handle' = "freed" /\ cancel' = TRUE ELSE UNCHANGED <<handle, cancel>>
  /\ UNCHANGED <<view, running, calls, seen>>

Continues(t) ==
  \/ Queued(t) \/ Register(t) \/ Enter(t) \/ AskSize(t) \/ Copy(t) \/ Leave(t)
  \/ TakeCancel(t) \/ Iterate(t) \/ Callback(t) \/ Finish(t) \/ Forget(t) \/ GiveUp(t) \/ Act(t)

Next ==
  \/ CancelToken \/ CallRegistered
  \/ \E t \in Threads : Starts(t) \/ Cancel(t) \/ Dispose(t) \/ Continues(t)

\* Threads inside a call go on, and onStep returns.
Fairness == \A t \in Threads : WF_vars(Continues(t))
-----------------------------------------------------------------------------
(***************************************************************************)
(* Properties.                                                             *)
(***************************************************************************)

(***************************************************************************)
(* Session.cs says its readers may be used while a run is active: what     *)
(* they return is of one snapshot, the spheres of the end of a run pruned  *)
(* between the two calls included.                                         *)
(***************************************************************************)
ReadsAreWhole ==
  \A t \in Threads : result[t].kind \in Readers => result[t].length = result[t].of.count

(***************************************************************************)
(* What a call says is so: a run that completed or converged left a pruned *)
(* session and converged only if an iteration did; it is cancelled only if *)
(* somebody asked; the exception of onStep comes back to who ran; a busy   *)
(* session is never freed under its run; and an exception has its message  *)
(* unless the session was disposed.                                        *)
(***************************************************************************)
OutcomesAreTrue ==
  /\ [][\A t \in Threads :
          call[t].op \in Runs /\ At(t, "leave") /\ call'[t].at = "idle" =>
            /\ call[t].thrown <=> result'[t].kind = "onStep"
            /\ result'[t].kind \in {"Completed", "Converged"} => view.state = "finalized"
            /\ result'[t].kind = "Converged" => seen.converged
            /\ result'[t].kind = "Cancelled" => seen.cancel
            /\ result'[t].kind = "OperationCanceled" => token.cancelled]_vars
  /\ [](handle = "freed" => ~running /\ \A t \in Threads : ~Inside(t))
  /\ [](handle = "open" => \A t \in Threads : result[t].kind = "MorphItException" => result[t].message)

(***************************************************************************)
(* Every call ends, however the other threads interleave: no one waits for *)
(* a session that is busy, disposed or freed.                              *)
(***************************************************************************)
CallsReturn == \A t \in Threads : ~At(t, "idle") ~> At(t, "idle")
=============================================================================
