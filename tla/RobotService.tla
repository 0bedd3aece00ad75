---------------------------- MODULE RobotService ----------------------------
(***************************************************************************)
(* Robot mode of the web service (crates/morphit-server/src): requests     *)
(* create, look up, use and sweep sessions that live partly in a map and   *)
(* partly in directories; their blocking work runs on other threads and    *)
(* goes on after a client has left; websockets follow the live frames of   *)
(* the links being packed.                                                 *)
(*                                                                         *)
(* A request is a slot used once, the lower numbers first.  Its handler    *)
(* (field pc) and its worker (field work) interleave with those of all     *)
(* other requests; a step ends where shared state is next touched.  Every  *)
(* status of an error is `error'.                                          *)
(***************************************************************************)
EXTENDS Integers, FiniteSets

CONSTANTS
  Sessions,   \* session ids
  NoSession,  \* a request has found none
  Loaded,     \* the sessions loaded before the behaviour starts
  Links,      \* the pack items of every robot
  Requests,   \* bound: the requests made, numbered
  Sockets,    \* bound: the websockets opened
  TTL,        \* idle time after which a session expires
  MaxTime,    \* bound: the clock stops here
  MaxFrames   \* bound: live frames of a session

ASSUME ServiceAssumption ==
  /\ IsFiniteSet(Sessions) /\ NoSession \notin Sessions
  /\ Loaded \subseteq Sessions
  /\ Links # {} /\ Requests \subseteq Nat
  /\ TTL \in Nat /\ MaxTime \in Nat /\ MaxFrames \in Nat

VARIABLES
  up,      \* the server serves
  now,     \* the clock
  store,   \* SessionStore::sessions
  made,    \* the session ids given out
  sess,    \* RobotSession: report, last_access, live, mesh_stats
  disk,    \* <root>/<id>: there, its package whole, the sphere JSON of each link
  req,     \* the requests
  sock,    \* the websockets
  strays   \* history: directories nobody may be left to delete

vars == <<up, now, store, made, sess, disk, req, sock, strays>>

AnyLink == CHOOSE l \in Links : TRUE

NewSession == [report |-> FALSE, access |-> now, live |-> 0, stats |-> "none"]
NoFiles == [l \in Links |-> "none"]

NewRequest ==
  [pc |-> "new", kind |-> "none", s |-> NoSession, link |-> AnyLink, doomed |-> {},
   work |-> "none", fd |-> FALSE, todo |-> {}, missing |-> FALSE, answer |-> "none"]

Init ==
  /\ up = TRUE /\ now = 0
  /\ store = Loaded /\ made = Loaded
  /\ sess = [s \in Sessions |-> [NewSession EXCEPT !.report = s \in Loaded]]
  /\ disk = [s \in Sessions |-> [there |-> s \in Loaded, package |-> s \in Loaded, file |-> NoFiles]]
  /\ req = [r \in Requests |-> NewRequest]
  /\ sock = [k \in Sockets |-> [pc |-> "none", s |-> NoSession, seen |-> 0, got |-> 0]]
  /\ strays = {}
-----------------------------------------------------------------------------
\* The endpoints of robot mode; `load' stands for inspect and example_load,
\* `view' for file and prepared-mesh.
Kinds == {"load", "pack", "assemble", "analyze", "stats", "view"}

Busy == {"upload", "dirs", "run", "open", "write", "read", "urdf", "measure", "view"}

\* Arcs of a session: the map's, the sweeps', the handlers' and the workers'.
\* assemble and analyze give their workers paths, not the session.
Holds(r, s) ==
  \/ s \in req[r].doomed
  \/ req[r].s = s /\ req[r].pc \in {"clean", "touch", "wait"}
  \/ req[r].s = s /\ req[r].work \in {"upload", "dirs", "run", "open", "write"}
Alive(s) == s \in store \/ \E r \in Requests : Holds(r, s)

Finish(r, status) == req' = [req EXCEPT ![r].pc = "done", ![r].answer = status]

\* An error without a worker: nothing of the request matters any more.
Refuse(r) == req' = [req EXCEPT ![r] = [NewRequest EXCEPT !.pc = "done", !.answer = "error"]]

(***************************************************************************)
(* The start of every endpoint once its form or query was found well       *)
(* formed: SessionStore::gc takes the expired sessions out of the map;     *)
(* their directories go after the map is unlocked.                         *)
(***************************************************************************)
Expired == {s \in store : now - sess[s].access > TTL}

SweptStore == store \ Expired

Begin(r, kind, s, l) ==
  /\ up /\ req[r].pc = "new"
  /\ \A q \in Requests : q < r => req[q].pc # "new"
  /\ req' = [req EXCEPT ![r].pc = "clean", ![r].kind = kind, ![r].doomed = Expired,
                        ![r].s = IF kind = "load" THEN NoSession ELSE s,
                        ![r].link = IF kind = "pack" THEN l ELSE @]
  /\ store' = SweptStore
  /\ UNCHANGED <<up, now, made, sess, disk, sock, strays>>

(***************************************************************************)
(* remove_dir_all, whose failure the code ignores: it may leave any part   *)
(* of the directory.  A worker may hold a file that has lost its name, or  *)
(* make the directory anew.                                                *)
(***************************************************************************)
Nothing == [there |-> FALSE, package |-> FALSE, file |-> NoFiles]

Remains(d) ==
  {[there |-> TRUE, package |-> whole,
    file |-> [l \in Links |-> IF l \in gone THEN "none" ELSE d.file[l]]] :
      whole \in {FALSE, d.package}, gone \in SUBSET Links}

Removals(d) == {Nothing} \cup (IF d.there THEN Remains(d) ELSE {})

Unlinked(x, file) == IF file[x.link] = "none" THEN [x EXCEPT !.fd = FALSE] ELSE x

\* A handler or a worker that may put something in the session's directory.
Makes(x) == x.kind \in {"load", "pack", "assemble"} /\ (x.pc = "touch" \/ x.work \in Busy)
InTheMaking(s) == \E r \in Requests : req[r].s = s /\ Makes(req[r])

DeleteDirectory(r, s) ==
  /\ req[r].pc = "clean" /\ s \in req[r].doomed
  /\ \E left \in Removals(disk[s]) :
       /\ disk' = [disk EXCEPT ![s] = left]
       /\ strays' = IF left.there \/ InTheMaking(s) THEN strays \cup {s} ELSE strays
       /\ req' = [q \in Requests |->
            IF q = r THEN [req[r] EXCEPT !.doomed = @ \ {s}]
            ELSE IF req[q].s = s THEN Unlinked(req[q], left.file) ELSE req[q]]
  /\ UNCHANGED <<up, now, store, made, sess, sock>>

Swept(r) == req[r].pc = "clean" /\ req[r].doomed = {}

\* The end of a rejected upload, after its session was removed.
Rejected(r) ==
  /\ Swept(r) /\ req[r].answer # "none"
  /\ Refuse(r)
  /\ UNCHANGED <<up, now, store, made, sess, disk, sock, strays>>

(***************************************************************************)
(* inspect and example_load.  The session is in the map from the start; a  *)
(* file or a package that is too large takes it out again, an unsafe path  *)
(* leaves it to the sweep.                                                 *)
(***************************************************************************)
DoomedUpload(s) == {s}

Create(r, s) ==
  /\ Swept(r) /\ req[r].kind = "load" /\ req[r].answer = "none"
  /\ s \notin made \cup strays
  /\ made' = made \cup {s}
  /\ sess' = [sess EXCEPT ![s] = NewSession]
  /\ disk' = [disk EXCEPT ![s] = [Nothing EXCEPT !.there = TRUE]]
  /\ store' = store \cup {s}
  /\ req' = [req EXCEPT ![r].s = s, ![r].pc = "touch"]
  /\ UNCHANGED <<up, now, sock, strays>>

\* A directory cannot be made; the ones made before it stay.
CreateFails(r, s) ==
  /\ Swept(r) /\ req[r].kind = "load" /\ req[r].answer = "none"
  /\ s \notin made \cup strays
  /\ \/ UNCHANGED <<disk, strays>>
     \/ disk' = [disk EXCEPT ![s].there = TRUE] /\ strays' = strays \cup {s}
  /\ Refuse(r)
  /\ UNCHANGED <<up, now, store, made, sess, sock>>

CheckUpload(r) ==
  /\ req[r].pc = "touch" /\ req[r].kind = "load"
  /\ \/ /\ req' = [req EXCEPT ![r].pc = "wait", ![r].work = "upload"]
        /\ UNCHANGED store
     \/ Refuse(r) /\ UNCHANGED store
     \/ /\ store' = store \ {req[r].s}
        /\ req' = [req EXCEPT ![r].pc = "clean", ![r].answer = "error",
                              ![r].doomed = DoomedUpload(req[r].s)]
  /\ UNCHANGED <<up, now, made, sess, disk, sock, strays>>

\* create_dir_all, which may fail half-way.
MakesDirectory(s) == disk' = [disk EXCEPT ![s].there = TRUE]
MayMakeDirectory(s) == MakesDirectory(s) \/ UNCHANGED disk

WorkEnds(r, end) == req' = [req EXCEPT ![r].work = end]

\* The worker's writes make missing directories.
Upload(r) ==
  /\ req[r].work = "upload"
  /\ \/ /\ disk' = [disk EXCEPT ![req[r].s].there = TRUE, ![req[r].s].package = TRUE]
        /\ \E end \in {"ok", "error"} : WorkEnds(r, end)
     \/ MayMakeDirectory(req[r].s) /\ WorkEnds(r, "error")
  /\ UNCHANGED <<up, now, store, made, sess, sock, strays>>

(***************************************************************************)
(* SessionStore::get looks the session up under the map's lock and         *)
(* refreshes its time of use without it.                                   *)
(***************************************************************************)
Find(r) ==
  /\ Swept(r) /\ req[r].kind # "load" /\ req[r].answer = "none"
  /\ IF req[r].s \in store
     THEN req' = [req EXCEPT ![r].pc = "touch"]
     ELSE Refuse(r)
  /\ UNCHANGED <<up, now, store, made, sess, disk, sock, strays>>

OnDisk(s) == {l \in Links : disk[s].file[l] # "none"}

FirstWork(kind) ==
  [pack |-> "dirs", assemble |-> "read", analyze |-> "read",
   stats |-> "measure", view |-> "view"][kind]

\* The refresh, and what the handler does before it gives work to a worker.
Touch(r) ==
  LET s == req[r].s
      kind == req[r].kind
      todo == IF kind = "analyze" THEN OnDisk(s) ELSE Links
  IN /\ req[r].pc = "touch" /\ kind # "load"
     /\ sess' = [sess EXCEPT ![s].access = now]
     /\ \/ ~sess[s].report /\ kind # "view" /\ Refuse(r)
        \/ kind \in {"pack", "assemble", "view"} /\ Refuse(r)
        \/ sess[s].report /\ todo = {} /\ Refuse(r)
        \/ sess[s].report /\ kind = "stats" /\ sess[s].stats # "none" /\ Finish(r, "ok")
        \/ /\ sess[s].report \/ kind = "view"
           /\ todo # {} /\ (kind = "stats" => sess[s].stats = "none")
           /\ req' = [req EXCEPT ![r].pc = "wait", ![r].todo = todo, ![r].work = FirstWork(kind)]
     /\ UNCHANGED <<up, now, store, made, disk, sock, strays>>
-----------------------------------------------------------------------------
(***************************************************************************)
(* pack-link's worker, pack_one_link: directories, iterations that publish *)
(* frames (no two within 80 ms, so any iteration may publish none), then   *)
(* the result is saved with fs::write, which truncates the file and then   *)
(* fills it, in one or more writes.                                        *)
(***************************************************************************)
MakeDirectories(r) ==
  /\ req[r].work = "dirs"
  /\ \/ MakesDirectory(req[r].s) /\ WorkEnds(r, "run")
     \/ MayMakeDirectory(req[r].s) /\ WorkEnds(r, "error")
  /\ UNCHANGED <<up, now, store, made, sess, sock, strays>>

PublishFrame(r) ==
  /\ req[r].work = "run"
  /\ sess[req[r].s].live < MaxFrames
  /\ sess' = [sess EXCEPT ![req[r].s].live = @ + 1]
  /\ UNCHANGED <<up, now, store, made, disk, req, sock, strays>>

EndPacking(r) ==
  /\ req[r].work = "run"
  /\ \E end \in {"open", "error"} : WorkEnds(r, end)
  /\ UNCHANGED <<up, now, store, made, sess, disk, sock, strays>>

\* save makes the directory, then opens the file: either may fail.
Truncate(r) ==
  /\ req[r].work = "open"
  /\ \/ /\ disk' = [disk EXCEPT ![req[r].s].there = TRUE,
                              ![req[r].s].file = [@ EXCEPT ![req[r].link] = "cut"]]
        /\ req' = [req EXCEPT ![r].work = "write", ![r].fd = TRUE]
     \/ MayMakeDirectory(req[r].s) /\ WorkEnds(r, "error")
  /\ UNCHANGED <<up, now, store, made, sess, sock, strays>>

\* Over the text of another writer a shorter one leaves a tail behind, and a
\* write that fails leaves a part of its own: `spoilt'.
Texts(old, end) ==
  IF end = "torn" THEN {old, "spoilt"}
  ELSE IF old = "cut" THEN {"whole"} ELSE {"whole", "spoilt"}

Write(r) ==
  LET s == req[r].s
      l == req[r].link
  IN /\ req[r].work = "write"
     /\ \E end \in {"ok", "torn"} : \E text \in Texts(disk[s].file[l], end) :
          /\ disk' = IF req[r].fd THEN [disk EXCEPT ![s].file = [@ EXCEPT ![l] = text]] ELSE disk
          /\ req' = [req EXCEPT ![r].work = end, ![r].fd = FALSE]
     /\ UNCHANGED <<up, now, store, made, sess, sock, strays>>

(***************************************************************************)
(* assemble and analyze read sphere files one after the other.  A file     *)
(* that is not there counts as unpacked for assemble and is an error for   *)
(* analyze, which saw it a moment ago; text that does not parse is an      *)
(* error for both.                                                         *)
(***************************************************************************)
\* A bug for the checks to find: any file that is there is taken for spheres.
ReadsAsAnything(text) == text # "none"
ReadsAsSpheres(text) == text = "whole"

ReadSpheres(r, l) ==
  LET text == disk[req[r].s].file[l]
  IN /\ req[r].work = "read" /\ l \in req[r].todo
     /\ req' =
          IF ReadsAsSpheres(text) THEN [req EXCEPT ![r].todo = @ \ {l}]
          ELSE IF text = "none" /\ req[r].kind = "assemble"
          THEN [req EXCEPT ![r].todo = @ \ {l}, ![r].missing = TRUE]
          ELSE [req EXCEPT ![r].work = "error", ![r].todo = {}]
     /\ UNCHANGED <<up, now, store, made, sess, disk, sock, strays>>

Scored(r) ==
  /\ req[r].work = "read" /\ req[r].todo = {} /\ req[r].kind = "analyze"
  /\ \E end \in {"ok", "error"} : WorkEnds(r, end)
  /\ UNCHANGED <<up, now, store, made, sess, disk, sock, strays>>

\* rewrite_urdf writes the spherical URDF even when collisions are missing.
WriteUrdf(r) ==
  /\ req[r].work = "read" /\ req[r].todo = {} /\ req[r].kind = "assemble"
  /\ \/ MakesDirectory(req[r].s) /\ WorkEnds(r, IF req[r].missing THEN "error" ELSE "ok")
     \/ MayMakeDirectory(req[r].s) /\ WorkEnds(r, "error")
  /\ UNCHANGED <<up, now, store, made, sess, sock, strays>>

\* A mesh that cannot be read becomes an error entry of mesh-stats, and a
\* failed answer of the others.
ReadMeshes(r) ==
  LET lost == IF req[r].work = "measure" THEN "errors" ELSE "error"
  IN /\ req[r].work \in {"measure", "view"}
     /\ WorkEnds(r, IF disk[req[r].s].package THEN "ok" ELSE lost)
     /\ UNCHANGED <<up, now, store, made, sess, disk, sock, strays>>

(***************************************************************************)
(* The handler takes the worker's result, or is dropped with its client    *)
(* while the worker runs on.                                               *)
(***************************************************************************)
\* A bug for the checks to find: the answer does not wait for the save.
FinishedEarly(r) == req[r].work \notin Busy \ {"write"}
Finished(r) == req[r].work \notin Busy

Status(end) ==
  IF end \in {"errors", "write"} THEN "ok" ELSE IF end = "torn" THEN "error" ELSE end

Respond(r) ==
  LET s == req[r].s
      end == req[r].work
  IN /\ req[r].pc = "wait" /\ Finished(r)
     /\ sess' =
          IF req[r].kind = "load" /\ end = "ok" THEN [sess EXCEPT ![s].report = TRUE]
          ELSE IF req[r].kind = "stats" THEN [sess EXCEPT ![s].stats = end]
          ELSE sess
     /\ Finish(r, Status(end))
     /\ UNCHANGED <<up, now, store, made, disk, sock, strays>>

Disconnect(r) ==
  /\ req[r].pc = "wait"
  /\ Finish(r, "dropped")
  /\ UNCHANGED <<up, now, store, made, sess, disk, sock, strays>>
-----------------------------------------------------------------------------
(***************************************************************************)
(* pack-live: peek, subscribe, and let go of the session; then whatever    *)
(* comes first of a new frame, the client and the tick of a second.  A     *)
(* frame is sent within its branch: until the client takes it, or the send *)
(* fails, nothing else is looked at.  `closed' is the end of the loop; the *)
(* close message after it may wait for the client as well.                 *)
(***************************************************************************)
\* A bug for the checks to find: the frame that is there counts as new.
SeenAtConnectNothing(s) == 0
SeenAtConnect(s) == sess[s].live

Connect(k, s) ==
  /\ up /\ sock[k].pc = "none" /\ s \in made
  /\ sock' = [sock EXCEPT ![k] =
       [pc |-> IF s \in store THEN "open" ELSE "closed", s |-> s,
        seen |-> SeenAtConnect(s), got |-> sess[s].live]]
  /\ UNCHANGED <<up, now, store, made, sess, disk, req, strays>>

Forward(k) ==
  /\ sock[k].pc = "open"
  /\ sock[k].seen # sess[sock[k].s].live
  /\ sock' = [sock EXCEPT ![k].pc = "sending", ![k].seen = sess[sock[k].s].live]
  /\ UNCHANGED <<up, now, store, made, sess, disk, req, strays>>

Sent(k) ==
  /\ sock[k].pc = "sending"
  /\ sock' = [sock EXCEPT ![k].pc = "open", ![k].got = sock[k].seen]
  /\ UNCHANGED <<up, now, store, made, sess, disk, req, strays>>

SocketCloses(k) ==
  /\ sock' = [sock EXCEPT ![k].pc = "closed"]
  /\ UNCHANGED <<up, now, store, made, sess, disk, req, strays>>

SendFails(k) == sock[k].pc = "sending" /\ SocketCloses(k)

\* changed() fails: the sender went with the session's last Arc.
SenderGone(k) ==
  /\ sock[k].pc = "open" /\ ~Alive(sock[k].s)
  /\ sock[k].seen = sess[sock[k].s].live
  /\ SocketCloses(k)

\* A bug for the checks to find: the tick asks whether anybody uses the session.
SessionGoneForAll(s) == ~Alive(s)
SessionGone(s) == s \notin store

CheckTick(k) ==
  /\ sock[k].pc = "open" /\ SessionGone(sock[k].s)
  /\ SocketCloses(k)

ClientLeaves(k) == sock[k].pc = "open" /\ SocketCloses(k)
-----------------------------------------------------------------------------
Advance ==
  /\ up /\ now < MaxTime
  /\ now' = now + 1
  /\ UNCHANGED <<up, store, made, sess, disk, req, sock, strays>>

\* Graceful shutdown waits for the handlers; the store's drop then deletes
\* every session it holds.  Workers without a handler may still run.
Shutdown ==
  /\ up
  /\ \A r \in Requests : req[r].pc \in {"new", "done"}
  /\ up' = FALSE
  /\ disk' \in {d \in [Sessions -> UNION {{disk[s]} \cup Removals(disk[s]) : s \in Sessions}] :
       \A s \in Sessions : d[s] \in IF s \in store THEN Removals(disk[s]) ELSE {disk[s]}}
  /\ strays' = strays \cup {s \in store : disk'[s].there \/ InTheMaking(s)}
  /\ req' = [r \in Requests |->
       IF req[r].s \in store THEN Unlinked(req[r], disk'[req[r].s].file) ELSE req[r]]
  /\ store' = {}
  /\ UNCHANGED <<now, made, sess, sock>>

RequestStep(r) ==
  \/ \E s \in made, l \in Links, kind \in Kinds : Begin(r, kind, s, l)
  \/ \E s \in Sessions : DeleteDirectory(r, s) \/ Create(r, s) \/ CreateFails(r, s)
  \/ Rejected(r) \/ CheckUpload(r) \/ Find(r) \/ Touch(r) \/ Respond(r) \/ Disconnect(r)

WorkerStep(r) ==
  \/ Upload(r) \/ MakeDirectories(r) \/ PublishFrame(r) \/ EndPacking(r)
  \/ Truncate(r) \/ Write(r)
  \/ \E l \in Links : ReadSpheres(r, l)
  \/ Scored(r) \/ WriteUrdf(r) \/ ReadMeshes(r)

SocketStep(k) ==
  \/ \E s \in Sessions : Connect(k, s)
  \/ Forward(k) \/ Sent(k) \/ SendFails(k)
  \/ SenderGone(k) \/ CheckTick(k) \/ ClientLeaves(k)

Next ==
  \/ \E r \in Requests : RequestStep(r) \/ WorkerStep(r)
  \/ \E k \in Sockets : SocketStep(k)
  \/ Advance \/ Shutdown

Spec == Init /\ [][Next]_vars

(***************************************************************************)
(* select! looks at its branches in random order, so neither a frame nor a *)
(* tick is passed over for ever, also when every other look is at a frame. *)
(* Nothing is assumed of clients, who need not take what is sent to them,  *)
(* of requests and of workers.                                             *)
(***************************************************************************)
Fairness == \A k \in Sockets : WF_vars(Forward(k)) /\ SF_vars(CheckTick(k))
FairSpec == Spec /\ Fairness
-----------------------------------------------------------------------------
Others(r, works) ==
  \E q \in Requests \ {r} :
    /\ req[q].s = req[r].s /\ req[q].link = req[r].link /\ req[q].kind = "pack"
    /\ req[q].work \in works

(***************************************************************************)
(* The map and the directories agree.  Whoever finds a session in the map  *)
(* finds its data: the directory, the package it reported, cached mesh     *)
(* statistics of meshes that were there (robot.rs:396), and a complete     *)
(* sphere file for every pack-link that succeeded (robot.rs:238).  Another *)
(* pack-link of the same link may undo that, since the file is truncated   *)
(* and filled in place (result.rs:45): while it writes, and for good when  *)
(* its write fails; two that write at once may spoil the file although     *)
(* both succeed.  And no directory is left behind: one that exists belongs *)
(* to a session of the map or is about to be deleted.  Left out are the    *)
(* strays: a creation or a removal that failed half-way (sessions.rs:104,  *)
(* 95, 138), and a session swept while a request was still making          *)
(* something in its directory (sessions.rs:82).                            *)
(***************************************************************************)
SpheresAreSafe(r) ==
  LET text == disk[req[r].s].file[req[r].link]
  IN \/ text = "whole"
     \/ text = "cut" /\ Others(r, {"write", "torn"})
     \/ text = "spoilt" /\ Others(r, {"write", "torn", "ok"})

DiskMatchesStore ==
  /\ \A s \in store : /\ disk[s].there /\ sess[s].stats # "errors"
                      /\ sess[s].report => disk[s].package
  /\ \A r \in Requests :
       req[r].kind = "pack" /\ req[r].answer = "ok" /\ req[r].s \in store => SpheresAreSafe(r)
  /\ \A s \in Sessions : disk[s].there =>
       s \in store \/ s \in strays \/ \E r \in Requests : s \in req[r].doomed

(***************************************************************************)
(* A spherical URDF is only returned when every link of the robot was      *)
(* packed: for each, some pack-link came to the end of its save, although  *)
(* files are read while others write them (robot.rs:260, assemble.rs:92).  *)
(***************************************************************************)
AssembleIsComplete ==
  \A r \in Requests : req[r].kind = "assemble" /\ req[r].answer = "ok" =>
    \A l \in Links : \E q \in Requests :
      req[q].kind = "pack" /\ req[q].s = req[r].s /\ req[q].link = l /\ req[q].work = "ok"

(***************************************************************************)
(* A websocket only forwards frames newer than any it sent and than the    *)
(* frame of the moment it connected (robot.rs:310-312), however packs,     *)
(* sweeps, slow clients and reconnections interleave.                      *)
(***************************************************************************)
LiveFramesAreNew ==
  [][\A k \in Sockets : Sent(k) => sock'[k].got > sock[k].got]_vars

OnAir(k) == sock[k].pc \in {"open", "sending"}
Lags(k) == OnAir(k) /\ sock[k].got # sess[sock[k].s].live

(***************************************************************************)
(* A websocket whose client takes what it is sent keeps up: it sends the   *)
(* frames there are or closes, and it closes once its session has left the *)
(* map, even while a worker whose client is gone packs on and keeps the    *)
(* channel open (robot.rs:330).                                            *)
(***************************************************************************)
SocketsKeepUp ==
  \A k \in Sockets :
    /\ OnAir(k) /\ sock[k].s \notin store ~> sock[k].pc = "closed" \/ [](sock[k].pc = "sending")
    /\ Lags(k) ~> ~Lags(k) \/ [](sock[k].pc = "sending")
=============================================================================
