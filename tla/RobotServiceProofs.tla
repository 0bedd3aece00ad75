------------------------- MODULE RobotServiceProofs -------------------------
(***************************************************************************)
(* Three promises of the web service's robot mode, for any number of       *)
(* sessions, requests, workers and websockets.                             *)
(*                                                                         *)
(* A spherical URDF is only returned when every link was packed: whatever  *)
(* is read as spheres was saved by a worker that came to its end (Saved),  *)
(* and a reader has seen that of every link it has read (Fine).            *)
(*                                                                         *)
(* A websocket never sends a frame twice: what it has seen is never ahead  *)
(* of its session's frames, which are only counted up (Behind).            *)
(*                                                                         *)
(* The map and the directories agree: whoever puts something in a session  *)
(* uses one of the map, about to be deleted or known to stray (Placed), a  *)
(* file is what its only writer left, and only a writer that is not done   *)
(* or failed leaves it empty (Filed), and the directory and the package    *)
(* are there for every session of the map (Matched).                       *)
(***************************************************************************)
EXTENDS RobotService, TLAPS

Fields == {"pc", "kind", "s", "link", "doomed", "work", "fd", "todo", "missing", "answer"}

\* The worker of some pack-link of this session and link has saved.
Packed(s, l) ==
  \E q \in Requests :
    req[q].kind = "pack" /\ req[q].s = s /\ req[q].link = l /\ req[q].work = "ok"

\* What holds of each request.
Fine(x) ==
  /\ DOMAIN x = Fields
  /\ x.pc \in {"new", "clean", "touch"} => x.work = "none" /\ x.answer # "ok" /\ ~x.missing
  /\ x.pc \in {"clean", "touch"} => x.kind \in Kinds
  /\ x.work \in {"dirs", "run", "open", "write", "torn"} => x.kind = "pack"
  /\ x.work = "upload" => x.kind = "load"
  /\ x.work \in {"measure", "errors"} => x.kind = "stats"
  /\ x.work = "view" => x.kind = "view"
  /\ x.work = "read" => x.kind \in {"assemble", "analyze"}
  /\ x.pc = "touch" \/ x.work # "none" => x.s \in Sessions
  /\ x.kind = "assemble" =>
       /\ x.work \in {"read", "ok"} /\ ~x.missing => \A l \in Links \ x.todo : Packed(x.s, l)
       /\ x.work = "ok" => x.todo = {} /\ ~x.missing
       /\ x.answer = "ok" => x.work = "ok"

Files ==
  /\ store \subseteq Sessions
  /\ DOMAIN disk = Sessions
  /\ \A s \in Sessions : /\ DOMAIN disk[s] = {"there", "package", "file"}
                         /\ DOMAIN disk[s].file = Links

Saved == \A s \in Sessions : \A l \in Links : disk[s].file[l] = "whole" => Packed(s, l)

IInv ==
  /\ DOMAIN req = Requests /\ \A r \in Requests : Fine(req[r])
  /\ Files
  /\ Saved
-----------------------------------------------------------------------------
\* A request whose saved spheres count keeps what identifies them.
Stays(x, y) ==
  x.kind = "pack" /\ x.work = "ok" =>
    y.kind = "pack" /\ y.work = "ok" /\ y.s = x.s /\ y.link = x.link

(***************************************************************************)
(* A step that leaves every request as fine as it was, seen with the saves *)
(* before it, and puts no spheres on disk but those of a finished save,    *)
(* keeps the invariant.                                                    *)
(***************************************************************************)
LEMMA FineSteps ==
  ASSUME IInv, Files', DOMAIN req' = Requests,
         \A r \in Requests : Fine(req'[r]) /\ Stays(req[r], req'[r]),
         \A s \in Sessions : \A l \in Links : disk'[s].file[l] = "whole" =>
            \/ disk[s].file[l] = "whole"
            \/ \E r \in Requests : /\ req'[r].kind = "pack" /\ req'[r].work = "ok"
                                   /\ req'[r].s = s /\ req'[r].link = l
  PROVE  IInv'
<1>1. ASSUME NEW s, NEW l, Packed(s, l)
      PROVE  Packed(s, l)'
  BY <1>1 DEF Packed, Stays
<1>2. ASSUME NEW r \in Requests
      PROVE  Fine(req[r])'
  <2>1. Fine(req'[r])
    OBVIOUS
  <2> QED
    BY <2>1, <1>1 DEF Fine
<1>3. Saved'
  BY <1>1 DEF IInv, Saved, Packed
<1> QED
  BY <1>2, <1>3 DEF IInv

\* The same for a step of one request.
LEMMA OneRequestAndFile ==
  ASSUME IInv, NEW r \in Requests, NEW x, req' = [req EXCEPT ![r] = x],
         Fine(x), Stays(req[r], x), Files',
         \A s \in Sessions : \A l \in Links : disk'[s].file[l] = "whole" =>
            \/ disk[s].file[l] = "whole"
            \/ x.kind = "pack" /\ x.work = "ok" /\ x.s = s /\ x.link = l
  PROVE  IInv'
<1>1. req'[r] = x
  BY DEF IInv
<1>2. \A q \in Requests : Fine(req'[q]) /\ Stays(req[q], req'[q])
  <2> TAKE q \in Requests
  <2>1. CASE q = r
    BY <2>1 DEF IInv
  <2>2. CASE q # r
    BY <2>2 DEF IInv, Stays
  <2> QED
    BY <2>1, <2>2
<1>3. DOMAIN req' = Requests
  BY DEF IInv
<1> QED
  BY <1>1, <1>2, <1>3, FineSteps

\* The same for a step that leaves the files.
LEMMA OneRequest ==
  ASSUME IInv, NEW r \in Requests, NEW x, req' = [req EXCEPT ![r] = x],
         Fine(x), Stays(req[r], x), disk' = disk, store' \subseteq store
  PROVE  IInv'
BY OneRequestAndFile DEF IInv, Files

\* The invariant holds when the server starts.
LEMMA IInvInit == Init => IInv
BY ServiceAssumption DEF Init, IInv, Files, Saved, Fine, Fields, NewRequest, NoFiles

\* An endpoint starts without a worker.
LEMMA BeginKeeps ==
  ASSUME IInv, NEW r \in Requests, NEW kind \in Kinds, NEW s, NEW l, Begin(r, kind, s, l)
  PROVE  IInv'
<1>1. Fine(req[r])
  BY DEF IInv
<1>2. IInv'
  <2> DEFINE x == [req[r] EXCEPT !.pc = "clean", !.kind = kind, !.doomed = Expired,
                                 !.s = IF kind = "load" THEN NoSession ELSE s,
                                 !.link = IF kind = "pack" THEN l ELSE @]
  <2>1. Fine(x) /\ Stays(req[r], x)
    BY <1>1 DEF Fine, Fields, Stays, Begin, Kinds
  <2>2. req' = [req EXCEPT ![r] = x]
    BY DEF Begin, Kinds
  <2>3. disk' = disk /\ store' \subseteq store
    BY DEF Begin, SweptStore
  <2> HIDE DEF x
  <2> QED
    BY <2>1, <2>2, <2>3, OneRequest
<1> QED
  BY <1>2 DEF Begin, Refuse, Finish

\* A rejected upload is answered.
LEMMA RejectedKeeps ==
  ASSUME IInv, NEW r \in Requests, Rejected(r)
  PROVE  IInv'
<1>1. Fine(req[r])
  BY DEF IInv
<1>2. IInv'
  <2> DEFINE x == [NewRequest EXCEPT !.pc = "done", !.answer = "error"]
  <2>1. Fine(x) /\ Stays(req[r], x)
    BY <1>1 DEF Fine, Fields, Stays, Rejected, Swept, Refuse, NewRequest
  <2>2. req' = [req EXCEPT ![r] = x]
    BY DEF Rejected, Swept, Refuse, NewRequest
  <2>3. disk' = disk /\ store' \subseteq store
    BY DEF Rejected, SweptStore
  <2> HIDE DEF x
  <2> QED
    BY <2>1, <2>2, <2>3, OneRequest
<1> QED
  BY <1>2 DEF Rejected, Refuse, Finish

\* An upload goes to its worker or is refused.
LEMMA CheckUploadKeeps ==
  ASSUME IInv, NEW r \in Requests, CheckUpload(r)
  PROVE  IInv'
<1>1. Fine(req[r])
  BY DEF IInv
<1>2. CASE req' = [req EXCEPT ![r].pc = "wait", ![r].work = "upload"]
  <2> DEFINE x == [req[r] EXCEPT !.pc = "wait", !.work = "upload"]
  <2>1. Fine(x) /\ Stays(req[r], x)
    BY <1>1, <1>2 DEF Fine, Fields, Stays, CheckUpload
  <2>2. req' = [req EXCEPT ![r] = x]
    BY <1>2 DEF CheckUpload
  <2>3. disk' = disk /\ store' \subseteq store
    BY DEF CheckUpload, SweptStore
  <2> HIDE DEF x
  <2> QED
    BY <2>1, <2>2, <2>3, OneRequest
<1>3. CASE Refuse(r)
  <2> DEFINE x == [NewRequest EXCEPT !.pc = "done", !.answer = "error"]
  <2>1. Fine(x) /\ Stays(req[r], x)
    BY <1>1, <1>3 DEF Fine, Fields, Stays, CheckUpload, Refuse, NewRequest
  <2>2. req' = [req EXCEPT ![r] = x]
    BY <1>3 DEF CheckUpload, Refuse, NewRequest
  <2>3. disk' = disk /\ store' \subseteq store
    BY DEF CheckUpload, SweptStore
  <2> HIDE DEF x
  <2> QED
    BY <2>1, <2>2, <2>3, OneRequest
<1>4. CASE req' = [req EXCEPT ![r].pc = "clean", ![r].answer = "error", ![r].doomed = DoomedUpload(req[r].s)]
  <2> DEFINE x == [req[r] EXCEPT !.pc = "clean", !.answer = "error", !.doomed = DoomedUpload(req[r].s)]
  <2>1. Fine(x) /\ Stays(req[r], x)
    BY <1>1, <1>4 DEF Fine, Fields, Stays, CheckUpload, Kinds
  <2>2. req' = [req EXCEPT ![r] = x]
    BY <1>4 DEF CheckUpload, Kinds
  <2>3. disk' = disk /\ store' \subseteq store
    BY DEF CheckUpload, SweptStore
  <2> HIDE DEF x
  <2> QED
    BY <2>1, <2>2, <2>3, OneRequest
<1> QED
  BY <1>2, <1>3, <1>4 DEF CheckUpload, Refuse, Finish

\* A request finds its session in the map or is refused.
LEMMA FindKeeps ==
  ASSUME IInv, NEW r \in Requests, Find(r)
  PROVE  IInv'
<1>1. Fine(req[r])
  BY DEF IInv
<1>4. req[r].s \in Sessions \/ Refuse(r)
  BY DEF IInv, Files, Find
<1>5. Refuse(r) => req'[r].pc = "done"
  BY DEF Refuse, NewRequest, IInv
<1>6. req' = [req EXCEPT ![r].pc = "touch"] => req'[r].pc = "touch"
  BY <1>1 DEF IInv, Fine, Fields
<1>2. CASE req' = [req EXCEPT ![r].pc = "touch"]
  <2> DEFINE x == [req[r] EXCEPT !.pc = "touch"]
  <2>1. Fine(x) /\ Stays(req[r], x)
    BY <1>1, <1>2, <1>4, <1>5, <1>6 DEF Fine, Fields, Stays, Find, Swept, Kinds, IInv
  <2>2. req' = [req EXCEPT ![r] = x]
    BY <1>2 DEF Find, Swept, Kinds, IInv, Files
  <2>3. disk' = disk /\ store' \subseteq store
    BY DEF Find, SweptStore
  <2> HIDE DEF x
  <2> QED
    BY <2>1, <2>2, <2>3, OneRequest
<1>3. CASE Refuse(r)
  <2> DEFINE x == [NewRequest EXCEPT !.pc = "done", !.answer = "error"]
  <2>1. Fine(x) /\ Stays(req[r], x)
    BY <1>1, <1>3 DEF Fine, Fields, Stays, Find, Swept, Refuse, NewRequest
  <2>2. req' = [req EXCEPT ![r] = x]
    BY <1>3 DEF Find, Swept, Refuse, NewRequest
  <2>3. disk' = disk /\ store' \subseteq store
    BY DEF Find, SweptStore
  <2> HIDE DEF x
  <2> QED
    BY <2>1, <2>2, <2>3, OneRequest
<1> QED
  BY <1>2, <1>3 DEF Find, Refuse, Finish

\* A worker starts with everything still to read.
LEMMA TouchKeeps ==
  ASSUME IInv, NEW r \in Requests, Touch(r)
  PROVE  IInv'
<1>1. Fine(req[r])
  BY DEF IInv
<1>2. CASE Refuse(r)
  <2> DEFINE x == [NewRequest EXCEPT !.pc = "done", !.answer = "error"]
  <2>1. Fine(x) /\ Stays(req[r], x)
    BY <1>1, <1>2 DEF Fine, Fields, Stays, Touch, Refuse, NewRequest
  <2>2. req' = [req EXCEPT ![r] = x]
    BY <1>2 DEF Touch, Refuse, NewRequest
  <2>3. disk' = disk /\ store' \subseteq store
    BY DEF Touch, SweptStore
  <2> HIDE DEF x
  <2> QED
    BY <2>1, <2>2, <2>3, OneRequest
<1>3. CASE req[r].kind = "stats" /\ Finish(r, "ok")
  <2> DEFINE x == [req[r] EXCEPT !.pc = "done", !.answer = "ok"]
  <2>1. Fine(x) /\ Stays(req[r], x)
    BY <1>1, <1>3 DEF Fine, Fields, Stays, Touch, Finish
  <2>2. req' = [req EXCEPT ![r] = x]
    BY <1>3 DEF Touch, Finish
  <2>3. disk' = disk /\ store' \subseteq store
    BY DEF Touch, SweptStore
  <2> HIDE DEF x
  <2> QED
    BY <2>1, <2>2, <2>3, OneRequest
<1>4. CASE LET todo == IF req[r].kind = "analyze" THEN OnDisk(req[r].s) ELSE Links
            IN  req' = [req EXCEPT ![r].pc = "wait", ![r].todo = todo, ![r].work = FirstWork(req[r].kind)]
  <2> DEFINE x == [req[r] EXCEPT !.pc = "wait",
                                 !.todo = IF req[r].kind = "analyze" THEN OnDisk(req[r].s) ELSE Links,
                                 !.work = FirstWork(req[r].kind)]
  <2>1. Fine(x) /\ Stays(req[r], x)
    BY <1>1, <1>4 DEF Fine, Fields, Stays, Touch, FirstWork, Kinds
  <2>2. req' = [req EXCEPT ![r] = x]
    BY <1>4 DEF Touch, FirstWork, Kinds
  <2>3. disk' = disk /\ store' \subseteq store
    BY DEF Touch, SweptStore
  <2> HIDE DEF x
  <2> QED
    BY <2>1, <2>2, <2>3, OneRequest
<1> QED
  BY <1>2, <1>3, <1>4 DEF Touch, Refuse, Finish

\* A pack that ended has not saved yet.
LEMMA EndPackingKeeps ==
  ASSUME IInv, NEW r \in Requests, EndPacking(r)
  PROVE  IInv'
<1>1. Fine(req[r])
  BY DEF IInv
<1>2. CASE req' = [req EXCEPT ![r].work = "open"]
  <2> DEFINE x == [req[r] EXCEPT !.work = "open"]
  <2>1. Fine(x) /\ Stays(req[r], x)
    BY <1>1, <1>2 DEF Fine, Fields, Stays, EndPacking, WorkEnds
  <2>2. req' = [req EXCEPT ![r] = x]
    BY <1>2 DEF EndPacking, WorkEnds
  <2>3. disk' = disk /\ store' \subseteq store
    BY DEF EndPacking, WorkEnds, SweptStore
  <2> HIDE DEF x
  <2> QED
    BY <2>1, <2>2, <2>3, OneRequest
<1>3. CASE req' = [req EXCEPT ![r].work = "error"]
  <2> DEFINE x == [req[r] EXCEPT !.work = "error"]
  <2>1. Fine(x) /\ Stays(req[r], x)
    BY <1>1, <1>3 DEF Fine, Fields, Stays, EndPacking, WorkEnds
  <2>2. req' = [req EXCEPT ![r] = x]
    BY <1>3 DEF EndPacking, WorkEnds
  <2>3. disk' = disk /\ store' \subseteq store
    BY DEF EndPacking, WorkEnds, SweptStore
  <2> HIDE DEF x
  <2> QED
    BY <2>1, <2>2, <2>3, OneRequest
<1> QED
  BY <1>2, <1>3 DEF EndPacking, WorkEnds

\* An analysis returns no URDF.
LEMMA ScoredKeeps ==
  ASSUME IInv, NEW r \in Requests, Scored(r)
  PROVE  IInv'
<1>1. Fine(req[r])
  BY DEF IInv
<1>2. CASE req' = [req EXCEPT ![r].work = "ok"]
  <2> DEFINE x == [req[r] EXCEPT !.work = "ok"]
  <2>1. Fine(x) /\ Stays(req[r], x)
    BY <1>1, <1>2 DEF Fine, Fields, Stays, Scored, WorkEnds
  <2>2. req' = [req EXCEPT ![r] = x]
    BY <1>2 DEF Scored, WorkEnds
  <2>3. disk' = disk /\ store' \subseteq store
    BY DEF Scored, WorkEnds, SweptStore
  <2> HIDE DEF x
  <2> QED
    BY <2>1, <2>2, <2>3, OneRequest
<1>3. CASE req' = [req EXCEPT ![r].work = "error"]
  <2> DEFINE x == [req[r] EXCEPT !.work = "error"]
  <2>1. Fine(x) /\ Stays(req[r], x)
    BY <1>1, <1>3 DEF Fine, Fields, Stays, Scored, WorkEnds
  <2>2. req' = [req EXCEPT ![r] = x]
    BY <1>3 DEF Scored, WorkEnds
  <2>3. disk' = disk /\ store' \subseteq store
    BY DEF Scored, WorkEnds, SweptStore
  <2> HIDE DEF x
  <2> QED
    BY <2>1, <2>2, <2>3, OneRequest
<1> QED
  BY <1>2, <1>3 DEF Scored, WorkEnds

\* Neither do mesh statistics and views.
LEMMA ReadMeshesKeeps ==
  ASSUME IInv, NEW r \in Requests, ReadMeshes(r)
  PROVE  IInv'
<1>1. Fine(req[r])
  BY DEF IInv
<1>2. PICK end \in {"ok", "errors", "error"} :
        req' = [req EXCEPT ![r].work = end] /\ (end = "errors" => req[r].work = "measure")
  BY DEF ReadMeshes, WorkEnds
<1> DEFINE x == [req[r] EXCEPT !.work = end]
<1>3. Fine(x) /\ Stays(req[r], x)
  BY <1>1, <1>2 DEF Fine, Fields, Stays, ReadMeshes
<1>4. req' = [req EXCEPT ![r] = x]
  BY <1>2
<1>5. disk' = disk /\ store' \subseteq store
  BY DEF ReadMeshes
<1> HIDE DEF x
<1> QED
  BY <1>3, <1>4, <1>5, OneRequest

\* An answer of assemble is ok only if its worker was.
LEMMA RespondKeeps ==
  ASSUME IInv, NEW r \in Requests, Respond(r)
  PROVE  IInv'
<1>1. Fine(req[r])
  BY DEF IInv
<1>2. IInv'
  <2> DEFINE x == [req[r] EXCEPT !.pc = "done",
                                 !.answer = Status(req[r].work)]
  <2>1. Fine(x) /\ Stays(req[r], x)
    BY <1>1 DEF Fine, Fields, Stays, Respond, Finish, Finished, Busy, Status
  <2>2. req' = [req EXCEPT ![r] = x]
    BY DEF Respond, Finish, Finished, Busy, Status
  <2>3. disk' = disk /\ store' \subseteq store
    BY DEF Respond, SweptStore
  <2> HIDE DEF x
  <2> QED
    BY <2>1, <2>2, <2>3, OneRequest
<1> QED
  BY <1>2 DEF Respond, Refuse, Finish

\* A dropped request leaves its worker alone.
LEMMA DisconnectKeeps ==
  ASSUME IInv, NEW r \in Requests, Disconnect(r)
  PROVE  IInv'
<1>1. Fine(req[r])
  BY DEF IInv
<1>2. IInv'
  <2> DEFINE x == [req[r] EXCEPT !.pc = "done", !.answer = "dropped"]
  <2>1. Fine(x) /\ Stays(req[r], x)
    BY <1>1 DEF Fine, Fields, Stays, Disconnect, Finish
  <2>2. req' = [req EXCEPT ![r] = x]
    BY DEF Disconnect, Finish
  <2>3. disk' = disk /\ store' \subseteq store
    BY DEF Disconnect, SweptStore
  <2> HIDE DEF x
  <2> QED
    BY <2>1, <2>2, <2>3, OneRequest
<1> QED
  BY <1>2 DEF Disconnect, Refuse, Finish

\* What reads as spheres was saved.
LEMMA ReadSpheresKeeps ==
  ASSUME IInv, NEW r \in Requests, NEW l \in Links, ReadSpheres(r, l)
  PROVE  IInv'
<1>1. Fine(req[r])
  BY DEF IInv
<1>2. CASE ReadsAsSpheres(disk[req[r].s].file[l]) /\ req' = [req EXCEPT ![r].todo = @ \ {l}]
  <2> DEFINE x == [req[r] EXCEPT !.todo = @ \ {l}]
  <2>1. Fine(x) /\ Stays(req[r], x)
    BY <1>1, <1>2 DEF Fine, Fields, Stays, ReadSpheres, ReadsAsSpheres, IInv, Saved
  <2>2. req' = [req EXCEPT ![r] = x]
    BY <1>2 DEF ReadSpheres, ReadsAsSpheres, IInv, Saved
  <2>3. disk' = disk /\ store' \subseteq store
    BY DEF ReadSpheres, SweptStore
  <2> HIDE DEF x
  <2> QED
    BY <2>1, <2>2, <2>3, OneRequest
<1>3. CASE req' = [req EXCEPT ![r].todo = @ \ {l}, ![r].missing = TRUE]
  <2> DEFINE x == [req[r] EXCEPT !.todo = @ \ {l}, !.missing = TRUE]
  <2>1. Fine(x) /\ Stays(req[r], x)
    BY <1>1, <1>3 DEF Fine, Fields, Stays, ReadSpheres
  <2>2. req' = [req EXCEPT ![r] = x]
    BY <1>3 DEF ReadSpheres
  <2>3. disk' = disk /\ store' \subseteq store
    BY DEF ReadSpheres, SweptStore
  <2> HIDE DEF x
  <2> QED
    BY <2>1, <2>2, <2>3, OneRequest
<1>4. CASE req' = [req EXCEPT ![r].work = "error", ![r].todo = {}]
  <2> DEFINE x == [req[r] EXCEPT !.work = "error", !.todo = {}]
  <2>1. Fine(x) /\ Stays(req[r], x)
    BY <1>1, <1>4 DEF Fine, Fields, Stays, ReadSpheres
  <2>2. req' = [req EXCEPT ![r] = x]
    BY <1>4 DEF ReadSpheres
  <2>3. disk' = disk /\ store' \subseteq store
    BY DEF ReadSpheres, SweptStore
  <2> HIDE DEF x
  <2> QED
    BY <2>1, <2>2, <2>3, OneRequest
<1> QED
  BY <1>2, <1>3, <1>4 DEF ReadSpheres, Refuse, Finish

\* A new session has no files.
LEMMA CreateKeeps ==
  ASSUME IInv, NEW r \in Requests, NEW s \in Sessions, Create(r, s)
  PROVE  IInv'
<1>1. Fine(req[r])
  BY DEF IInv
<1>2. IInv'
  <2> DEFINE x == [req[r] EXCEPT !.s = s, !.pc = "touch"]
  <2>1. Fine(x) /\ Stays(req[r], x)
    BY <1>1 DEF Fine, Fields, Stays, Create, Swept, Kinds
  <2>2. req' = [req EXCEPT ![r] = x]
    BY DEF Create, Swept, Kinds
  <2>3. Files'
    BY DEF IInv, Files, Create, Nothing, NoFiles
  <2>4. \A t \in Sessions : \A l \in Links : disk'[t].file[l] = "whole" =>
          \/ disk[t].file[l] = "whole"
          \/ x.kind = "pack" /\ x.work = "ok" /\ x.s = t /\ x.link = l
    BY <1>1 DEF IInv, Files, Fine, Fields, Create, Nothing, NoFiles
  <2> HIDE DEF x
  <2> QED
    BY <2>1, <2>2, <2>3, <2>4, OneRequestAndFile
<1> QED
  BY <1>2 DEF Create

\* A creation that fails makes at most an empty directory.
LEMMA CreateFailsKeeps ==
  ASSUME IInv, NEW r \in Requests, NEW s \in Sessions, CreateFails(r, s)
  PROVE  IInv'
<1>1. Fine(req[r])
  BY DEF IInv
<1> DEFINE x == [NewRequest EXCEPT !.pc = "done", !.answer = "error"]
<1>2. Fine(x) /\ Stays(req[r], x)
  BY <1>1 DEF Fine, Fields, Stays, CreateFails, Swept, NewRequest
<1>3. req' = [req EXCEPT ![r] = x]
  BY DEF CreateFails, Refuse
<1>4. Files' /\ \A t \in Sessions : disk'[t].file = disk[t].file
  BY DEF IInv, Files, CreateFails
<1> HIDE DEF x
<1> QED
  BY <1>2, <1>3, <1>4, OneRequestAndFile

(***************************************************************************)
(* A worker's step that makes or misses directories and writes no spheres. *)
(***************************************************************************)
LEMMA WorkKeeps ==
  ASSUME IInv, NEW r \in Requests, NEW end, WorkEnds(r, end),
         end \in {"run", "ok", "error"},
         req[r].work # "ok", end = "run" => req[r].kind = "pack",
         end = "ok" => req[r].kind # "assemble" \/ (req[r].todo = {} /\ ~req[r].missing /\ req[r].work = "read"),
         store' = store, DOMAIN disk' = Sessions,
         \A s \in Sessions : /\ DOMAIN disk'[s] = {"there", "package", "file"}
                             /\ disk'[s].file = disk[s].file,
         req[r].work # "none"
  PROVE  IInv'
<1>1. Fine(req[r])
  BY DEF IInv
<1> DEFINE x == [req[r] EXCEPT !.work = end]
<1>2. Fine(x) /\ Stays(req[r], x)
  BY <1>1 DEF Fine, Fields, Stays
<1>3. req' = [req EXCEPT ![r] = x]
  BY DEF WorkEnds
<1>4. Files'
  BY DEF IInv, Files
<1> HIDE DEF x
<1> QED
  BY <1>2, <1>3, <1>4, OneRequestAndFile

\* create_dir_all, whole or half-way, leaves the files.
LEMMA DirectoriesKeepFiles ==
  ASSUME IInv, NEW s, MayMakeDirectory(s)
  PROVE  /\ DOMAIN disk' = Sessions
         /\ \A t \in Sessions : /\ DOMAIN disk'[t] = {"there", "package", "file"}
                                /\ disk'[t].file = disk[t].file
                                /\ disk'[t].package = disk[t].package
                                /\ disk[t].there => disk'[t].there
                                /\ disk'[t].there => disk[t].there \/ t = s
BY DEF IInv, Files, MayMakeDirectory, MakesDirectory

\* An upload saves no spheres.
LEMMA UploadKeeps ==
  ASSUME IInv, NEW r \in Requests, Upload(r)
  PROVE  IInv'
<1>1. Fine(req[r]) /\ req[r].work = "upload" /\ req[r].kind = "load" /\ store' = store
  BY DEF IInv, Upload, Fine
<1>2. CASE disk' = [disk EXCEPT ![req[r].s].there = TRUE, ![req[r].s].package = TRUE]
  <2>1. /\ DOMAIN disk' = Sessions
        /\ \A s \in Sessions : /\ DOMAIN disk'[s] = {"there", "package", "file"}
                               /\ disk'[s].file = disk[s].file
    BY <1>2 DEF IInv, Files
  <2>2. WorkEnds(r, "ok") \/ WorkEnds(r, "error")
    BY DEF Upload
  <2> QED
    BY <1>1, <2>1, <2>2, WorkKeeps
<1>3. CASE MayMakeDirectory(req[r].s) /\ WorkEnds(r, "error")
  BY <1>1, <1>3, WorkKeeps, DirectoriesKeepFiles
<1> QED
  BY <1>2, <1>3 DEF Upload

\* A new directory holds no spheres.
LEMMA MakeDirectoriesKeeps ==
  ASSUME IInv, NEW r \in Requests, MakeDirectories(r)
  PROVE  IInv'
<1>1. Fine(req[r]) /\ req[r].work = "dirs" /\ req[r].kind = "pack" /\ store' = store
  BY DEF IInv, MakeDirectories, Fine
<1>2. MayMakeDirectory(req[r].s) /\ (WorkEnds(r, "run") \/ WorkEnds(r, "error"))
  BY DEF MakeDirectories, MayMakeDirectory
<1> QED
  BY <1>1, <1>2, WorkKeeps, DirectoriesKeepFiles

\* The URDF is complete when nothing was missing.
LEMMA WriteUrdfKeeps ==
  ASSUME IInv, NEW r \in Requests, WriteUrdf(r)
  PROVE  IInv'
<1>1. /\ Fine(req[r]) /\ req[r].work = "read" /\ req[r].kind = "assemble" /\ req[r].todo = {}
      /\ store' = store
  BY DEF IInv, WriteUrdf
<1>2. /\ MayMakeDirectory(req[r].s)
      /\ (~req[r].missing /\ WorkEnds(r, "ok")) \/ WorkEnds(r, "error")
  BY DEF WriteUrdf, MayMakeDirectory
<1> QED
  BY <1>1, <1>2, WorkKeeps, DirectoriesKeepFiles

\* A file cut to nothing is not whole.
LEMMA TruncateKeeps ==
  ASSUME IInv, NEW r \in Requests, Truncate(r)
  PROVE  IInv'
<1>1. Fine(req[r]) /\ req[r].work = "open" /\ req[r].kind = "pack" /\ store' = store
  BY DEF IInv, Truncate, Fine
<1>2. CASE /\ disk' = [disk EXCEPT ![req[r].s].there = TRUE,
                                  ![req[r].s].file = [@ EXCEPT ![req[r].link] = "cut"]]
           /\ req' = [req EXCEPT ![r].work = "write", ![r].fd = TRUE]
  <2> DEFINE x == [req[r] EXCEPT !.work = "write", !.fd = TRUE]
  <2>1. Fine(x) /\ Stays(req[r], x)
    BY <1>1 DEF Fine, Fields, Stays
  <2>2. req' = [req EXCEPT ![r] = x]
    BY <1>2
  <2>3. Files'
    BY <1>1, <1>2 DEF IInv, Files
  <2>4. \A s \in Sessions : \A l \in Links : disk'[s].file[l] = "whole" => disk[s].file[l] = "whole"
    BY <1>2 DEF IInv, Files
  <2> HIDE DEF x
  <2> QED
    BY <2>1, <2>2, <2>3, <2>4, OneRequestAndFile
<1>3. CASE MayMakeDirectory(req[r].s) /\ WorkEnds(r, "error")
  BY <1>1, <1>3, WorkKeeps, DirectoriesKeepFiles
<1> QED
  BY <1>2, <1>3 DEF Truncate

\* A whole file comes with a worker that has ended.
LEMMA WriteKeeps ==
  ASSUME IInv, NEW r \in Requests, Write(r)
  PROVE  IInv'
<1>1. Fine(req[r]) /\ req[r].work = "write" /\ req[r].kind = "pack" /\ req[r].s \in Sessions
  BY DEF IInv, Write, Fine
<1>2. PICK end, text :
        /\ end \in {"ok", "torn"} /\ text \in Texts(disk[req[r].s].file[req[r].link], end)
        /\ disk' = IF req[r].fd THEN [disk EXCEPT ![req[r].s].file = [@ EXCEPT ![req[r].link] = text]]
                    ELSE disk
        /\ req' = [req EXCEPT ![r].work = end, ![r].fd = FALSE]
  BY DEF Write
<1> end \in {"ok", "torn"}
  BY <1>2
<1> DEFINE x == [req[r] EXCEPT !.work = end, !.fd = FALSE]
<1>3. Fine(x) /\ Stays(req[r], x)
  BY <1>1 DEF Fine, Fields, Stays
<1>4. req' = [req EXCEPT ![r] = x]
  BY <1>2
<1>5. Files'
  BY <1>1, <1>2 DEF IInv, Files, Write
<1>6. ASSUME NEW s \in Sessions, NEW l \in Links, disk'[s].file[l] = "whole"
      PROVE  \/ disk[s].file[l] = "whole"
             \/ x.kind = "pack" /\ x.work = "ok" /\ x.s = s /\ x.link = l
  <2>1. CASE s = req[r].s /\ l = req[r].link
    <3>1. x.kind = "pack" /\ x.work = end /\ x.s = s /\ x.link = l
      BY <1>1, <2>1 DEF Fine, Fields
    <3>2. CASE end = "torn"
      <4>1. text \in {disk[s].file[l], "spoilt"}
        BY <1>2, <2>1, <3>2 DEF Texts
      <4>2. disk'[s].file[l] = IF req[r].fd THEN text ELSE disk[s].file[l]
        BY <1>1, <1>2, <2>1 DEF IInv, Files
      <4> QED
        BY <1>6, <4>1, <4>2
    <3> QED
      BY <3>1, <3>2
  <2>2. CASE ~(s = req[r].s /\ l = req[r].link)
    BY <1>1, <1>2, <1>6, <2>2 DEF IInv, Files
  <2> QED
    BY <2>1, <2>2
<1> HIDE DEF x
<1> QED
  BY <1>3, <1>4, <1>5, <1>6, OneRequestAndFile

\* Nothing changes but handles and what is left to delete.
OnlyCloses(x, y) ==
  y = x \/ y = [x EXCEPT !.fd = FALSE] \/ \E doomed : y = [x EXCEPT !.doomed = doomed]

\* A removal, whole or not, brings no spheres.
LEMMA RemovalsLoseFiles ==
  ASSUME NEW d, DOMAIN d.file = Links, NEW left \in Removals(d)
  PROVE  /\ DOMAIN left = {"there", "package", "file"} /\ DOMAIN left.file = Links
         /\ \A l \in Links : left.file[l] \in {"none", d.file[l]}
         /\ left.there => d.there
BY DEF Removals, Nothing, NoFiles, Remains

\* DeleteDirectory and the store's drop only close files and take them away.
LEMMA ClosedFiles ==
  ASSUME IInv, DOMAIN req' = Requests,
         \A q \in Requests : OnlyCloses(req[q], req'[q]),
         store' \subseteq store, DOMAIN disk' = Sessions,
         \A s \in Sessions : disk'[s] = disk[s] \/ disk'[s] \in Removals(disk[s])
  PROVE  IInv'
<1>1. ASSUME NEW q \in Requests
      PROVE  Fine(req'[q]) /\ Stays(req[q], req'[q])
  <2>1. Fine(req[q])
    BY DEF IInv
  <2>2. CASE req'[q] = req[q]
    BY <2>1, <2>2 DEF Stays
  <2>3. CASE req'[q] = [req[q] EXCEPT !.fd = FALSE]
    BY <2>1, <2>3 DEF Fine, Fields, Stays
  <2>4. ASSUME NEW doomed, req'[q] = [req[q] EXCEPT !.doomed = doomed]
        PROVE  Fine(req'[q]) /\ Stays(req[q], req'[q])
    BY <2>1, <2>4 DEF Fine, Fields, Stays
  <2> QED
    BY <2>2, <2>3, <2>4 DEF OnlyCloses
<1>2. ASSUME NEW s \in Sessions
      PROVE  /\ DOMAIN disk'[s] = {"there", "package", "file"} /\ DOMAIN disk'[s].file = Links
             /\ \A l \in Links : disk'[s].file[l] = "whole" => disk[s].file[l] = "whole"
  <2>1. DOMAIN disk[s] = {"there", "package", "file"} /\ DOMAIN disk[s].file = Links
    BY DEF IInv, Files
  <2>2. CASE disk'[s] \in Removals(disk[s])
    BY <2>1, <2>2, RemovalsLoseFiles
  <2> QED
    BY <2>1, <2>2
<1>3. Files'
  BY <1>2 DEF IInv, Files
<1> QED
  BY <1>1, <1>2, <1>3, FineSteps

\* A sweep only takes files away.
LEMMA DeleteDirectoryKeeps ==
  ASSUME IInv, NEW r \in Requests, NEW s \in Sessions, DeleteDirectory(r, s)
  PROVE  IInv'
<1>1. PICK left \in Removals(disk[s]) :
        /\ disk' = [disk EXCEPT ![s] = left]
        /\ req' = [q \in Requests |->
             IF q = r THEN [req[r] EXCEPT !.doomed = @ \ {s}]
             ELSE IF req[q].s = s THEN Unlinked(req[q], left.file) ELSE req[q]]
  BY DEF DeleteDirectory
<1>2. ASSUME NEW q \in Requests
      PROVE  OnlyCloses(req[q], req'[q])
  BY <1>1 DEF OnlyCloses, Unlinked
<1>3. DOMAIN disk' = Sessions /\ \A t \in Sessions : disk'[t] = disk[t] \/ disk'[t] \in Removals(disk[t])
  BY <1>1 DEF IInv, Files
<1>4. DOMAIN req' = Requests /\ store' = store
  BY <1>1 DEF DeleteDirectory
<1> QED
  BY <1>2, <1>3, <1>4, ClosedFiles

\* So does the store's drop.
LEMMA ShutdownKeeps ==
  ASSUME IInv, Shutdown
  PROVE  IInv'
<1>1. ASSUME NEW q \in Requests
      PROVE  OnlyCloses(req[q], req'[q])
  BY DEF Shutdown, OnlyCloses, Unlinked
<1>2. DOMAIN disk' = Sessions /\ \A t \in Sessions : disk'[t] = disk[t] \/ disk'[t] \in Removals(disk[t])
  BY DEF Shutdown
<1>3. DOMAIN req' = Requests /\ store' = {}
  BY DEF Shutdown
<1> QED
  BY <1>1, <1>2, <1>3, ClosedFiles

\* Every step keeps the invariant.
LEMMA IInvNext == IInv /\ [Next]_vars => IInv'
<1> SUFFICES ASSUME IInv, [Next]_vars PROVE IInv'
  OBVIOUS
<1>1. ASSUME UNCHANGED <<req, disk, store>>
      PROVE  IInv'
  <2>1. \A r \in Requests : Fine(req'[r]) /\ Stays(req[r], req'[r])
    BY <1>1 DEF IInv, Stays
  <2> QED
    BY <1>1, <2>1, FineSteps DEF IInv, Files
<1>2. CASE UNCHANGED vars
  BY <1>1, <1>2 DEF vars
<1>3. ASSUME NEW k \in Sockets, SocketStep(k)
      PROVE  IInv'
  BY <1>1, <1>3 DEF SocketStep, Connect, Forward, Sent, SendFails, SenderGone, CheckTick, ClientLeaves, SocketCloses
<1>4. CASE Advance
  BY <1>1, <1>4 DEF Advance
<1>5. ASSUME NEW r \in Requests, PublishFrame(r)
      PROVE  IInv'
  BY <1>1, <1>5 DEF PublishFrame
<1>6. ASSUME NEW r \in Requests, RequestStep(r)
      PROVE  IInv'
  BY <1>6, BeginKeeps, DeleteDirectoryKeeps, CreateKeeps, CreateFailsKeeps, RejectedKeeps, CheckUploadKeeps, FindKeeps,
     TouchKeeps, RespondKeeps, DisconnectKeeps DEF RequestStep
<1>7. ASSUME NEW r \in Requests, WorkerStep(r)
      PROVE  IInv'
  BY <1>5, <1>7, UploadKeeps, MakeDirectoriesKeeps, EndPackingKeeps, TruncateKeeps, WriteKeeps,
     ReadSpheresKeeps, ScoredKeeps, WriteUrdfKeeps, ReadMeshesKeeps DEF WorkerStep
<1> QED
  BY <1>2, <1>3, <1>4, <1>6, <1>7, ShutdownKeeps DEF Next

(***************************************************************************)
(* A spherical URDF is only returned when every link of the robot was      *)
(* packed (robot.rs, assemble), although files are read while others write *)
(* them, sessions expire and clients leave.                                *)
(***************************************************************************)
THEOREM AssembleIsAlwaysComplete == Spec => []AssembleIsComplete
<1>1. IInv => AssembleIsComplete
  <2> SUFFICES ASSUME IInv, NEW r \in Requests, req[r].kind = "assemble", req[r].answer = "ok",
                         NEW l \in Links
               PROVE  Packed(req[r].s, l)
    BY DEF AssembleIsComplete, Packed
  <2> QED
    BY DEF IInv, Fine
<1> QED
  BY <1>1, IInvInit, IInvNext, PTL DEF Spec
-----------------------------------------------------------------------------

Frames ==
  /\ made \subseteq Sessions
  /\ DOMAIN sess = Sessions
  /\ \A s \in Sessions : DOMAIN sess[s] = {"report", "access", "live", "stats"} /\ sess[s].live \in Nat

\* What an open websocket has seen it has sent, one that sends has seen more
\* than it has sent, and neither is ever ahead.
Behind ==
  /\ DOMAIN sock = Sockets
  /\ \A k \in Sockets :
       /\ DOMAIN sock[k] = {"pc", "s", "seen", "got"}
       /\ sock[k].pc = "open" =>
            /\ sock[k].s \in made
            /\ sock[k].seen = sock[k].got /\ sock[k].got \in Nat
            /\ sock[k].got <= sess[sock[k].s].live
       /\ sock[k].pc = "sending" =>
            /\ sock[k].s \in made
            /\ sock[k].seen \in Nat /\ sock[k].got \in Nat
            /\ sock[k].got < sock[k].seen /\ sock[k].seen <= sess[sock[k].s].live

LiveInv == Frames /\ Behind

\* Frames are only counted up, for the sessions that were made.
LEMMA FramesCountUp ==
  ASSUME Frames, [Next]_vars
  PROVE  /\ Frames'
         /\ made \subseteq made'
         /\ \A s \in made : sess[s].live <= sess'[s].live
<1> USE DEF Frames
<1>1. ASSUME UNCHANGED <<made, sess>>
      PROVE  Frames' /\ made \subseteq made' /\ \A s \in made : sess[s].live <= sess'[s].live
  BY <1>1
<1>2. ASSUME NEW r \in Requests, NEW s \in Sessions, Create(r, s)
      PROVE  Frames' /\ made \subseteq made' /\ \A t \in made : sess[t].live <= sess'[t].live
  <2>1. /\ s \notin made /\ made' = made \cup {s}
        /\ sess' = [sess EXCEPT ![s] = NewSession]
    BY <1>2 DEF Create
  <2> QED
    BY <2>1 DEF NewSession
<1>3. ASSUME NEW r \in Requests, Touch(r)
      PROVE  Frames' /\ made \subseteq made' /\ \A s \in made : sess[s].live <= sess'[s].live
  <2>1. sess' = [sess EXCEPT ![req[r].s].access = now] /\ made' = made
    BY <1>3 DEF Touch
  <2> QED
    BY <2>1
<1>4. ASSUME NEW r \in Requests, PublishFrame(r)
      PROVE  Frames' /\ made \subseteq made' /\ \A s \in made : sess[s].live <= sess'[s].live
  <2>1. sess' = [sess EXCEPT ![req[r].s].live = @ + 1] /\ made' = made
    BY <1>4 DEF PublishFrame
  <2> QED
    BY <2>1
<1>5. ASSUME NEW r \in Requests, Respond(r)
      PROVE  Frames' /\ made \subseteq made' /\ \A s \in made : sess[s].live <= sess'[s].live
  <2>1. /\ made' = made
        /\ \/ sess' = [sess EXCEPT ![req[r].s].report = TRUE]
           \/ sess' = [sess EXCEPT ![req[r].s].stats = req[r].work]
           \/ sess' = sess
    BY <1>5 DEF Respond
  <2>2. CASE sess' = [sess EXCEPT ![req[r].s].report = TRUE]
    BY <2>1, <2>2
  <2>3. CASE sess' = [sess EXCEPT ![req[r].s].stats = req[r].work]
    BY <2>1, <2>3
  <2> QED
    BY <2>1, <2>2, <2>3
<1>6. ASSUME NEW r \in Requests, RequestStep(r)
      PROVE  \/ UNCHANGED <<made, sess>> \/ Touch(r) \/ Respond(r)
             \/ \E s \in Sessions : Create(r, s)
  BY <1>6 DEF RequestStep, Begin, DeleteDirectory, CreateFails, Rejected, CheckUpload, Find, Disconnect
<1>7. ASSUME NEW r \in Requests, WorkerStep(r)
      PROVE  UNCHANGED <<made, sess>> \/ PublishFrame(r)
  BY <1>7 DEF WorkerStep, Upload, MakeDirectories, EndPacking, Truncate, Write, ReadSpheres, Scored,
     WriteUrdf, ReadMeshes
<1>8. ASSUME NEW k \in Sockets, SocketStep(k)
      PROVE  UNCHANGED <<made, sess>>
  BY <1>8 DEF SocketStep, Connect, Forward, Sent, SendFails, SenderGone, CheckTick, ClientLeaves, SocketCloses
<1>9. Advance \/ Shutdown \/ UNCHANGED vars => UNCHANGED <<made, sess>>
  BY DEF Advance, Shutdown, vars
<1> QED
  BY <1>1, <1>2, <1>3, <1>4, <1>5, <1>6, <1>7, <1>8, <1>9 DEF Next

\* A websocket moves up to its session's frames or not at all.
LEMMA SocketsStayBehind ==
  ASSUME LiveInv, [Next]_vars
  PROVE  Behind'
<1> USE DEF LiveInv, Frames, Behind
<1>1. /\ made \subseteq made' /\ \A s \in made : sess[s].live <= sess'[s].live
      /\ \A s \in Sessions : sess'[s].live \in Nat
  BY FramesCountUp
<1>2. ASSUME sock' = sock
      PROVE  Behind'
  BY <1>1, <1>2
<1>3. ASSUME NEW k \in Sockets, SocketStep(k)
      PROVE  Behind'
  <2>1. CASE SocketCloses(k)
    BY <1>1, <2>1 DEF SocketCloses
  <2>2. ASSUME NEW s \in Sessions, Connect(k, s)
        PROVE  Behind'
    BY <1>1, <2>2 DEF Connect, SeenAtConnect
  <2>3. CASE Forward(k)
    <3>1. /\ sock[k].pc = "open" /\ sock[k].seen # sess[sock[k].s].live /\ sess' = sess /\ made' = made
          /\ sock' = [sock EXCEPT ![k].pc = "sending", ![k].seen = sess[sock[k].s].live]
      BY <2>3 DEF Forward
    <3> QED
      BY <1>1, <3>1
  <2>4. CASE Sent(k)
    <3>1. /\ sock[k].pc = "sending" /\ sess' = sess /\ made' = made
          /\ sock' = [sock EXCEPT ![k].pc = "open", ![k].got = sock[k].seen]
      BY <2>4 DEF Sent
    <3> QED
      BY <1>1, <3>1
  <2> QED
    BY <1>3, <2>1, <2>2, <2>3, <2>4 DEF SocketStep, SendFails, SenderGone, CheckTick, ClientLeaves
<1>4. ASSUME NEW r \in Requests, RequestStep(r)
      PROVE  sock' = sock
  BY <1>4 DEF RequestStep, Begin, DeleteDirectory, Create, CreateFails, Rejected, CheckUpload, Find, Touch,
         Respond, Disconnect
<1>5. ASSUME NEW r \in Requests, WorkerStep(r)
      PROVE  sock' = sock
  BY <1>5 DEF WorkerStep, Upload, MakeDirectories, PublishFrame, EndPacking, Truncate, Write, ReadSpheres,
     Scored, WriteUrdf, ReadMeshes
<1>6. Advance \/ Shutdown \/ UNCHANGED vars => sock' = sock
  BY DEF Advance, Shutdown, vars
<1> QED
  BY <1>2, <1>3, <1>4, <1>5, <1>6 DEF Next

(***************************************************************************)
(* A websocket only forwards frames newer than any it sent and than the    *)
(* frame of the moment it connected (robot.rs, follow_live), however slow  *)
(* its client takes them.                                                  *)
(***************************************************************************)
THEOREM LiveFramesAreAlwaysNew == Spec => LiveFramesAreNew
<1>1. Init => LiveInv
  BY ServiceAssumption DEF Init, LiveInv, Frames, Behind, NewSession
<1>2. LiveInv /\ [Next]_vars => LiveInv'
  BY FramesCountUp, SocketsStayBehind DEF LiveInv
<1>3. LiveInv /\ [Next]_vars => [\A k \in Sockets : Sent(k) => sock'[k].got > sock[k].got]_vars
  <2> SUFFICES ASSUME LiveInv, NEW k \in Sockets, Sent(k)
               PROVE  sock'[k].got > sock[k].got
    OBVIOUS
  <2>1. sock'[k].got = sock[k].seen /\ sock[k].pc = "sending"
    BY DEF Sent, LiveInv, Behind
  <2> QED
    BY <2>1 DEF LiveInv, Behind
<1> QED
  BY <1>1, <1>2, <1>3, PTL DEF Spec, LiveFramesAreNew
-----------------------------------------------------------------------------
\* A session of the map, one to be deleted, or one whose directory may stray.
Known(s) == s \in store \/ s \in strays \/ \E q \in Requests : s \in req[q].doomed

\* The worker of a pack-link has its file open, or has closed it.
Wrote(x) == x.kind = "pack" /\ x.work \in {"write", "torn", "ok"}

\* What holds of a request's link and session and of what it is about to delete.
Placed(x) ==
  /\ x.link \in Links
  /\ x.doomed \subseteq made \ store
  /\ x.pc # "clean" => x.doomed = {}
  /\ Makes(x) => Known(x.s)
  /\ x.pc = "touch" \/ x.work # "none" => x.s \in made
  /\ x.kind = "stats" /\ x.work = "errors" => x.s \notin store
  /\ x.kind = "pack" /\ x.answer = "ok" => x.work = "ok"
  /\ x.work = "measure" => sess[x.s].report
  /\ x.kind = "load" /\ x.work = "ok" /\ x.s \in store => disk[x.s].package

OthersWrote(r) == Others(r, {"write", "torn", "ok"})
OthersUndone(r) == Others(r, {"write", "torn"})

\* A file is empty only while a writer is not done or after it has failed, and
\* it is what its last writer left, unless there was another writer.
Filed(r) ==
  LET text == disk[req[r].s].file[req[r].link]
      work == req[r].work
  IN Wrote(req[r]) /\ req[r].s \in store =>
       /\ text \in {"cut", "spoilt", "whole"}
       /\ text = "cut" => work \in {"write", "torn"} \/ OthersUndone(r)
       /\ work = "write" => req[r].fd
       /\ OthersWrote(r) \/ text = [write |-> "cut", torn |-> text, ok |-> "whole"][work]

\* What holds of each session's directory, package and statistics.
Matched(s) ==
  /\ s \in store => /\ disk[s].there /\ sess[s].stats # "errors"
                    /\ sess[s].report => disk[s].package
  /\ disk[s].there => Known(s)

DiskInv ==
  /\ store \subseteq made
  /\ \A r \in Requests : Placed(req[r]) /\ Filed(r)
  /\ \A s \in Sessions : Matched(s)

\* A request y becomes x: it frees the sessions D, makes something only for a
\* session of the map or its own, and leaves a file that was written alone.
Quiet(y, x, D) ==
  /\ x.link \in Links
  /\ x.doomed = y.doomed \cup D
  /\ x.pc # "clean" => x.doomed = {}
  /\ Makes(x) => x.s \in store \/ (Makes(y) /\ x.s = y.s)
  /\ x.pc = "touch" \/ x.work # "none" => x.s \in made
  /\ x.kind = "stats" /\ x.work = "errors" => x.s \notin store
  /\ x.kind = "pack" /\ x.answer = "ok" => x.work = "ok"
  /\ x.work = "measure" => sess[x.s].report
  /\ x.kind = "load" /\ x.work = "ok" /\ x.s \in store => disk'[x.s].package
  /\ Wrote(x) \/ Wrote(y) =>
       x.kind = y.kind /\ x.s = y.s /\ x.link = y.link /\ x.work = y.work /\ x.fd = y.fd

\* No file or package goes, and a directory only comes with the request y or
\* is one that strays.
FilesStay(y) ==
  \A s \in Sessions :
    /\ disk'[s].file = disk[s].file
    /\ disk[s].package => disk'[s].package
    /\ disk[s].there => disk'[s].there
    /\ disk'[s].there => disk[s].there \/ s \in strays' \/ (Makes(y) /\ s = y.s)

StatsStay ==
  /\ \A s \in store : sess'[s].stats # "errors" /\ (sess'[s].report => disk'[s].package)
  /\ \A s \in Sessions : sess[s].report => sess'[s].report

\* Who knows a session and what was written do not change for the others.
LEMMA OthersStay ==
  ASSUME NEW q \in Requests, NEW works \in SUBSET {"write", "torn", "ok"},
         \A p \in Requests : Wrote(req[p]) =>
           /\ req'[p].kind = req[p].kind /\ req'[p].s = req[p].s /\ req'[p].link = req[p].link
           /\ req'[p].work = req[p].work,
         req'[q].s = req[q].s, req'[q].link = req[q].link, Others(q, works)
  PROVE  Others(q, works)'
BY DEF Others, Wrote

(***************************************************************************)
(* A step of one request that writes no sphere file and deletes nothing    *)
(* keeps the map and the directories in agreement.                         *)
(***************************************************************************)
LEMMA QuietStep ==
  ASSUME IInv, Frames, DiskInv, NEW r \in Requests, NEW x, NEW D \in SUBSET made,
         req' = [req EXCEPT ![r] = x], Quiet(req[r], x, D), FilesStay(req[r]), StatsStay,
         made' = made, strays \subseteq strays', store' = store \ D
  PROVE  DiskInv'
<1>1. /\ req'[r] = x /\ \A q \in Requests \ {r} : req'[q] = req[q]
      /\ DOMAIN req' = Requests
  BY DEF IInv
<1>2. ASSUME NEW s, Known(s)
      PROVE  Known(s)'
  <2>1. CASE s \in store
    BY <1>1, <2>1 DEF Known, Quiet
  <2>2. CASE s \in strays
    BY <2>2 DEF Known
  <2>3. ASSUME NEW q \in Requests, s \in req[q].doomed
        PROVE  Known(s)'
    BY <1>1, <2>3 DEF Known, Quiet
  <2> QED
    BY <1>2, <2>1, <2>2, <2>3 DEF Known
<1>3. Placed(req[r]) /\ store \subseteq made /\ made \subseteq Sessions
  BY DEF DiskInv, Frames
<1>4. Placed(x)'
  <2>1. x.doomed \subseteq made' \ store'
    BY <1>3 DEF Quiet, Placed
  <2>2. ASSUME Makes(x)
        PROVE  Known(x.s)'
    <3>1. CASE x.s \in store
      BY <1>2, <1>3, <3>1 DEF Known
    <3>2. CASE Makes(req[r]) /\ x.s = req[r].s
      BY <1>2, <1>3, <3>2 DEF Placed
    <3> QED
      BY <2>2, <3>1, <3>2 DEF Quiet
  <2>3. /\ x.link \in Links /\ (x.pc # "clean" => x.doomed = {})
        /\ x.pc = "touch" \/ x.work # "none" => x.s \in made'
        /\ x.kind = "stats" /\ x.work = "errors" => x.s \notin store'
        /\ x.kind = "pack" /\ x.answer = "ok" => x.work = "ok"
    BY DEF Quiet
  <2>4. x.work = "measure" => sess'[x.s].report
    BY <1>3, <2>3 DEF Quiet, StatsStay
  <2>5. x.kind = "load" /\ x.work = "ok" /\ x.s \in store' => disk'[x.s].package
    BY DEF Quiet
  <2> QED
    BY <2>1, <2>2, <2>3, <2>4, <2>5 DEF Placed, Makes
<1>5. ASSUME NEW q \in Requests
      PROVE  Placed(req[q])'
  <2>1. CASE q = r
    BY <1>1, <1>4, <2>1 DEF Placed, Makes
  <2>2. CASE q # r
    <3>1. Placed(req[q]) /\ req'[q] = req[q]
      BY <1>1, <2>2 DEF DiskInv
    <3>2. req[q].work = "measure" => sess'[req[q].s].report
      BY <1>3, <3>1 DEF Placed, StatsStay
    <3>3. req[q].kind = "load" /\ req[q].work = "ok" /\ req[q].s \in store' => disk'[req[q].s].package
      BY <1>3, <3>1 DEF Placed, FilesStay
    <3> QED
      BY <1>2, <3>1, <3>2, <3>3 DEF Placed, Makes
  <2> QED
    BY <2>1, <2>2
<1>6. ASSUME NEW q \in Requests
      PROVE  /\ Wrote(req'[q]) <=> Wrote(req[q])
             /\ Wrote(req[q]) =>
                  /\ req'[q].kind = req[q].kind /\ req'[q].s = req[q].s
                  /\ req'[q].link = req[q].link /\ req'[q].work = req[q].work
                  /\ req'[q].fd = req[q].fd
  BY <1>1 DEF Quiet, Wrote
<1>7. ASSUME NEW q \in Requests
      PROVE  Filed(q)'
  <2> SUFFICES ASSUME Wrote(req'[q]), req'[q].s \in store'
               PROVE  Filed(q)'
    BY DEF Filed, Wrote
  <2>1. /\ Wrote(req[q]) /\ req'[q].s = req[q].s /\ req'[q].link = req[q].link
        /\ req'[q].work = req[q].work /\ req'[q].fd = req[q].fd
    BY <1>6
  <2>2. req[q].s \in store /\ req[q].s \in Sessions
    BY <2>1 DEF IInv, Files
  <2>3. disk'[req[q].s].file = disk[req[q].s].file
    BY <2>2 DEF FilesStay
  <2>4. Filed(q)
    BY DEF DiskInv
  <2>5. /\ OthersWrote(q) => OthersWrote(q)'
        /\ OthersUndone(q) => OthersUndone(q)'
    BY <1>6, <2>1, OthersStay DEF OthersWrote, OthersUndone
  <2> QED
    BY <2>1, <2>2, <2>3, <2>4, <2>5 DEF Filed
<1>8. ASSUME NEW s \in Sessions
      PROVE  Matched(s)'
  <2>1. Matched(s)
    BY DEF DiskInv
  <2>2. s \in store' => /\ disk'[s].there /\ sess'[s].stats # "errors"
                        /\ sess'[s].report => disk'[s].package
    BY <2>1 DEF Matched, StatsStay, FilesStay
  <2>3. ASSUME disk'[s].there
        PROVE  Known(s)'
    <3>1. CASE disk[s].there
      BY <1>2, <2>1, <3>1 DEF Matched
    <3>2. CASE s \in strays'
      BY <3>2 DEF Known
    <3>3. CASE Makes(req[r]) /\ s = req[r].s
      BY <1>2, <1>3, <3>3 DEF Placed
    <3> QED
      BY <2>3, <3>1, <3>2, <3>3 DEF FilesStay
  <2> QED
    BY <2>2, <2>3 DEF Matched
<1> QED
  BY <1>3, <1>5, <1>7, <1>8 DEF DiskInv

\* There are links.
LEMMA AnyLinkIsLink == AnyLink \in Links
BY ServiceAssumption DEF AnyLink

\* A step that leaves the disk leaves what the map promises of it.
LEMMA DiskStays ==
  ASSUME IInv, DiskInv, disk' = disk, NEW y
  PROVE  FilesStay(y) /\ ((\A s \in Sessions : /\ sess'[s].stats = sess[s].stats
                                              /\ sess'[s].report = sess[s].report) => StatsStay)
BY DEF FilesStay, StatsStay, DiskInv, Matched, IInv, Files

\* A refused request is done with whatever it had.
LEMMA RefuseMatches ==
  ASSUME IInv, Frames, DiskInv, NEW r \in Requests, Refuse(r), req[r].doomed = {}, ~Wrote(req[r]),
         FilesStay(req[r]), StatsStay, made' = made, strays \subseteq strays', store' = store
  PROVE  DiskInv'
<1> DEFINE x == [NewRequest EXCEPT !.pc = "done", !.answer = "error"]
<1>1. Quiet(req[r], x, {})
  BY AnyLinkIsLink DEF Quiet, Makes, Wrote, Busy, NewRequest
<1>2. req' = [req EXCEPT ![r] = x]
  BY DEF Refuse
<1>3. {} \in SUBSET made /\ store' = store \ {}
  OBVIOUS
<1> HIDE DEF x
<1> QED
  BY <1>1, <1>2, <1>3, QuietStep

\* A worker comes to its next step or to its end without having saved.
LEMMA WorkMatches ==
  ASSUME IInv, Frames, DiskInv, NEW r \in Requests,
         NEW end \in {"run", "open", "ok", "error", "errors"}, WorkEnds(r, end),
         req[r].work \in Busy \ {"write"}, end = "ok" => req[r].kind # "pack",
         req[r].kind = "stats" /\ end = "errors" => req[r].s \notin store,
         req[r].kind = "load" /\ end = "ok" => disk'[req[r].s].package,
         FilesStay(req[r]), sess' = sess, made' = made, strays' = strays, store' = store
  PROVE  DiskInv'
<1>1. Fine(req[r]) /\ Placed(req[r])
  BY DEF IInv, DiskInv
<1> DEFINE x == [req[r] EXCEPT !.work = end]
<1>2. /\ x.pc = req[r].pc /\ x.kind = req[r].kind /\ x.s = req[r].s /\ x.link = req[r].link
      /\ x.doomed = req[r].doomed /\ x.answer = req[r].answer /\ x.work = end
  BY <1>1 DEF Fine, Fields
<1>3. req[r].work \notin {"none", "write", "torn", "ok"}
  BY DEF Busy
<1>4. req' = [req EXCEPT ![r] = x]
  BY DEF WorkEnds
<1> HIDE DEF x
<1>5. Quiet(req[r], x, {})
  <2>1. Makes(x) => Makes(req[r])
    BY <1>2 DEF Makes, Busy
  <2>2. ~Wrote(x) /\ ~Wrote(req[r])
    BY <1>2, <1>3 DEF Wrote
  <2> QED
    BY <1>1, <1>2, <1>3, <2>1, <2>2 DEF Placed, Quiet
<1>6. StatsStay
  BY DEF StatsStay, FilesStay, DiskInv, Matched, IInv, Files
<1>7. {} \in SUBSET made /\ store' = store \ {}
  OBVIOUS
<1> QED
  BY <1>4, <1>5, <1>6, <1>7, QuietStep

\* The sweep takes its sessions out of the map before their directories go.
LEMMA BeginMatches ==
  ASSUME IInv, Frames, DiskInv, NEW r \in Requests, NEW kind \in Kinds, NEW s, NEW l \in Links, Begin(r, kind, s, l)
  PROVE  DiskInv'
<1>1. Fine(req[r]) /\ Placed(req[r]) /\ store \subseteq made
  BY DEF IInv, DiskInv
<1>2. FilesStay(req[r]) /\ StatsStay
  BY DiskStays DEF Begin
<1> DEFINE x == [req[r] EXCEPT !.pc = "clean", !.kind = kind, !.doomed = Expired,
                               !.s = IF kind = "load" THEN NoSession ELSE s,
                               !.link = IF kind = "pack" THEN l ELSE @]
<1>3. Quiet(req[r], x, Expired)
  <2>1. req[r].pc = "new" /\ req[r].work = "none" /\ req[r].answer # "ok" /\ req[r].doomed = {}
    BY <1>1 DEF Begin, Fine, Placed
  <2>2. /\ x.pc = "clean" /\ x.work = "none" /\ x.answer # "ok" /\ x.doomed = Expired
        /\ x.link \in Links
    BY <1>1, <2>1 DEF Fine, Fields, Placed
  <2> HIDE DEF x
  <2> QED
    BY <2>1, <2>2 DEF Quiet, Makes, Wrote, Busy
<1>4. req' = [req EXCEPT ![r] = x]
  BY <1>1 DEF Begin, Fine, Fields
<1>5. Expired \in SUBSET made /\ store' = store \ Expired /\ made' = made /\ strays' = strays
  BY <1>1 DEF Begin, SweptStore, Expired
<1> HIDE DEF x
<1> QED
  BY <1>2, <1>3, <1>4, <1>5, QuietStep

\* A rejected upload has no session any more.
LEMMA RejectedMatches ==
  ASSUME IInv, Frames, DiskInv, NEW r \in Requests, Rejected(r)
  PROVE  DiskInv'
<1>1. req[r].doomed = {} /\ ~Wrote(req[r])
  BY DEF Rejected, Swept, IInv, Fine, Wrote
<1>2. FilesStay(req[r]) /\ StatsStay
  BY DiskStays DEF Rejected
<1> QED
  BY <1>1, <1>2, RefuseMatches DEF Rejected

\* A creation that fails leaves nothing, or a directory that strays.
LEMMA CreateFailsMatches ==
  ASSUME IInv, Frames, DiskInv, NEW r \in Requests, NEW s \in Sessions, CreateFails(r, s)
  PROVE  DiskInv'
<1>1. req[r].doomed = {} /\ ~Wrote(req[r])
  BY DEF CreateFails, Swept, IInv, Fine, Wrote
<1>2. FilesStay(req[r])
  <2>1. CASE disk' = disk
    BY <2>1, DiskStays
  <2>2. CASE disk' = [disk EXCEPT ![s].there = TRUE] /\ strays' = strays \cup {s}
    BY <2>2 DEF FilesStay, IInv, Files
  <2> QED
    BY <2>1, <2>2 DEF CreateFails
<1>3. StatsStay
  BY <1>2 DEF CreateFails, FilesStay, StatsStay, DiskInv, Matched, IInv, Files
<1>4. Refuse(r) /\ made' = made /\ store' = store /\ strays \subseteq strays'
  BY DEF CreateFails
<1> QED
  BY <1>1, <1>2, <1>3, <1>4, RefuseMatches

\* An upload that is too large takes its session out of the map.
LEMMA CheckUploadMatches ==
  ASSUME IInv, Frames, DiskInv, NEW r \in Requests, CheckUpload(r)
  PROVE  DiskInv'
<1>1. /\ Fine(req[r]) /\ Placed(req[r]) /\ req[r].pc = "touch" /\ req[r].kind = "load"
      /\ made' = made /\ strays' = strays
  BY DEF IInv, DiskInv, CheckUpload
<1>2. FilesStay(req[r]) /\ StatsStay
  BY DiskStays DEF CheckUpload
<1>3. req[r].work = "none" /\ req[r].answer # "ok" /\ req[r].doomed = {} /\ req[r].s \in made
  BY <1>1 DEF Fine, Placed
<1>4. CASE store' = store /\ req' = [req EXCEPT ![r].pc = "wait", ![r].work = "upload"]
  <2> DEFINE x == [req[r] EXCEPT !.pc = "wait", !.work = "upload"]
  <2>1. Quiet(req[r], x, {})
    BY <1>1, <1>3 DEF Fine, Fields, Placed, Quiet, Makes, Wrote
  <2>2. req' = [req EXCEPT ![r] = x]
    BY <1>4
  <2>3. {} \in SUBSET made /\ store' = store \ {}
    BY <1>4
  <2> HIDE DEF x
  <2> QED
    BY <1>1, <1>2, <2>1, <2>2, <2>3, QuietStep
<1>5. CASE store' = store /\ Refuse(r)
  BY <1>1, <1>2, <1>3, <1>5, RefuseMatches DEF Wrote
<1>6. CASE /\ store' = store \ {req[r].s}
           /\ req' = [req EXCEPT ![r].pc = "clean", ![r].answer = "error", ![r].doomed = DoomedUpload(req[r].s)]
  <2> DEFINE x == [req[r] EXCEPT !.pc = "clean", !.answer = "error", !.doomed = DoomedUpload(req[r].s)]
  <2>1. Quiet(req[r], x, {req[r].s})
    BY <1>1, <1>3 DEF Fine, Fields, Placed, Quiet, Makes, Wrote, Busy, DoomedUpload
  <2>2. req' = [req EXCEPT ![r] = x]
    BY <1>6
  <2>3. {req[r].s} \in SUBSET made /\ store' = store \ {req[r].s}
    BY <1>3, <1>6
  <2> HIDE DEF x
  <2> QED
    BY <1>1, <1>2, <2>1, <2>2, <2>3, QuietStep
<1> QED
  BY <1>4, <1>5, <1>6 DEF CheckUpload

\* A request uses a session it found in the map.
LEMMA FindMatches ==
  ASSUME IInv, Frames, DiskInv, NEW r \in Requests, Find(r)
  PROVE  DiskInv'
<1>1. /\ Fine(req[r]) /\ Placed(req[r]) /\ req[r].pc = "clean" /\ req[r].doomed = {}
      /\ store \subseteq made /\ made' = made /\ strays' = strays /\ store' = store
  BY DEF IInv, DiskInv, Find, Swept
<1>2. FilesStay(req[r]) /\ StatsStay
  BY DiskStays DEF Find
<1>3. req[r].work = "none" /\ req[r].answer # "ok"
  BY <1>1 DEF Fine
<1>4. CASE req[r].s \in store /\ req' = [req EXCEPT ![r].pc = "touch"]
  <2> DEFINE x == [req[r] EXCEPT !.pc = "touch"]
  <2>1. Quiet(req[r], x, {})
    BY <1>1, <1>3, <1>4 DEF Fine, Fields, Placed, Quiet, Makes, Wrote
  <2>2. req' = [req EXCEPT ![r] = x]
    BY <1>4
  <2>3. {} \in SUBSET made /\ store' = store \ {}
    BY <1>1
  <2> HIDE DEF x
  <2> QED
    BY <1>1, <1>2, <2>1, <2>2, <2>3, QuietStep
<1>5. CASE Refuse(r)
  BY <1>1, <1>2, <1>3, <1>5, RefuseMatches DEF Wrote
<1> QED
  BY <1>4, <1>5 DEF Find

\* Its time of use changes, not its statistics.
LEMMA TouchMatches ==
  ASSUME IInv, Frames, DiskInv, NEW r \in Requests, Touch(r)
  PROVE  DiskInv'
<1>1. /\ Fine(req[r]) /\ Placed(req[r]) /\ req[r].pc = "touch" /\ req[r].kind \in Kinds \ {"load"}
      /\ made' = made /\ strays' = strays /\ store' = store
  BY DEF IInv, DiskInv, Touch, Fine
<1>2. FilesStay(req[r]) /\ StatsStay
  <2>1. \A s \in Sessions : sess'[s].stats = sess[s].stats /\ sess'[s].report = sess[s].report
    BY DEF Touch, Frames
  <2> QED
    BY <2>1, DiskStays DEF Touch
<1>3. req[r].work = "none" /\ req[r].answer # "ok" /\ req[r].doomed = {} /\ req[r].s \in made
  BY <1>1 DEF Fine, Placed
<1>4. CASE Refuse(r)
  BY <1>1, <1>2, <1>3, <1>4, RefuseMatches DEF Wrote
<1>5. CASE req[r].kind = "stats" /\ Finish(r, "ok")
  <2> DEFINE x == [req[r] EXCEPT !.pc = "done", !.answer = "ok"]
  <2>1. Quiet(req[r], x, {})
    BY <1>1, <1>3, <1>5 DEF Fine, Fields, Placed, Quiet, Makes, Wrote, Busy
  <2>2. req' = [req EXCEPT ![r] = x]
    BY <1>5 DEF Finish
  <2>3. {} \in SUBSET made /\ store' = store \ {}
    BY <1>1
  <2> HIDE DEF x
  <2> QED
    BY <1>1, <1>2, <2>1, <2>2, <2>3, QuietStep
<1>6. ASSUME NEW todo, sess[req[r].s].report \/ req[r].kind = "view",
             req' = [req EXCEPT ![r].pc = "wait", ![r].todo = todo, ![r].work = FirstWork(req[r].kind)]
      PROVE  DiskInv'
  <2> DEFINE x == [req[r] EXCEPT !.pc = "wait", !.todo = todo, !.work = FirstWork(req[r].kind)]
  <2>1. /\ x.pc = "wait" /\ x.kind = req[r].kind /\ x.s = req[r].s /\ x.link = req[r].link
        /\ x.doomed = req[r].doomed /\ x.answer = req[r].answer /\ x.work = FirstWork(req[r].kind)
    BY <1>1 DEF Fine, Fields
  <2>2. /\ FirstWork(req[r].kind) \in {"dirs", "read", "measure", "view"}
        /\ FirstWork(req[r].kind) = "measure" => req[r].kind = "stats"
    BY <1>1 DEF FirstWork, Kinds
  <2>3. req' = [req EXCEPT ![r] = x]
    BY <1>6
  <2> HIDE DEF x
  <2>4. Makes(x) => Makes(req[r])
    BY <1>1, <2>1 DEF Makes
  <2>5. Quiet(req[r], x, {})
    BY <1>1, <1>3, <1>6, <2>1, <2>2, <2>4 DEF Placed, Quiet, Wrote
  <2>6. {} \in SUBSET made /\ store' = store \ {}
    BY <1>1
  <2> QED
    BY <1>1, <1>2, <2>3, <2>5, <2>6, QuietStep
<1> QED
  BY <1>4, <1>5, <1>6 DEF Touch

\* Statistics of missing meshes are those of a session that left the map, and
\* an upload that reports has left its package.
LEMMA RespondMatches ==
  ASSUME IInv, Frames, DiskInv, NEW r \in Requests, Respond(r)
  PROVE  DiskInv'
<1>1. /\ Fine(req[r]) /\ Placed(req[r]) /\ req[r].pc = "wait" /\ req[r].work \notin Busy
      /\ made' = made /\ strays' = strays /\ store' = store /\ disk' = disk /\ store \subseteq Sessions
  BY DEF IInv, Files, DiskInv, Respond, Finished
<1>2. FilesStay(req[r])
  BY <1>1, DiskStays
<1>3. StatsStay
  <2>1. \A s \in store : sess[s].stats # "errors" /\ (sess[s].report => disk[s].package)
    BY <1>1 DEF DiskInv, Matched
  <2>2. CASE /\ req[r].kind = "load" /\ req[r].work = "ok"
             /\ sess' = [sess EXCEPT ![req[r].s].report = TRUE]
    BY <1>1, <2>1, <2>2 DEF Placed, StatsStay, Frames
  <2>3. CASE req[r].kind = "stats" /\ sess' = [sess EXCEPT ![req[r].s].stats = req[r].work]
    BY <1>1, <2>1, <2>3 DEF Placed, StatsStay, Frames
  <2>4. CASE sess' = sess
    BY <1>1, <2>1, <2>4 DEF StatsStay
  <2> QED
    BY <2>2, <2>3, <2>4 DEF Respond
<1> DEFINE x == [req[r] EXCEPT !.pc = "done", !.answer = Status(req[r].work)]
<1>4. /\ x.pc = "done" /\ x.kind = req[r].kind /\ x.s = req[r].s /\ x.link = req[r].link
      /\ x.doomed = req[r].doomed /\ x.answer = Status(req[r].work) /\ x.work = req[r].work
      /\ x.fd = req[r].fd
  BY <1>1 DEF Fine, Fields
<1>5. req' = [req EXCEPT ![r] = x]
  BY DEF Respond, Finish
<1> HIDE DEF x
<1>6. Quiet(req[r], x, {})
  <2>1. ~Makes(x)
    BY <1>1, <1>4 DEF Makes
  <2>2. x.kind = "pack" /\ x.answer = "ok" => x.work = "ok"
    BY <1>1, <1>4 DEF Status, Busy, Fine
  <2> QED
    BY <1>1, <1>4, <2>1, <2>2 DEF Placed, Quiet
<1>7. {} \in SUBSET made /\ store' = store \ {}
  BY <1>1
<1> QED
  BY <1>1, <1>2, <1>3, <1>5, <1>6, <1>7, QuietStep

\* A dropped request leaves its worker alone.
LEMMA DisconnectMatches ==
  ASSUME IInv, Frames, DiskInv, NEW r \in Requests, Disconnect(r)
  PROVE  DiskInv'
<1>1. Fine(req[r]) /\ Placed(req[r]) /\ req[r].pc = "wait"
  BY DEF IInv, DiskInv, Disconnect
<1>2. FilesStay(req[r]) /\ StatsStay
  BY DiskStays DEF Disconnect
<1> DEFINE x == [req[r] EXCEPT !.pc = "done", !.answer = "dropped"]
<1>3. /\ x.pc = "done" /\ x.kind = req[r].kind /\ x.s = req[r].s /\ x.link = req[r].link
      /\ x.doomed = req[r].doomed /\ x.answer = "dropped" /\ x.work = req[r].work /\ x.fd = req[r].fd
  BY <1>1 DEF Fine, Fields
<1>4. req' = [req EXCEPT ![r] = x]
  BY DEF Disconnect, Finish
<1> HIDE DEF x
<1>5. Quiet(req[r], x, {})
  <2>1. Makes(x) => Makes(req[r])
    BY <1>3 DEF Makes
  <2> QED
    BY <1>1, <1>3, <2>1 DEF Disconnect, Placed, Quiet
<1>6. {} \in SUBSET made /\ store' = store \ {} /\ made' = made /\ strays' = strays
  BY DEF Disconnect
<1> QED
  BY <1>2, <1>4, <1>5, <1>6, QuietStep

\* create_dir_all, whole or half-way, by the maker of the session's files.
LEMMA DirectoriesStay ==
  ASSUME IInv, NEW y, Makes(y), MayMakeDirectory(y.s)
  PROVE  FilesStay(y)
BY DirectoriesKeepFiles DEF FilesStay

\* An upload makes its own session's directory, and a package if it succeeds.
LEMMA UploadMatches ==
  ASSUME IInv, Frames, DiskInv, NEW r \in Requests, Upload(r)
  PROVE  DiskInv'
<1>1. /\ Fine(req[r]) /\ req[r].work = "upload" /\ req[r].kind = "load" /\ req[r].s \in Sessions
      /\ sess' = sess /\ made' = made /\ strays' = strays /\ store' = store
  BY DEF IInv, Upload, Fine
<1>2. Makes(req[r]) /\ req[r].work \in Busy \ {"write"}
  BY <1>1 DEF Makes, Busy
<1>3. CASE disk' = [disk EXCEPT ![req[r].s].there = TRUE, ![req[r].s].package = TRUE]
  <2>1. FilesStay(req[r]) /\ disk'[req[r].s].package
    BY <1>1, <1>2, <1>3 DEF FilesStay, IInv, Files
  <2>2. WorkEnds(r, "ok") \/ WorkEnds(r, "error")
    BY DEF Upload
  <2> QED
    BY <1>1, <1>2, <2>1, <2>2, WorkMatches
<1>4. CASE MayMakeDirectory(req[r].s) /\ WorkEnds(r, "error")
  BY <1>1, <1>2, <1>4, DirectoriesStay, WorkMatches
<1> QED
  BY <1>3, <1>4 DEF Upload

\* So does a pack-link.
LEMMA MakeDirectoriesMatches ==
  ASSUME IInv, Frames, DiskInv, NEW r \in Requests, MakeDirectories(r)
  PROVE  DiskInv'
<1>1. /\ Fine(req[r]) /\ req[r].work = "dirs" /\ req[r].kind = "pack"
      /\ sess' = sess /\ made' = made /\ strays' = strays /\ store' = store
  BY DEF IInv, MakeDirectories, Fine
<1>2. Makes(req[r]) /\ req[r].work \in Busy \ {"write"}
  BY <1>1 DEF Makes, Busy
<1>3. MayMakeDirectory(req[r].s) /\ (WorkEnds(r, "run") \/ WorkEnds(r, "error"))
  BY DEF MakeDirectories, MayMakeDirectory
<1> QED
  BY <1>1, <1>2, <1>3, DirectoriesStay, WorkMatches

\* A pack that ends has no file yet.
LEMMA EndPackingMatches ==
  ASSUME IInv, Frames, DiskInv, NEW r \in Requests, EndPacking(r)
  PROVE  DiskInv'
<1>1. /\ Fine(req[r]) /\ req[r].work = "run" /\ req[r].kind = "pack" /\ disk' = disk
      /\ sess' = sess /\ made' = made /\ strays' = strays /\ store' = store
  BY DEF IInv, EndPacking, Fine
<1>2. req[r].work \in Busy \ {"write"} /\ FilesStay(req[r])
  BY <1>1, DiskStays DEF Busy
<1>3. WorkEnds(r, "open") \/ WorkEnds(r, "error")
  BY DEF EndPacking
<1> QED
  BY <1>1, <1>2, <1>3, WorkMatches

\* Readers change nothing.
LEMMA ReadSpheresMatches ==
  ASSUME IInv, Frames, DiskInv, NEW r \in Requests, NEW l \in Links, ReadSpheres(r, l)
  PROVE  DiskInv'
<1>1. Fine(req[r]) /\ Placed(req[r]) /\ req[r].work = "read" /\ req[r].kind \in {"assemble", "analyze"}
  BY DEF IInv, DiskInv, ReadSpheres, Fine
<1>2. FilesStay(req[r]) /\ StatsStay
  BY DiskStays DEF ReadSpheres
<1>3. ASSUME NEW x, req' = [req EXCEPT ![r] = x], x.work \in {"read", "error"},
             x.pc = req[r].pc, x.kind = req[r].kind, x.s = req[r].s, x.link = req[r].link,
             x.doomed = req[r].doomed
      PROVE  DiskInv'
  <2>1. Makes(x) => Makes(req[r])
    BY <1>1, <1>3 DEF Makes, Busy
  <2>2. ~Wrote(x) /\ ~Wrote(req[r])
    BY <1>1, <1>3 DEF Wrote
  <2>3. Quiet(req[r], x, {})
    BY <1>1, <1>3, <2>1, <2>2 DEF Placed, Quiet
  <2>4. {} \in SUBSET made /\ store' = store \ {} /\ made' = made /\ strays' = strays
    BY DEF ReadSpheres
  <2> QED
    BY <1>2, <1>3, <2>3, <2>4, QuietStep
<1>4. CASE req' = [req EXCEPT ![r].todo = @ \ {l}]
  <2> DEFINE x == [req[r] EXCEPT !.todo = @ \ {l}]
  <2>1. /\ x.work = "read" /\ x.pc = req[r].pc /\ x.kind = req[r].kind /\ x.s = req[r].s
        /\ x.link = req[r].link /\ x.doomed = req[r].doomed /\ req' = [req EXCEPT ![r] = x]
    BY <1>1, <1>4 DEF Fine, Fields
  <2> HIDE DEF x
  <2> QED
    BY <1>3, <2>1
<1>5. CASE req' = [req EXCEPT ![r].todo = @ \ {l}, ![r].missing = TRUE]
  <2> DEFINE x == [req[r] EXCEPT !.todo = @ \ {l}, !.missing = TRUE]
  <2>1. /\ x.work = "read" /\ x.pc = req[r].pc /\ x.kind = req[r].kind /\ x.s = req[r].s
        /\ x.link = req[r].link /\ x.doomed = req[r].doomed /\ req' = [req EXCEPT ![r] = x]
    BY <1>1, <1>5 DEF Fine, Fields
  <2> HIDE DEF x
  <2> QED
    BY <1>3, <2>1
<1>6. CASE req' = [req EXCEPT ![r].work = "error", ![r].todo = {}]
  <2> DEFINE x == [req[r] EXCEPT !.work = "error", !.todo = {}]
  <2>1. /\ x.work = "error" /\ x.pc = req[r].pc /\ x.kind = req[r].kind /\ x.s = req[r].s
        /\ x.link = req[r].link /\ x.doomed = req[r].doomed /\ req' = [req EXCEPT ![r] = x]
    BY <1>1, <1>6 DEF Fine, Fields
  <2> HIDE DEF x
  <2> QED
    BY <1>3, <2>1
<1> QED
  BY <1>4, <1>5, <1>6 DEF ReadSpheres

\* Nor does an analysis.
LEMMA ScoredMatches ==
  ASSUME IInv, Frames, DiskInv, NEW r \in Requests, Scored(r)
  PROVE  DiskInv'
<1>1. /\ req[r].work = "read" /\ req[r].kind = "analyze" /\ disk' = disk
      /\ sess' = sess /\ made' = made /\ strays' = strays /\ store' = store
  BY DEF Scored
<1>2. req[r].work \in Busy \ {"write"} /\ FilesStay(req[r])
  BY <1>1, DiskStays DEF Busy
<1>3. WorkEnds(r, "ok") \/ WorkEnds(r, "error")
  BY DEF Scored
<1> QED
  BY <1>1, <1>2, <1>3, WorkMatches

\* The URDF goes into the directory of a session in use.
LEMMA WriteUrdfMatches ==
  ASSUME IInv, Frames, DiskInv, NEW r \in Requests, WriteUrdf(r)
  PROVE  DiskInv'
<1>1. /\ req[r].work = "read" /\ req[r].kind = "assemble"
      /\ sess' = sess /\ made' = made /\ strays' = strays /\ store' = store
  BY DEF WriteUrdf
<1>2. Makes(req[r]) /\ req[r].work \in Busy \ {"write"}
  BY <1>1 DEF Makes, Busy
<1>3. MayMakeDirectory(req[r].s) /\ (WorkEnds(r, "ok") \/ WorkEnds(r, "error"))
  BY DEF WriteUrdf, MayMakeDirectory
<1> QED
  BY <1>1, <1>2, <1>3, DirectoriesStay, WorkMatches

\* Meshes are only missing when the session has left the map.
LEMMA ReadMeshesMatches ==
  ASSUME IInv, Frames, DiskInv, NEW r \in Requests, ReadMeshes(r)
  PROVE  DiskInv'
<1>1. /\ Fine(req[r]) /\ Placed(req[r]) /\ req[r].work \in {"measure", "view"}
      /\ req[r].kind \in {"stats", "view"} /\ disk' = disk /\ store \subseteq Sessions
      /\ sess' = sess /\ made' = made /\ strays' = strays /\ store' = store
  BY DEF IInv, Files, DiskInv, ReadMeshes, Fine
<1>2. req[r].work \in Busy \ {"write"} /\ FilesStay(req[r])
  BY <1>1, DiskStays DEF Busy
<1>3. PICK end \in {"ok", "error", "errors"} :
        WorkEnds(r, end) /\ (end = "errors" => req[r].work = "measure" /\ ~disk[req[r].s].package)
  BY DEF ReadMeshes
<1>4. end = "errors" => req[r].s \notin store
  BY <1>1, <1>3 DEF Placed, DiskInv, Matched
<1> QED
  BY <1>1, <1>2, <1>3, <1>4, WorkMatches

\* A sweep deletes directories of sessions that left the map.
LEMMA DeleteDirectoryMatches ==
  ASSUME IInv, Frames, DiskInv, NEW r \in Requests, NEW s \in Sessions, DeleteDirectory(r, s)
  PROVE  DiskInv'
<1>1. /\ Fine(req[r]) /\ Placed(req[r]) /\ s \notin store /\ s \in req[r].doomed
      /\ store' = store /\ made' = made /\ sess' = sess /\ strays \subseteq strays'
      /\ InTheMaking(s) => s \in strays'
      /\ \A t \in Sessions \ {s} : disk'[t] = disk[t]
      /\ disk'[s].there => s \in strays'
  BY DEF DeleteDirectory, IInv, Files, DiskInv, Placed
<1>2. ASSUME NEW q \in Requests
      PROVE  /\ req'[q].pc = req[q].pc /\ req'[q].kind = req[q].kind /\ req'[q].s = req[q].s
             /\ req'[q].link = req[q].link /\ req'[q].work = req[q].work
             /\ req'[q].answer = req[q].answer
             /\ req'[q].doomed \subseteq req[q].doomed /\ req[q].doomed \ {s} \subseteq req'[q].doomed
             /\ req[q].s # s => req'[q].fd = req[q].fd
  <2>1. PICK file :
          req'[q] = IF q = r THEN [req[r] EXCEPT !.doomed = @ \ {s}]
                    ELSE IF req[q].s = s THEN Unlinked(req[q], file) ELSE req[q]
    BY DEF DeleteDirectory
  <2>2. DOMAIN req[q] = Fields
    BY DEF IInv, Fine
  <2>3. CASE q = r
    BY <2>1, <2>2, <2>3 DEF Fields
  <2>4. CASE q # r /\ req[q].s = s
    BY <2>1, <2>2, <2>4 DEF Fields, Unlinked
  <2>5. CASE q # r /\ req[q].s # s
    BY <2>1, <2>5
  <2> QED
    BY <2>3, <2>4, <2>5
<1>3. ASSUME NEW t, Known(t), t # s
      PROVE  Known(t)'
  BY <1>1, <1>2, <1>3 DEF Known
<1>4. ASSUME NEW q \in Requests
      PROVE  Placed(req[q])'
  <2>1. Placed(req[q])
    BY DEF DiskInv
  <2>2. ASSUME Makes(req'[q])
        PROVE  Known(req[q].s)'
    <3>1. Makes(req[q])
      BY <1>2, <2>2 DEF Makes
    <3>2. CASE req[q].s = s
      BY <1>1, <1>2, <3>1, <3>2 DEF Known, InTheMaking
    <3>3. CASE req[q].s # s
      <4>1. Known(req[q].s)
        BY <2>1, <3>1 DEF Placed
      <4> QED
        BY <1>1, <1>2, <3>3, <4>1 DEF Known
    <3> QED
      BY <3>2, <3>3
  <2>3. req[q].s \in store => disk'[req[q].s] = disk[req[q].s]
    BY <1>1 DEF IInv, Files
  <2>4. /\ req'[q].doomed \subseteq made' \ store'
        /\ req'[q].pc # "clean" => req'[q].doomed = {}
    BY <1>1, <1>2, <2>1 DEF Placed
  <2> QED
    BY <1>1, <1>2, <2>1, <2>2, <2>3, <2>4 DEF Placed
<1>5. ASSUME NEW q \in Requests
      PROVE  Filed(q)'
  <2> SUFFICES ASSUME Wrote(req[q]), req[q].s \in store
               PROVE  Filed(q)'
    BY <1>1, <1>2 DEF Filed, Wrote
  <2>1. Filed(q) /\ req[q].s # s /\ disk'[req[q].s] = disk[req[q].s] /\ req'[q].fd = req[q].fd
    BY <1>1, <1>2 DEF DiskInv, IInv, Files
  <2>2. /\ OthersWrote(q) => OthersWrote(q)'
        /\ OthersUndone(q) => OthersUndone(q)'
    BY <1>2, OthersStay DEF OthersWrote, OthersUndone
  <2> QED
    BY <1>2, <2>1, <2>2 DEF Filed, Wrote
<1>6. ASSUME NEW t \in Sessions
      PROVE  Matched(t)'
  <2>1. CASE t = s
    BY <1>1, <2>1 DEF Matched, Known
  <2>2. CASE t # s
    <3>1. Matched(t) /\ disk'[t] = disk[t]
      BY <1>1, <2>2 DEF DiskInv
    <3> QED
      BY <1>1, <1>3, <2>2, <3>1 DEF Matched
  <2> QED
    BY <2>1, <2>2
<1> QED
  BY <1>1, <1>4, <1>5, <1>6 DEF DiskInv

\* A new session was never used before.
LEMMA CreateMatches ==
  ASSUME IInv, Frames, DiskInv, NEW r \in Requests, NEW s \in Sessions, Create(r, s)
  PROVE  DiskInv'
<1>1. /\ s \notin made /\ made' = made \cup {s} /\ store' = store \cup {s} /\ strays' = strays
      /\ \A t \in Sessions \ {s} : disk'[t] = disk[t] /\ sess'[t] = sess[t]
      /\ disk'[s].there /\ sess'[s].stats = "none" /\ ~sess'[s].report
      /\ store \subseteq made /\ made \subseteq Sessions
  BY DEF Create, IInv, Files, Frames, NewSession, Nothing, DiskInv
<1>2. /\ \A q \in Requests \ {r} : req'[q] = req[q]
      /\ req'[r].doomed = {} /\ req'[r].s = s /\ req'[r].work = "none" /\ req'[r].answer # "ok"
      /\ req'[r].link = req[r].link /\ Placed(req[r])
  BY DEF Create, Swept, IInv, Fine, Fields, DiskInv
<1>3. ~Wrote(req[r]) /\ req[r].doomed = {}
  BY DEF Create, Swept, IInv, Fine, Wrote
<1>4. ASSUME NEW t, Known(t)
      PROVE  Known(t)'
  BY <1>1, <1>2, <1>3, <1>4 DEF Known
<1>5. ASSUME NEW q \in Requests
      PROVE  Placed(req[q])'
  <2>1. CASE q = r
    BY <1>1, <1>2, <2>1 DEF Placed, Known
  <2>2. CASE q # r
    <3>1. Placed(req[q]) /\ req'[q] = req[q]
      BY <1>2, <2>2 DEF DiskInv
    <3>2. req[q].work # "none" => /\ req[q].s # s /\ disk'[req[q].s] = disk[req[q].s]
                                  /\ sess'[req[q].s] = sess[req[q].s]
      BY <1>1, <3>1 DEF Placed
    <3>3. Makes(req[q]) => Known(req[q].s)'
      BY <1>4, <3>1 DEF Placed
    <3>4. req[q].pc = "touch" \/ req[q].work # "none" => req[q].s \in made'
      BY <1>1, <3>1 DEF Placed
    <3>5. /\ req[q].doomed \subseteq made' \ store'
          /\ req[q].kind = "stats" /\ req[q].work = "errors" => req[q].s \notin store'
      BY <1>1, <3>1, <3>2 DEF Placed
    <3>6. req[q].kind = "load" /\ req[q].work = "ok" /\ req[q].s \in store' => disk'[req[q].s].package
      BY <1>1, <3>1, <3>2 DEF Placed
    <3>7. req[q].work = "measure" => sess'[req[q].s].report
      BY <3>1, <3>2 DEF Placed
    <3> QED
      BY <3>1, <3>3, <3>4, <3>5, <3>6, <3>7 DEF Placed, Makes
  <2> QED
    BY <2>1, <2>2
<1>6. ASSUME NEW q \in Requests
      PROVE  Filed(q)'
  <2> SUFFICES ASSUME Wrote(req'[q]), req'[q].s \in store'
               PROVE  Filed(q)'
    BY DEF Filed, Wrote
  <2>1. q # r /\ req'[q] = req[q] /\ Placed(req[q]) /\ Filed(q)
    BY <1>2 DEF DiskInv, Wrote
  <2>2. req[q].s # s /\ req[q].s \in store
    BY <1>1, <2>1 DEF Placed, Wrote
  <2>3. disk'[req[q].s] = disk[req[q].s]
    BY <1>1, <2>2
  <2>4. /\ OthersWrote(q) => OthersWrote(q)'
        /\ OthersUndone(q) => OthersUndone(q)'
    BY <1>2, <1>3, <2>1, OthersStay DEF OthersWrote, OthersUndone
  <2> QED
    BY <2>1, <2>2, <2>3, <2>4 DEF Filed, Wrote
<1>7. ASSUME NEW t \in Sessions
      PROVE  Matched(t)'
  <2>1. CASE t = s
    BY <1>1, <2>1 DEF Matched, Known
  <2>2. CASE t # s
    <3>1. Matched(t) /\ disk'[t] = disk[t] /\ sess'[t] = sess[t]
      BY <1>1, <2>2 DEF DiskInv
    <3> QED
      BY <1>1, <1>4, <2>2, <3>1 DEF Matched
  <2> QED
    BY <2>1, <2>2
<1> QED
  BY <1>1, <1>5, <1>6, <1>7 DEF DiskInv

(***************************************************************************)
(* The step of a pack-link's worker that truncates its file or fills it.   *)
(***************************************************************************)
LEMMA SaveStep ==
  ASSUME IInv, Frames, DiskInv, NEW r \in Requests,
         req[r].kind = "pack", req[r].work \in {"open", "write"},
         \E w \in {"write", "torn", "ok"}, fd \in BOOLEAN : req' = [req EXCEPT ![r].work = w, ![r].fd = fd],
         store' = store, made' = made, sess' = sess, strays' = strays,
         \A s \in Sessions :
           /\ disk'[s].there <=> disk[s].there \/ (s = req[r].s /\ req'[r].work = "write")
           /\ disk'[s].package = disk[s].package
           /\ \A l \in Links : s # req[r].s \/ l # req[r].link => disk'[s].file[l] = disk[s].file[l],
         Filed(r)'
  PROVE  DiskInv'
<1>1. /\ Fine(req[r]) /\ Placed(req[r]) /\ store \subseteq Sessions
      /\ Wrote(req'[r]) /\ req'[r].kind = "pack" /\ req'[r].s = req[r].s
      /\ req'[r].link = req[r].link
      /\ req'[r].pc = req[r].pc /\ req'[r].doomed = req[r].doomed /\ req'[r].answer = req[r].answer
      /\ \A q \in Requests \ {r} : req'[q] = req[q]
  BY DEF IInv, Files, DiskInv, Fine, Fields, Wrote
<1>2. Makes(req[r]) /\ req[r].answer # "ok"
  BY <1>1 DEF Makes, Busy, Placed
<1>3. ASSUME NEW t, Known(t)
      PROVE  Known(t)'
  BY <1>1, <1>3 DEF Known
<1>4. ASSUME NEW q \in Requests
      PROVE  Placed(req[q])'
  <2>1. CASE q = r
    <3>1. Known(req[r].s)'
      BY <1>1, <1>2, <1>3 DEF Placed
    <3>2. req'[r].work \in {"write", "torn", "ok"}
      BY <1>1 DEF Wrote
    <3> QED
      BY <1>1, <1>2, <2>1, <3>1, <3>2 DEF Placed, Known
  <2>2. CASE q # r
    <3>1. Placed(req[q]) /\ req'[q] = req[q]
      BY <1>1, <2>2 DEF DiskInv
    <3>2. req[q].s \in store => disk'[req[q].s].package = disk[req[q].s].package
      BY <1>1
    <3>3. Makes(req[q]) => Known(req[q].s)'
      BY <1>3, <3>1 DEF Placed
    <3> QED
      BY <3>1, <3>2, <3>3 DEF Placed, Makes
  <2> QED
    BY <2>1, <2>2
<1>5. ASSUME NEW q \in Requests, q # r
      PROVE  Filed(q)'
  <2> SUFFICES ASSUME Wrote(req'[q]), req'[q].s \in store'
               PROVE  Filed(q)'
    BY DEF Filed, Wrote
  <2>1. /\ req'[q] = req[q] /\ Filed(q) /\ Wrote(req[q]) /\ req[q].s \in store
        /\ req[q].s \in Sessions /\ req[q].link \in Links
    BY <1>1, <1>5 DEF DiskInv, Placed
  <2>2. CASE req[q].s = req[r].s /\ req[q].link = req[r].link
    <3>1. req'[q].s = req'[r].s /\ req'[q].link = req'[r].link
      <4>1. req'[r].s = req[r].s /\ req'[r].link = req[r].link
        BY <1>1
      <4> QED
        BY <2>1, <2>2, <4>1
    <3> DEFINE text == disk[req[r].s].file[req[r].link]
    <3>2. OthersWrote(q)'
      BY <1>1, <1>5, <2>1, <2>2 DEF OthersWrote, Others, Wrote
    <3>3. /\ text' \in {"cut", "spoilt", "whole"}
          /\ text' = "cut" => req'[r].work \in {"write", "torn"} \/ OthersUndone(r)'
      BY <1>1, <2>1, <2>2 DEF Filed
    <3>4. req'[r].work \in {"write", "torn"} => OthersUndone(q)'
      BY <1>1, <1>5, <2>1, <2>2 DEF OthersUndone, Others
    <3>5. OthersUndone(r)' => req[q].work \in {"write", "torn"} \/ OthersUndone(q)'
      <4> SUFFICES ASSUME NEW p \in Requests \ {r}, p # q,
                          req'[p].s = req'[r].s, req'[p].link = req'[r].link,
                          req'[p].kind = "pack", req'[p].work \in {"write", "torn"}
                   PROVE  OthersUndone(q)'
        BY <1>1, <1>5, <2>1 DEF OthersUndone, Others
      <4>1. req'[p].s = req'[q].s /\ req'[p].link = req'[q].link
        BY <3>1
      <4>2. p \in Requests \ {q}
        OBVIOUS
      <4> QED
        BY <4>1, <4>2 DEF OthersUndone, Others
    <3>6. req[q].work = "write" => req[q].fd
      BY <2>1 DEF Filed
    <3>7. disk'[req'[q].s].file[req'[q].link] = text'
      BY <1>1, <2>1, <2>2
    <3> HIDE DEF text
    <3> QED
      BY <2>1, <3>2, <3>3, <3>4, <3>5, <3>6, <3>7 DEF Filed
  <2>3. CASE req[q].s # req[r].s \/ req[q].link # req[r].link
    <3>1. disk'[req'[q].s].file[req'[q].link] = disk[req[q].s].file[req[q].link]
      BY <2>1, <2>3
    <3>2. ASSUME NEW works \in SUBSET {"write", "torn", "ok"}, Others(q, works)
          PROVE  Others(q, works)'
      <4>1. PICK p \in Requests \ {q} :
              /\ req[p].s = req[q].s /\ req[p].link = req[q].link /\ req[p].kind = "pack"
              /\ req[p].work \in works
        BY <3>2 DEF Others
      <4>2. req'[p] = req[p]
        BY <1>1, <2>3, <4>1
      <4> QED
        BY <2>1, <4>1, <4>2 DEF Others
    <3>3. /\ OthersWrote(q) => OthersWrote(q)'
          /\ OthersUndone(q) => OthersUndone(q)'
      BY <3>2 DEF OthersWrote, OthersUndone
    <3> QED
      BY <2>1, <3>1, <3>3 DEF Filed
  <2> QED
    BY <2>2, <2>3
<1>6. ASSUME NEW t \in Sessions
      PROVE  Matched(t)'
  <2>1. Matched(t)
    BY DEF DiskInv
  <2>2. t = req[r].s => Known(t)'
    BY <1>1, <1>2, <1>3 DEF Placed
  <2> QED
    BY <1>3, <2>1, <2>2 DEF Matched
<1> QED
  BY <1>4, <1>5, <1>6 DEF DiskInv

\* A file just opened is empty.
LEMMA TruncateMatches ==
  ASSUME IInv, Frames, DiskInv, NEW r \in Requests, Truncate(r)
  PROVE  DiskInv'
<1>1. /\ Fine(req[r]) /\ Placed(req[r]) /\ req[r].work = "open" /\ req[r].kind = "pack"
      /\ req[r].s \in Sessions
      /\ sess' = sess /\ made' = made /\ strays' = strays /\ store' = store
  BY DEF IInv, DiskInv, Truncate, Fine
<1>2. CASE /\ disk' = [disk EXCEPT ![req[r].s].there = TRUE,
                                   ![req[r].s].file = [@ EXCEPT ![req[r].link] = "cut"]]
           /\ req' = [req EXCEPT ![r].work = "write", ![r].fd = TRUE]
  <2>1. /\ req'[r].work = "write" /\ req'[r].fd /\ req'[r].s = req[r].s /\ req'[r].link = req[r].link
    BY <1>1, <1>2 DEF IInv, Fine, Fields
  <2>2. disk'[req[r].s].file[req[r].link] = "cut"
    BY <1>1, <1>2 DEF IInv, Files, Placed
  <2>3. Filed(r)'
    BY <2>1, <2>2 DEF Filed
  <2>4. \A s \in Sessions :
          /\ disk'[s].there <=> disk[s].there \/ (s = req[r].s /\ req'[r].work = "write")
          /\ disk'[s].package = disk[s].package
          /\ \A l \in Links : s # req[r].s \/ l # req[r].link => disk'[s].file[l] = disk[s].file[l]
    BY <1>1, <1>2, <2>1 DEF IInv, Files
  <2> QED
    BY <1>1, <1>2, <2>3, <2>4, SaveStep
<1>3. CASE MayMakeDirectory(req[r].s) /\ WorkEnds(r, "error")
  <2>1. Makes(req[r]) /\ req[r].work \in Busy \ {"write"}
    BY <1>1 DEF Makes, Busy
  <2> QED
    BY <1>1, <1>3, <2>1, DirectoriesStay, WorkMatches
<1> QED
  BY <1>2, <1>3 DEF Truncate

\* A file its only writer has filled is whole.
LEMMA WriteMatches ==
  ASSUME IInv, Frames, DiskInv, NEW r \in Requests, Write(r)
  PROVE  DiskInv'
<1>1. /\ Fine(req[r]) /\ Placed(req[r]) /\ req[r].work = "write" /\ req[r].kind = "pack"
      /\ req[r].s \in Sessions /\ req[r].link \in Links
      /\ sess' = sess /\ made' = made /\ strays' = strays /\ store' = store
  BY DEF IInv, DiskInv, Write, Fine, Placed
<1> DEFINE old == disk[req[r].s].file[req[r].link]
<1>2. PICK end, text :
        /\ end \in {"ok", "torn"} /\ text \in Texts(old, end)
        /\ disk' = IF req[r].fd THEN [disk EXCEPT ![req[r].s].file = [@ EXCEPT ![req[r].link] = text]]
                    ELSE disk
        /\ req' = [req EXCEPT ![r].work = end, ![r].fd = FALSE]
  BY DEF Write
<1> end \in {"ok", "torn"}
  BY <1>2
<1>3. /\ req'[r].work = end /\ req'[r].s = req[r].s /\ req'[r].link = req[r].link
      /\ \A q \in Requests \ {r} : req'[q] = req[q]
  BY <1>1, <1>2 DEF IInv, Fine, Fields
<1>4. Filed(r)'
  <2> SUFFICES ASSUME req[r].s \in store
               PROVE  Filed(r)'
    BY <1>1, <1>3 DEF Filed
  <2>1. /\ req[r].fd /\ old \in {"cut", "spoilt", "whole"}
        /\ OthersWrote(r) \/ old = "cut"
    <3>1. Filed(r) /\ Wrote(req[r])
      BY <1>1 DEF DiskInv, Wrote
    <3> QED
      BY <1>1, <3>1 DEF Filed
  <2>2. disk'[req[r].s].file[req[r].link] = text
    BY <1>1, <1>2, <2>1 DEF IInv, Files
  <2>3. OthersWrote(r) => OthersWrote(r)'
    BY <1>3 DEF OthersWrote, Others
  <2> HIDE DEF old
  <2>4. CASE end = "torn"
    <3>1. text \in {"cut", "spoilt", "whole"}
      BY <1>2, <2>1, <2>4 DEF Texts
    <3> QED
      BY <1>3, <2>2, <2>4, <3>1 DEF Filed
  <2>5. CASE end = "ok"
    <3>1. text \in {"spoilt", "whole"} /\ (old = "cut" => text = "whole")
      BY <1>2, <2>5 DEF Texts
    <3> QED
      BY <1>3, <2>1, <2>2, <2>3, <2>5, <3>1 DEF Filed
  <2> QED
    BY <2>4, <2>5
<1>5. \A s \in Sessions :
        /\ disk'[s].there <=> disk[s].there \/ (s = req[r].s /\ req'[r].work = "write")
        /\ disk'[s].package = disk[s].package
        /\ \A l \in Links : s # req[r].s \/ l # req[r].link => disk'[s].file[l] = disk[s].file[l]
  BY <1>1, <1>2, <1>3 DEF IInv, Files
<1> QED
  BY <1>1, <1>2, <1>4, <1>5, SaveStep

\* The store's drop deletes every directory it knows, or leaves it to stray.
LEMMA ShutdownMatches ==
  ASSUME IInv, Frames, DiskInv, Shutdown
  PROVE  DiskInv'
<1>1. /\ store' = {} /\ made' = made /\ sess' = sess /\ DOMAIN req' = Requests
      /\ strays' = strays \cup {s \in store : disk'[s].there \/ InTheMaking(s)}
  BY DEF Shutdown
<1>2. ASSUME NEW t \in Sessions, t \notin store
      PROVE  disk'[t] = disk[t]
  BY <1>2 DEF Shutdown
<1>3. ASSUME NEW q \in Requests
      PROVE  /\ req'[q].pc = req[q].pc /\ req'[q].kind = req[q].kind /\ req'[q].s = req[q].s
             /\ req'[q].link = req[q].link /\ req'[q].work = req[q].work
             /\ req'[q].answer = req[q].answer
             /\ req'[q].doomed = req[q].doomed /\ req[q].doomed = {} /\ Placed(req[q])
  <2>1. Fine(req[q]) /\ Placed(req[q]) /\ req[q].pc # "clean"
    BY DEF IInv, DiskInv, Shutdown
  <2>2. req'[q] = req[q] \/ req'[q] = [req[q] EXCEPT !.fd = FALSE]
    BY DEF Shutdown, Unlinked
  <2> QED
    BY <2>1, <2>2 DEF Fine, Fields, Placed
<1>4. ASSUME NEW t, Known(t), t \notin store
      PROVE  Known(t)'
  BY <1>1, <1>3, <1>4 DEF Known
<1>5. ASSUME NEW q \in Requests
      PROVE  Placed(req[q])'
  <2>1. ASSUME Makes(req'[q])
        PROVE  Known(req[q].s)'
    <3>1. Makes(req[q])
      BY <1>3, <2>1 DEF Makes
    <3>2. CASE req[q].s \in store
      BY <1>1, <1>3, <3>1, <3>2 DEF InTheMaking, Known
    <3>3. CASE req[q].s \notin store
      BY <1>1, <1>3, <3>1, <3>3 DEF Placed, Known
    <3> QED
      BY <3>2, <3>3
  <2> QED
    BY <1>1, <1>3, <2>1 DEF Placed
<1>6. ASSUME NEW t \in Sessions
      PROVE  Matched(t)'
  <2>1. CASE t \in store
    BY <1>1, <2>1 DEF Matched, Known
  <2>2. CASE t \notin store
    BY <1>1, <1>2, <1>4, <2>2 DEF Matched, DiskInv
  <2> QED
    BY <2>1, <2>2
<1>7. \A q \in Requests : Filed(q)'
  BY <1>1 DEF Filed
<1> QED
  BY <1>1, <1>5, <1>6, <1>7 DEF DiskInv

\* Every step keeps the map and the directories in agreement.
LEMMA DiskInvNext ==
  ASSUME IInv, Frames, DiskInv, [Next]_vars
  PROVE  DiskInv'
<1>1. ASSUME UNCHANGED <<req, disk, store, made, strays>>,
             \A s \in Sessions : sess'[s].stats = sess[s].stats /\ sess'[s].report = sess[s].report
      PROVE  DiskInv'
  <2>1. ASSUME NEW q \in Requests
        PROVE  Placed(req[q])' /\ Filed(q)'
    <3>1. Placed(req[q]) /\ Filed(q) /\ made \subseteq Sessions
      BY DEF DiskInv, Frames
    <3>2. req[q].work = "measure" => sess'[req[q].s].report
      BY <1>1, <3>1 DEF Placed
    <3> QED
      BY <1>1, <3>1, <3>2
         DEF Placed, Filed, OthersWrote, OthersUndone, Others, Known, Makes, Wrote
  <2>2. ASSUME NEW s \in Sessions
        PROVE  Matched(s)'
    BY <1>1 DEF DiskInv, Matched, Known
  <2> QED
    BY <1>1, <2>1, <2>2 DEF DiskInv
<1>2. CASE UNCHANGED vars
  BY <1>1, <1>2 DEF vars
<1>3. ASSUME NEW k \in Sockets, SocketStep(k)
      PROVE  DiskInv'
  BY <1>1, <1>3 DEF SocketStep, Connect, Forward, Sent, SendFails, SenderGone, CheckTick, ClientLeaves, SocketCloses
<1>4. CASE Advance
  BY <1>1, <1>4 DEF Advance
<1>5. ASSUME NEW r \in Requests, PublishFrame(r)
      PROVE  DiskInv'
  <2>1. \A s \in Sessions : sess'[s].stats = sess[s].stats /\ sess'[s].report = sess[s].report
    BY <1>5 DEF PublishFrame, Frames
  <2> QED
    BY <1>1, <1>5, <2>1 DEF PublishFrame
<1>6. ASSUME NEW r \in Requests, RequestStep(r)
      PROVE  DiskInv'
  BY <1>6, BeginMatches, DeleteDirectoryMatches, CreateMatches, CreateFailsMatches, RejectedMatches, CheckUploadMatches,
     FindMatches, TouchMatches, RespondMatches, DisconnectMatches DEF RequestStep
<1>7. ASSUME NEW r \in Requests, WorkerStep(r)
      PROVE  DiskInv'
  BY <1>5, <1>7, UploadMatches, MakeDirectoriesMatches, EndPackingMatches, TruncateMatches, WriteMatches,
     ReadSpheresMatches, ScoredMatches, WriteUrdfMatches, ReadMeshesMatches DEF WorkerStep
<1> QED
  BY <1>2, <1>3, <1>4, <1>6, <1>7, ShutdownMatches DEF Next

(***************************************************************************)
(* The map and the directories agree (sessions.rs, robot.rs, result.rs): a *)
(* session of the map has its directory, the package it reported, and      *)
(* statistics of meshes that were there; a pack-link that succeeded has    *)
(* its complete sphere file, unless another one of its link is writing,    *)
(* failed to, or wrote at the same time; and no directory is left behind   *)
(* but of a creation or a removal that failed or of a session swept while  *)
(* something was being made in it.                                         *)
(***************************************************************************)
THEOREM DiskAlwaysMatchesStore == Spec => []DiskMatchesStore
<1>1. Init => IInv /\ Frames /\ DiskInv
  <2>1. Init => IInv /\ Frames
    BY IInvInit, ServiceAssumption DEF Init, Frames, NewSession
  <2>2. ASSUME Init
        PROVE  DiskInv
    <3>1. /\ \A r \in Requests : req[r] = NewRequest
          /\ \A s \in Sessions :
               /\ sess[s] = [NewSession EXCEPT !.report = s \in Loaded]
               /\ (disk[s].there <=> s \in Loaded) /\ (disk[s].package <=> s \in Loaded)
          /\ store = Loaded /\ made = Loaded /\ Loaded \subseteq Sessions
      BY <2>2, ServiceAssumption DEF Init
    <3>3. Placed(NewRequest) /\ ~Wrote(NewRequest) /\ NewRequest.work = "none"
      BY AnyLinkIsLink DEF Placed, NewRequest, Makes, Busy, Wrote
    <3>4. \A s \in Sessions : Matched(s)
      <4>1. \A s \in Sessions : sess[s].stats = "none"
        BY <3>1 DEF NewSession
      <4>2. \A s \in Loaded : disk[s].there /\ disk[s].package
        BY <3>1
      <4>3. \A s \in Sessions : disk[s].there => s \in Loaded
        BY <3>1
      <4> QED
        BY <3>1, <4>1, <4>2, <4>3 DEF Matched, Known
    <3> QED
      BY <3>1, <3>3, <3>4 DEF DiskInv, Filed
  <2> QED
    BY <2>1, <2>2
<1>2. (IInv /\ Frames /\ DiskInv) /\ [Next]_vars => (IInv /\ Frames /\ DiskInv)'
  BY IInvNext, FramesCountUp, DiskInvNext
<1>3. IInv /\ Frames /\ DiskInv => DiskMatchesStore
  <2> SUFFICES ASSUME IInv, DiskInv
               PROVE  DiskMatchesStore
    OBVIOUS
  <2>1. \A s \in store : /\ disk[s].there /\ sess[s].stats # "errors"
                         /\ sess[s].report => disk[s].package
    BY DEF DiskInv, Matched, IInv, Files
  <2>2. ASSUME NEW r \in Requests, req[r].kind = "pack", req[r].answer = "ok", req[r].s \in store
        PROVE  SpheresAreSafe(r)
    <3>1. req[r].work = "ok" /\ Filed(r)
      BY <2>2 DEF DiskInv, Placed
    <3>2. Wrote(req[r])
      BY <2>2, <3>1 DEF Wrote
    <3>3. LET text == disk[req[r].s].file[req[r].link]
          IN /\ text \in {"cut", "spoilt", "whole"}
             /\ text = "cut" => OthersUndone(r)
             /\ OthersWrote(r) \/ text = "whole"
      BY <2>2, <3>1, <3>2 DEF Filed
    <3> QED
      BY <3>3 DEF SpheresAreSafe, OthersWrote, OthersUndone
  <2>3. ASSUME NEW s \in Sessions, disk[s].there
        PROVE  s \in store \/ s \in strays \/ \E r \in Requests : s \in req[r].doomed
    BY <2>3 DEF DiskInv, Matched, Known
  <2> QED
    BY <2>1, <2>2, <2>3 DEF DiskMatchesStore
<1> QED
  BY <1>1, <1>2, <1>3, PTL DEF Spec
=============================================================================
