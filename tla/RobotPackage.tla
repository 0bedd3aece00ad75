---------------------------- MODULE RobotPackage ----------------------------
(***************************************************************************)
(* A robot package in memory: RobotPackage of the Python and WebAssembly   *)
(* bindings and morphit_robot of the C API.  Files are added, a URDF is    *)
(* inspected (inspect.rs), spheres are recorded for its collisions and the *)
(* text is rewritten with spheres for meshes (assemble.rs).  Assembling    *)
(* changes nothing: it is the operator Rewrite.  Only C keeps a report;    *)
(* the others inspect again whenever they need one.                        *)
(***************************************************************************)
EXTENDS PackagePaths

CONSTANTS
  Uploads,    \* bound: the <<path, content>> pairs that may be added
  Docs,       \* the contents of URDFs, by name
  References, \* bound: mesh references that are compared
  SphereSets, \* bound: the numbers of spheres in results
  NoReport    \* no report was made

VARIABLES
  pkg,        \* pkg: content of each key
  spheres,    \* MemSpheres: number of spheres recorded for <<link, index>>
  report,     \* the report a C host holds
  packing     \* pack_all: the items still to pack, or NoReport

vars == <<pkg, spheres, report, packing>>

Files == DOMAIN pkg
Urdfs == {f \in Files : pkg[f] \in DOMAIN Docs}
Links(doc) == DOMAIN doc.links
Places(doc) == UNION {{l} \X DOMAIN doc.links[l].collisions : l \in Links(doc)}

ASSUME PackageAssumption ==
  /\ SphereSets \subseteq Nat /\ NoPath \notin Nat \X Nat
  /\ \A d \in DOMAIN Docs : Places(Docs[d]) \subseteq Nat \X Nat
  /\ \A ref \in References : IsSequence(ref.rel)
  /\ \A u \in Uploads :
       IsSequence(u[1]) /\ \A n \in 0..Len(Names(u[1])) : SubSeq(Names(u[1]), 1, n) # NoPath
-----------------------------------------------------------------------------
(***************************************************************************)
(* inspect_urdf_text: one item for each collision, numbered within its     *)
(* link.  A text that is xacro, not XML or not a robot has no items.       *)
(***************************************************************************)
PackAction(path) ==
  IF path \in Files /\ pkg[path] \in {"mesh", "broken mesh"} THEN "pack" ELSE "error"

ActionOf(shape, path) ==
  CASE shape = "mesh" -> PackAction(path)
    [] shape = "sphere" -> "remove-already-sphere"
    [] shape \in {"box", "cylinder", "capsule"} -> "remove-primitive"
    [] OTHER -> "error"

\* A bug for the checks to find: only the meshes of a link are counted.
IndexAmongMeshes(link, c) ==
  Cardinality({b \in 1..c : link.collisions[b].shape = "mesh"})
CollisionIndex(link, c) == c

ItemAt(doc, urdf, at) ==
  LET link == doc.links[at[1]]
      collision == link.collisions[at[2]]
      path == IF collision.shape = "mesh" THEN MemResolve(Files, collision.ref, urdf) ELSE NoPath
  IN [at |-> at, link |-> link.name, index |-> CollisionIndex(link, at[2]),
      path |-> path, action |-> ActionOf(collision.shape, path)]

InspectUrdf(urdf) ==
  LET doc == Docs[pkg[urdf]]
  IN [urdf |-> urdf, text |-> pkg[urdf],
      items |-> IF doc.kind = "robot" THEN {ItemAt(doc, urdf, at) : at \in Places(doc)} ELSE {}]

Report(requested) ==
  LET urdf == SelectUrdf(Urdfs, requested)
  IN IF urdf = NoPath THEN NoReport ELSE InspectUrdf(urdf)

ToPack(rep) == {it \in rep.items : it.action = "pack"}
-----------------------------------------------------------------------------
(***************************************************************************)
(* rewrite_urdf_text: where each item of a report is looked for in the     *)
(* text, the first link of its name, and what becomes of it.  Two equal    *)
(* cuts make the final splice panic.                                       *)
(***************************************************************************)
Target(doc, it) ==
  LET named == {l \in Links(doc) : doc.links[l].name = it.link}
  IN IF named = {} THEN NoPath
     ELSE LET l == CHOOSE l \in named : \A k \in named : l <= k
          IN IF it.index \in DOMAIN doc.links[l].collisions THEN <<l, it.index>> ELSE NoPath

Key(it) == <<it.link, it.index>>

Outcome(doc, it) ==
  CASE it.action = "error" -> "kept"
    [] it.action = "pack" ->
         IF Target(doc, it) = NoPath \/ Key(it) \notin DOMAIN spheres THEN "skipped" ELSE "replaced"
    [] OTHER -> IF Target(doc, it) = NoPath THEN "kept" ELSE "removed"

Rewrite(doc, rep) ==
  LET CutOut(it) == Outcome(doc, it) \in {"replaced", "removed"}
      Becoming(end) == {it \in rep.items : Outcome(doc, it) = end}
  IN [panics |-> \E i, j \in rep.items :
                    i # j /\ CutOut(i) /\ CutOut(j) /\ Target(doc, i) = Target(doc, j),
      cut |-> {Target(doc, it) : it \in {i \in rep.items : CutOut(i)}},
      added |-> UNION {{[parent |-> it.link, for |-> it.at, k |-> k] : k \in 1..spheres[Key(it)]} :
                        it \in Becoming("replaced")},
      skipped |-> Becoming("skipped")]

\* The text of a report's URDF may have been replaced since.
TextOf(rep) == IF rep.urdf \in Urdfs THEN Docs[pkg[rep.urdf]] ELSE [kind |-> "bad", links |-> <<>>]
CanRewrite(rep) == TextOf(rep).kind # "bad"
Assembled(rep) == Rewrite(TextOf(rep), rep)
-----------------------------------------------------------------------------
Init ==
  /\ pkg = [k \in {} |-> ""] /\ spheres = [k \in {} |-> 0]
  /\ report = NoReport /\ packing = NoReport

\* Python refuses to borrow the package for a change while pack_all runs.
AddFile(rel, content) ==
  /\ packing = NoReport
  /\ LET key == NormalizeRel(rel)
     IN pkg' = IF key = NoPath THEN pkg
               ELSE [k \in Files \cup {key} |-> IF k = key THEN content ELSE pkg[k]]
  /\ UNCHANGED <<spheres, report, packing>>

Inspect(requested) ==
  /\ Report(requested) # NoReport
  /\ report' = Report(requested)
  /\ UNCHANGED <<pkg, spheres, packing>>

Recorded(key, n) ==
  spheres' = [k \in DOMAIN spheres \cup {key} |-> IF k = key THEN n ELSE spheres[k]]

\* From a session or a result JSON; C hosts name the item of a report.
SetLinkResult(key, n) ==
  /\ Recorded(key, n)
  /\ UNCHANGED <<pkg, report, packing>>

ClearLinkResults ==
  /\ spheres' = [k \in {} |-> 0]
  /\ UNCHANGED <<pkg, report, packing>>

(***************************************************************************)
(* pack_all packs and records one item after the other.  A mesh that does  *)
(* not load, or a callback that says so, ends it after the items it has.   *)
(***************************************************************************)
StartPackAll(requested) ==
  /\ packing = NoReport /\ Report(requested) # NoReport
  /\ packing' = ToPack(Report(requested))
  /\ UNCHANGED <<pkg, spheres, report>>

Before(i, j) == i.at[1] < j.at[1] \/ (i.at[1] = j.at[1] /\ i.at[2] <= j.at[2])

PackNext(it, n) ==
  /\ packing # NoReport /\ it \in packing
  /\ \A other \in packing : Before(it, other)
  /\ pkg[it.path] = "mesh"
  /\ Recorded(Key(it), n)
  /\ packing' = packing \ {it}
  /\ UNCHANGED <<pkg, report>>

EndPackAll ==
  /\ packing # NoReport
  /\ packing' = NoReport
  /\ UNCHANGED <<pkg, spheres, report>>
-----------------------------------------------------------------------------
NamesAreUnique(doc) ==
  \A k, l \in Links(doc) : doc.links[k].name = doc.links[l].name => k = l

\* What the rewrite by a report of this very text did to one collision.
KeepsItsPlace(doc, out, at) ==
  LET link == doc.links[at[1]]
      key == <<link.name, at[2]>>
      instead == {a \in out.added : a.for = at}
  IN CASE link.collisions[at[2]].shape = "mesh" ->
            IF at \in out.cut
            THEN /\ key \in DOMAIN spheres /\ Cardinality(instead) = spheres[key]
                 /\ \A a \in instead : a.parent = link.name
            ELSE instead = {}
       [] link.collisions[at[2]].shape \in {"sphere", "box", "cylinder", "capsule"} -> at \in out.cut
       [] OTHER -> at \notin out.cut

(***************************************************************************)
(* Rewriting loses no collision geometry.  A mesh disappears only where    *)
(* the spheres recorded for it are put on its own link instead, every      *)
(* primitive goes, and what was not understood stays; a mesh to pack that  *)
(* stays is reported as skipped (assemble.rs:221-224).  With a fresh       *)
(* report and with one a C host kept while meshes and results changed; a   *)
(* URDF names its links once.                                              *)
(***************************************************************************)
NoCollisionIsLost ==
  \A rep \in {InspectUrdf(u) : u \in Urdfs} \cup ({report} \ {NoReport}) :
    LET doc == TextOf(rep)
        out == Assembled(rep)
    IN rep.urdf \in Urdfs /\ pkg[rep.urdf] = rep.text /\ doc.kind = "robot" /\ NamesAreUnique(doc) =>
         /\ ~out.panics
         /\ \A at \in Places(doc) : KeepsItsPlace(doc, out, at)
         /\ {it.at : it \in out.skipped} = {it.at : it \in ToPack(rep)} \ out.cut

(***************************************************************************)
(* The browser's package means the same files as the desktop's directory:  *)
(* a reference resolves to the same path in memory and on a disk with the  *)
(* same files ("with the same rules", inspect.rs:197), and never to        *)
(* something outside the package.                                          *)
(***************************************************************************)
MemoryAgreesWithDisk ==
  FitsOnDisk(Files) => \A ref \in References, urdf \in Urdfs :
    /\ Plain(ref) => MemResolve(Files, ref, urdf) = DiskResolve(Files, ref, urdf)
    /\ MemResolve(Files, ref, urdf) \in Files \cup Dirs(Files) \cup {NoPath}
=============================================================================
