---------------------------- MODULE PackagePaths ----------------------------
(***************************************************************************)
(* Paths of robot packages (crates/morphit-robot/src: paths.rs, vfs.rs and *)
(* the resolvers of inspect.rs).  A path is the sequence of its parts      *)
(* between slashes, "" and "." and ".." among them; a key is a path that   *)
(* normalize_rel accepted, and a package is its set of keys.  The desktop  *)
(* reads packages from a directory, the browser from memory, and the mesh  *)
(* references of a URDF must mean the same file in both.                   *)
(***************************************************************************)
EXTENDS Naturals, SequencesExt

CONSTANTS
  NoPath,   \* no such path
  Drive     \* a part that begins with a drive letter

\* What a path, like any list of a document, is.
IsSequence(s) == Len(s) \in Nat /\ s = [i \in 1..Len(s) |-> s[i]]

Names(path) ==
  FoldLeft(LAMBDA names, part : IF part \in {"", "."} THEN names ELSE Append(names, part),
           <<>>, path)

\* normalize_rel: the key of an upload or a lookup, or NoPath.  A drive is
\* refused where a path begins; where the system has drives, further on too.
NormalizeRel(rel) ==
  LET parts == Names(rel)
  IN IF parts = <<>> \/ Contains(parts, "..") \/ Head(parts) = Drive THEN NoPath ELSE parts

Parent(path) == IF path = <<>> THEN <<>> ELSE Front(path)
IsRoot(path) == path = <<>>

Follow(path, part) ==
  IF path = NoPath \/ part \in {"", "."} THEN path
  ELSE IF part # ".." THEN Append(path, part)
  ELSE IF IsRoot(path) THEN NoPath ELSE Parent(path)

JoinLexical(dir, rel) == FoldLeft(Follow, <<>>, dir \o rel)

Dirs(files) == UNION {{SubSeq(f, 1, n) : n \in 1..(Len(f) - 1)} : f \in files}

IsDir(files, key) == key \in Dirs(files)
Exists(files, key) == key # NoPath /\ key # <<>> /\ (key \in files \/ IsDir(files, key))

\* MemPackage::insert: a file may be put where a directory is.
Inserted(files, rel) ==
  IF NormalizeRel(rel) = NoPath THEN files ELSE files \cup {NormalizeRel(rel)}

\* The only entry whose last part is that of `rel'; a key that is a file and
\* a directory is two entries.
ByName(files, rel) ==
  LET found   == {k \in files \cup Dirs(files) : Last(k) = Last(rel)}
      Only(k) == found = {k} /\ ~(k \in files /\ IsDir(files, k))
  IN IF rel # <<>> /\ Last(rel) # "" /\ \E k \in found : Only(k)
     THEN CHOOSE k \in found : TRUE ELSE NoPath

FirstOf(first, second, fallback) ==
  IF first # NoPath THEN first ELSE IF second # NoPath THEN second ELSE fallback

(***************************************************************************)
(* A reference is package://<pkg>/<rel>, or a path relative to the URDF,   *)
(* or an absolute one.  file:// is taken as it is by both resolvers.       *)
(***************************************************************************)
IfThere(files, key) == IF Exists(files, key) THEN key ELSE NoPath

\* A bug for the checks to find: references are relative to the package, not the URDF.
UrdfDirIgnored(urdf) == <<>>
UrdfDir(urdf) == Parent(urdf)

MemResolve(files, ref, urdf) ==
  IF ref.kind = "package"
  THEN FirstOf(IfThere(files, JoinLexical(<<ref.pkg>>, ref.rel)),
               IfThere(files, JoinLexical(<<>>, ref.rel)), ByName(files, ref.rel))
  ELSE IfThere(files, JoinLexical(IF ref.kind = "absolute" THEN <<>> ELSE UrdfDir(urdf), ref.rel))

(***************************************************************************)
(* The operating system walks a path part by part: every part but the last *)
(* must be a directory, `..' of the package's own root leaves it, and the  *)
(* root itself is there.                                                   *)
(***************************************************************************)
Into(files, path, part) ==
  IF path = NoPath \/ ~(path = <<>> \/ IsDir(files, path)) THEN NoPath
  ELSE IF part \in {"", "."} THEN path
  ELSE IF part = ".." THEN (IF path = <<>> THEN NoPath ELSE Parent(path))
  ELSE IfThere(files, Append(path, part))

DiskWalk(files, dir, rel) == FoldLeft(LAMBDA path, part : Into(files, path, part), dir, rel)

DiskResolve(files, ref, urdf) ==
  IF ref.kind = "package"
  THEN FirstOf(DiskWalk(files, <<>>, <<ref.pkg>> \o ref.rel),
               DiskWalk(files, <<>>, ref.rel), ByName(files, ref.rel))
  ELSE DiskWalk(files, Parent(urdf), ref.rel)

\* select_urdf: by file name when one is asked for, else the only one.
SelectUrdf(urdfs, requested) ==
  LET found == IF requested = "" THEN urdfs ELSE {u \in urdfs : Last(u) = requested}
  IN IF \E u \in found : found = {u} THEN CHOOSE u \in found : TRUE ELSE NoPath
-----------------------------------------------------------------------------
\* A directory can hold the package: no file is also a directory.
FitsOnDisk(files) == \A f \in files : ~IsDir(files, f)

(***************************************************************************)
(* References people write: names, perhaps after some `..' that leave the  *)
(* URDF's own directory.                                                   *)
(***************************************************************************)
Plain(ref) ==
  /\ ref.rel # <<>> /\ ref.kind # "absolute"
  /\ \A i \in 1..Len(ref.rel) :
       /\ ref.rel[i] # ""
       /\ ref.rel[i] = ".." => ref.kind = "relative" /\ \A j \in 1..i : ref.rel[j] = ".."
  /\ ref.rel[Len(ref.rel)] \notin {".", ".."}
=============================================================================
