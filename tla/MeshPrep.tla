------------------------------ MODULE MeshPrep ------------------------------
(***************************************************************************)
(* Mesh preparation (crates/morphit/src/mesh_prep.rs, mesh.rs): overlapping*)
(* closed bodies are replaced by their union, on request after replacing   *)
(* every body by its convex hull, and whatever cannot be done safely leaves*)
(* the raw mesh.  A position is a triple of integers, a vertex a record    *)
(* [at |-> position, copy |-> n], a body a function from face numbers to   *)
(* faces.  The boolean union and the hull are external.                    *)
(***************************************************************************)
EXTENDS Integers, SequencesExt, Listing

CONSTANTS
  Meshes,    \* bound: the meshes that are loaded, as sequences of faces
  Refused    \* no mesh

VARIABLES
  mesh,      \* the mesh as loaded
  prepared   \* prepared_with's cache: from options to what was found and done

vars == <<mesh, prepared>>

MinFaces == 4
Options == [union : BOOLEAN, hull : BOOLEAN]
-----------------------------------------------------------------------------
Reversed(face) == <<face[3], face[2], face[1]>>
Next3(k) == (k % 3) + 1
Uses(body) == (DOMAIN body) \X (1..3)
Edge(body, u) == <<body[u[1]][u[2]], body[u[1]][Next3(u[2])]>>
Opposite(e) == <<e[2], e[1]>>

\* edge_faces: the uses of the edge of each use of an edge.
Users(body) ==
  LET edge == [u \in Uses(body) |-> Edge(body, u)]
  IN [u \in Uses(body) |-> {v \in Uses(body) : edge[v] = edge[u] \/ edge[v] = Opposite(edge[u])}]

\* face_adjacency: over edges that exactly two faces use.
Adjacent(body) ==
  LET users == Users(body)
      paired == {u \in Uses(body) : Cardinality(users[u]) = 2}
  IN UNION {{<<u[1], v[1]>> : v \in users[u] \ {u}} : u \in paired}

Neighbours(adjacent, group) == {e[2] : e \in {f \in adjacent : f[1] \in group}}

\* merge_positions: a vertex is where it is.
MergePositions(faces) == [i \in DOMAIN faces |-> [k \in 1..3 |-> faces[i][k].at]]

\* split_bodies: the connected bodies.
SplitBodies(faces) ==
  LET adjacent == Adjacent(faces)
      Grown(group, i) == group \cup Neighbours(adjacent, group)
      Group(i) == FoldLeft(Grown, {i}, [k \in DOMAIN faces |-> k])
  IN {[i \in group |-> faces[i]] : group \in {Group(i) : i \in DOMAIN faces}}

Determinant(p, q, r) ==
  p[1] * (q[2] * r[3] - q[3] * r[2]) - p[2] * (q[1] * r[3] - q[3] * r[1])
    + p[3] * (q[1] * r[2] - q[2] * r[1])

\* Six times the signed volume.
Volume(body) == MapThenSumSet(LAMBDA i : Determinant(body[i][1], body[i][2], body[i][3]), DOMAIN body)
Size(body) == IF Volume(body) < 0 THEN -Volume(body) ELSE Volume(body)

IsDegenerate(body) == Cardinality(DOMAIN body) < MinFaces \/ Volume(body) = 0

\* trimesh's is_watertight and is_winding_consistent.
Watertight(body) == \A users \in Range(Users(body)) : Cardinality(users) = 2
Winding(body) ==
  \A users \in Range(Users(body)) : Cardinality(users) = 2 =>
    \A u, v \in users : u # v => Edge(body, v) = Opposite(Edge(body, u))
IsClosed(body) == Watertight(body) /\ Winding(body)
-----------------------------------------------------------------------------
(***************************************************************************)
(* fix_normals: a breadth-first walk turns each face to the one it was     *)
(* reached from, then a watertight body is turned outward.                 *)
(***************************************************************************)
SameDirection(f, g) == \E k, l \in 1..3 : <<f[k], f[Next3(k)]>> = <<g[l], g[Next3(l)]>>

\* A bug for the checks to find: the face as it was before the walk.
WalkedFromInput(input, now, f) == input[f]
WalkedFrom(input, now, f) == now[f]

Lowest(S) == CHOOSE i \in S : \A j \in S : i <= j

\* One face is taken from the queue, or the first not seen; those next to it are queued.
Visited(body, adjacent, st) ==
  LET faces == DOMAIN body
      queue == IF st.queue = <<>> THEN <<Lowest(faces \ st.seen)>> ELSE st.queue
      f == Head(queue)
      from == WalkedFrom(body, st.body, f)
      new == Neighbours(adjacent, {f}) \ (st.seen \cup {f})
  IN [body |-> [i \in faces |-> IF i \in new /\ SameDirection(from, st.body[i])
                                THEN Reversed(st.body[i]) ELSE st.body[i]],
      seen |-> st.seen \cup {f} \cup new,
      queue |-> Tail(queue) \o Ascending(new)]

Walk(body) ==
  LET adjacent == Adjacent(body)
      Visit(st, n) == Visited(body, adjacent, st)
  IN FoldLeft(Visit, [body |-> body, seen |-> {}, queue |-> <<>>],
              [n \in 1..Cardinality(DOMAIN body) |-> n]).body

FixNormals(body) ==
  LET walked == IF Winding(body) THEN body ELSE Walk(body)
  IN IF Watertight(body) /\ Volume(walked) < 0
     THEN [i \in DOMAIN body |-> Reversed(walked[i])] ELSE walked
-----------------------------------------------------------------------------
Corners(body) == UNION {Range(body[i]) : i \in DOMAIN body}

\* The interiors of the bounding boxes meet.
BoundsMeet(a, b) ==
  \A k \in 1..3 : /\ \E p \in Corners(a), q \in Corners(b) : p[k] < q[k]
                  /\ \E p \in Corners(a), q \in Corners(b) : p[k] > q[k]

\* any_overlap: the inside test of a vertex is left open.
AnyOverlap(bodies, inside) == inside /\ \E a, b \in bodies : a # b /\ BoundsMeet(a, b)

Largest(bodies) == CHOOSE n \in {Size(b) : b \in bodies} : \A b \in bodies : Size(b) <= n
Together(bodies) == MapThenSumSet(Size, bodies)

\* The union may be as large as the bodies, up to one percent.
SaneVolume(bodies, volume) ==
  /\ 99 * Largest(bodies) <= 100 * volume /\ 100 * volume <= 101 * Together(bodies)

Low(body, k) == CHOOSE n \in {p[k] : p \in Corners(body)} : \A p \in Corners(body) : n <= p[k]
High(body, k) == CHOOSE n \in {p[k] : p \in Corners(body)} : \A p \in Corners(body) : n >= p[k]

(***************************************************************************)
(* The convex hull, external: any closed body wound outward with the same  *)
(* bounds will do, and a tetrahedron in the corners of its box is one.     *)
(***************************************************************************)
Hull(body) ==
  LET l == [k \in 1..3 |-> Low(body, k)]
      h == [k \in 1..3 |-> High(body, k)]
      p == <<l[1], l[2], l[3]>>
      q == <<h[1], h[2], l[3]>>
      r == <<h[1], l[2], h[3]>>
      s == <<l[1], h[2], h[3]>>
  IN <<<<p, q, r>>, <<p, r, s>>, <<p, s, q>>, <<q, s, r>>>>
-----------------------------------------------------------------------------
(***************************************************************************)
(* prepare_mesh.  `env' says what happens outside of it: whether hulls can *)
(* be built, whether a vertex is inside another body, whether the bodies   *)
(* can be united to a watertight mesh and of what volume between the       *)
(* largest body and all together (or more), and whether anything panics.   *)
(***************************************************************************)
Volumes(bodies, which) ==
  CASE which = "smallest" -> Largest(bodies) [] which = "largest" -> Together(bodies)
    [] OTHER -> 2 * Together(bodies)

Prepare(faces, o, env) ==
  LET found == {b \in SplitBodies(MergePositions(faces)) : ~IsDegenerate(b)}
      hulled == o.hull /\ env.hulls /\ found # {}
      kept == IF hulled THEN {b \in {Hull(c) : c \in found} : ~IsDegenerate(b)} ELSE found
      fixed == {FixNormals(b) : b \in kept}
      closed == {b \in fixed : IsClosed(b)}
      overlapping == AnyOverlap(fixed, env.inside)
      counts == [n_closed |-> Cardinality(closed), n_open |-> Cardinality(fixed \ closed),
                 overlapping |-> overlapping]
      nothing == [n_closed |-> 0, n_open |-> 0, overlapping |-> FALSE]
      Report(action, seen) ==
        [action |-> action, n_bodies |-> Cardinality(kept), n_closed |-> seen.n_closed,
         n_open |-> seen.n_open, overlapping |-> seen.overlapping, convex_hull |-> hulled,
         warned |-> action = "skipped" \/ (o.hull /\ ~env.hulls /\ found # {})]
      Packs(what, report) == [mesh |-> what, bodies |-> fixed, report |-> report]
      Keep(counted) == IF hulled /\ kept # {} THEN Packs("hulls", Report("hulled", counted))
                       ELSE Packs("raw", Report("unchanged", counted))
      Skip == Packs("raw", Report("skipped", counts))
  IN CASE ~o.union /\ ~o.hull -> Packs("raw", Report("disabled", nothing))
       [] o # [union |-> FALSE, hull |-> FALSE] /\ env.panics ->
            Packs("raw", [Report("skipped", nothing) EXCEPT !.convex_hull = FALSE])
       [] OTHER ->
            IF ~o.union \/ Cardinality(kept) <= 1 THEN Keep(nothing)
            ELSE IF ~overlapping THEN Keep(counts)
            ELSE IF closed # fixed \/ ~env.unites THEN Skip
            ELSE IF env.watertight /\ SaneVolume(fixed, Volumes(fixed, env.volume))
                 THEN Packs("union", Report("unioned", counts)) ELSE Skip
-----------------------------------------------------------------------------
Init == mesh \in Meshes /\ prepared = [o \in {} |-> Refused]

\* prepared_with: once for each combination of options.
PreparedWith(o, env) ==
  /\ o \notin DOMAIN prepared
  /\ prepared' = [d \in DOMAIN prepared \cup {o} |->
                    IF d = o THEN Prepare(mesh, o, env) ELSE prepared[d]]
  /\ UNCHANGED mesh
-----------------------------------------------------------------------------
Turned(body, faces) == [i \in DOMAIN body |-> IF i \in faces THEN Reversed(body[i]) ELSE body[i]]

\* Its faces can be turned so that they enclose a volume.
CanBeClosed(body) == Watertight(body) /\ \E faces \in SUBSET DOMAIN body : Winding(Turned(body, faces))

(***************************************************************************)
(* The mesh that is packed can be trusted (mesh_prep.rs:15-17).  A raw     *)
(* mesh whose bodies are known to overlap comes with a warning; what is    *)
(* united are closed bodies, none wound inward, the faces of the mesh but  *)
(* for their direction; and only a body that no turning of its faces can   *)
(* close is called open, so that an overlap is never left in for its       *)
(* winding.  A flat body is told by its volume as found, which one face    *)
(* wound wrongly can give it, so one that encloses nothing may be united.  *)
(***************************************************************************)
PreparedMeshIsSound ==
  \A o \in DOMAIN prepared :
    LET p == prepared[o]
        found == {b \in SplitBodies(MergePositions(mesh)) : ~IsDegenerate(b)}
        counted == p.report.n_closed + p.report.n_open > 0
    IN /\ (p.mesh = "raw") = (p.report.action \in {"unchanged", "skipped", "disabled"})
       /\ p.mesh = "raw" /\ p.report.overlapping => p.report.warned
       /\ p.mesh = "union" => \A b \in p.bodies : IsClosed(b) /\ Volume(b) >= 0
       /\ p.mesh # "hulls" /\ ~o.hull =>
            {[i \in DOMAIN b |-> Range(b[i])] : b \in p.bodies}
              = {[i \in DOMAIN b |-> Range(b[i])] : b \in found}
       /\ ~o.hull /\ counted =>
            p.report.n_open = Cardinality({b \in found : ~CanBeClosed(b)})
       /\ o.hull /\ p.report.convex_hull => p.report.n_open = 0
=============================================================================
