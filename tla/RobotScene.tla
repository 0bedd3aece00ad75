----------------------------- MODULE RobotScene -----------------------------
(***************************************************************************)
(* Where the links, collisions and spheres of a robot are: the poses of a  *)
(* URDF at the zero joint configuration (crates/morphit-robot/src/         *)
(* kinematics.rs), in which the studio draws what was packed, and the      *)
(* sphere links that assembling adds to the URDF (assemble.rs).  Angles    *)
(* are quarter turns and lengths whole, so that rotations are exact.       *)
(***************************************************************************)
EXTENDS Integers, SequencesExt

CONSTANT NoName  \* of a joint without a parent or a child

\* Sine and cosine of a number of quarter turns.
Cos(a) == <<1, 0, -1, 0>>[(a % 4) + 1]
Sin(a) == Cos(a - 1)

(***************************************************************************)
(* A rotation is its three rows.                                           *)
(***************************************************************************)
Axes == 1..3
Dot(u, v)      == u[1] * v[1] + u[2] * v[2] + u[3] * v[3]
Rotate(r, v)   == [i \in Axes |-> Dot(r[i], v)]
Column(r, k)   == [i \in Axes |-> r[i][k]]
Compose(r, s)  == [i \in Axes |-> [k \in Axes |-> Dot(r[i], Column(s, k))]]
Plus(u, v)     == [i \in Axes |-> u[i] + v[i]]

\* Rz(yaw) Ry(pitch) Rx(roll).
RpyToMatrix(rpy) ==
  LET sr == Sin(rpy[1])  cr == Cos(rpy[1])
      sp == Sin(rpy[2])  cp == Cos(rpy[2])
      sy == Sin(rpy[3])  cy == Cos(rpy[3])
  IN  <<<<cy * cp, cy * sp * sr - sy * cr, cy * sp * cr + sy * sr>>,
        <<sy * cp, sy * sp * sr + cy * cr, sy * sp * cr - cy * sr>>,
        <<-sp, cp * sr, cp * cr>>>>

\* A bug for the checks to find: the origin is added before the rotation.
ApplyTranslatingFirst(c, origin) == Rotate(RpyToMatrix(origin.rpy), Plus(c, origin.xyz))

\* From the mesh frame of a collision into the frame of its link.
ApplyCollisionTransform(c, origin) == Plus(Rotate(RpyToMatrix(origin.rpy), c), origin.xyz)

Origin(xyz, rpy)  == [xyz |-> xyz, rpy |-> rpy]
Still             == <<0, 0, 0>>
FromOrigin(o)     == [rotation |-> RpyToMatrix(o.rpy), translation |-> o.xyz]
Identity          == FromOrigin(Origin(Still, Still))
After(p, q) ==
  [rotation |-> Compose(p.rotation, q.rotation),
   translation |-> Plus(Rotate(p.rotation, q.translation), p.translation)]
TransformPoint(p, v) == Plus(Rotate(p.rotation, v), p.translation)
-----------------------------------------------------------------------------
LinkNames(r) == {r.links[i].name : i \in DOMAIN r.links}

\* parse_joints: a joint has a parent and a child.
IsJoint(j)         == j.parent # NoName /\ j.child # NoName
IsChild(r, name)   == \E i \in DOMAIN r.joints : IsJoint(r.joints[i]) /\ r.joints[i].child = name

(***************************************************************************)
(* zero_config_link_poses: breadth first from the links no joint moves, in *)
(* document order; the first joint that reaches a link places it.  Links   *)
(* that are not reached stay at the origin.                                *)
(***************************************************************************)
Placed(search, name, pose) ==
  [poses |-> [l \in DOMAIN search.poses \cup {name} |->
                IF l = name THEN pose ELSE search.poses[l]],
   queue |-> Append(search.queue, name)]

WithRoot(r, search, link) ==
  IF IsChild(r, link.name) THEN search ELSE Placed(search, link.name, Identity)
Roots(r) ==
  FoldLeft(LAMBDA search, link : WithRoot(r, search, link),
           [poses |-> [l \in {} |-> Identity], queue |-> <<>>], r.links)

Followed(parent, search, j) ==
  IF IsJoint(j) /\ j.parent = parent /\ j.child \notin DOMAIN search.poses
  THEN Placed(search, j.child, After(search.poses[parent], FromOrigin(j.origin)))
  ELSE search

Popped(search) == [search EXCEPT !.queue = Tail(search.queue)]
Visited(r, search) ==
  IF search.queue = <<>> THEN search
  ELSE FoldLeft(LAMBDA now, j : Followed(Head(search.queue), now, j), Popped(search), r.joints)

\* A visit for each link and joint is enough to empty the queue.
Searched(r) ==
  FoldLeft(LAMBDA search, any : Visited(r, search), Roots(r), r.links \o r.joints)

ZeroConfigLinkPoses(r) ==
  LET reached == Searched(r).poses
  IN  [l \in LinkNames(r) \cup DOMAIN reached |->
         IF l \in DOMAIN reached THEN reached[l] ELSE Identity]

\* Where a collision's mesh, and what was packed into it, is drawn.
CollisionPose(link, origin) == After(link, FromOrigin(origin))
-----------------------------------------------------------------------------
(***************************************************************************)
(* The sphere links of an assembled robot: numbered within the collision,  *)
(* fixed to its link, not turned.  The last collision of a link comes      *)
(* first.                                                                  *)
(***************************************************************************)
\* A name is a sequence: of a link of the URDF one string, of a sphere link its number too.
SphereName(link, k)  == Append(link, k)
SphereLink(sphere)   == [name |-> sphere.name, collisions |-> <<>>]
FixedJoint(sphere) ==
  [parent |-> sphere.parent, child |-> sphere.name, origin |-> Origin(sphere.at, Still)]

SpheresFor(link, c) ==
  [k \in DOMAIN c.spheres |->
     [name |-> SphereName(link.name, k), parent |-> link.name,
      at |-> ApplyCollisionTransform(c.spheres[k], c.origin)]]
SpheresOf(link) ==
  FoldLeft(LAMBDA done, c : SpheresFor(link, c) \o done, <<>>, link.collisions)
Added(r) == FoldLeft(LAMBDA done, link : done \o SpheresOf(link), <<>>, r.links)

Cleared(link) == [name |-> link.name, collisions |-> <<>>]
WithSpheres(r) ==
  LET added == Added(r)
  IN  [links |-> [l \in DOMAIN r.links |-> Cleared(r.links[l])]
                   \o [a \in DOMAIN added |-> SphereLink(added[a])],
       joints |-> r.joints \o [a \in DOMAIN added |-> FixedJoint(added[a])]]

(***************************************************************************)
(* The assembled robot has its spheres where the studio drew them: each at *)
(* its place in the pose of the collision it was packed for ("every sphere *)
(* link sits at its parent's pose moved by the joint offset",              *)
(* kinematics.rs:183), and no link has moved.  Where spheres are numbered  *)
(* apart (one packed collision to a link) and the joints reach the link.   *)
(***************************************************************************)
PackedOf(link) == {i \in DOMAIN link.collisions : link.collisions[i].spheres # <<>>}

SpheresSitIn(robot) ==
  LET before  == ZeroConfigLinkPoses(robot)
      after   == ZeroConfigLinkPoses(WithSpheres(robot))
      reached == DOMAIN Searched(robot).poses
  IN  /\ \A l \in LinkNames(robot) : after[l] = before[l]
      /\ \A l \in DOMAIN robot.links :
           LET link == robot.links[l] IN
           link.name \in reached /\ Cardinality(PackedOf(link)) = 1 =>
             \A i \in PackedOf(link) : \A k \in DOMAIN link.collisions[i].spheres :
               after[SphereName(link.name, k)].translation =
                 TransformPoint(CollisionPose(before[link.name], link.collisions[i].origin),
                                link.collisions[i].spheres[k])
=============================================================================
