----------------------------- MODULE MCLibrary ------------------------------
(***************************************************************************)
(* The sequential parts of the library for TLC: a behaviour is that of a   *)
(* robot package in memory, of a mesh that is prepared, or of configs; or  *)
(* it is a robot that is assembled.                                        *)
(***************************************************************************)
EXTENDS RobotPackage, RobotScene

CONSTANTS
  Meshes, MaxPrepared, U64Max, Ints, Halves, Strings, Documents, MaxAsked, Refused,
  UpdateLists, PackRequests, Commands, \* bound: the updates, requests and command lines of hosts
  Robots                               \* bound: the robots that are assembled

VARIABLES topic, mesh, prepared, start, config, asked, running, robot

Conf == INSTANCE Configuration
Prep == INSTANCE MeshPrep
prepVars == <<mesh, prepared>>
configVars == <<start, config, asked, running>>

(***************************************************************************)
(* Hosts send JSON values, each of one kind, for parameters in some order. *)
(***************************************************************************)
Kinds == {"int", "float", "bool", "string", "null"}
IsJson(value) ==
  \E kind \in Kinds : DOMAIN value = {kind} /\ (kind = "null" => value = Conf!Null)
IsUpdates(updates) ==
  /\ Len(updates) \in Nat /\ DOMAIN updates = 1..Len(updates)
  /\ \A i \in DOMAIN updates : IsJson(updates[i][2])

(***************************************************************************)
(* A robot: every link has a name of its own, which no joint and no other  *)
(* link shares with the sphere links it will get.                          *)
(***************************************************************************)
Vectors     == [Axes -> Int]
IsOrigin(o) == o.xyz \in Vectors /\ o.rpy \in Vectors
Named(r) ==
  LinkNames(r) \cup UNION {{r.joints[i].parent, r.joints[i].child} : i \in DOMAIN r.joints}

IsPacked(c) ==
  IsOrigin(c.origin) /\ IsSequence(c.spheres) /\ \A k \in DOMAIN c.spheres : c.spheres[k] \in Vectors
IsLink(r, link) ==
  /\ IsSequence(link.name) /\ link.name # NoName /\ IsSequence(link.collisions)
  /\ \A c \in DOMAIN link.collisions :
       /\ IsPacked(link.collisions[c])
       /\ \A k \in DOMAIN link.collisions[c].spheres :
            SphereName(link.name, k) \notin Named(r) \cup {NoName}
IsRobot(r) ==
  /\ IsSequence(r.links) /\ IsSequence(r.joints)
  /\ \A i \in DOMAIN r.joints : IsOrigin(r.joints[i].origin)
  /\ \A i \in DOMAIN r.links : IsLink(r, r.links[i])
  /\ \A i, j \in DOMAIN r.links : r.links[i].name = r.links[j].name => i = j

(***************************************************************************)
(* A mesh: any sequence of faces with three corners in space.              *)
(***************************************************************************)
Points == Int \X Int \X Int
IsMesh(faces) ==
  IsSequence(faces) /\ \A i \in DOMAIN faces : \A k \in 1..3 : faces[i][k].at \in Points

ASSUME LibraryAssumption ==
  /\ U64Max \in Nat
  /\ \A updates \in UpdateLists : IsUpdates(updates)
  /\ \A params \in PackRequests : IsUpdates(params.advanced)
  /\ \A args \in Commands : IsUpdates(args.sets)
  /\ \A r \in Robots : IsRobot(r)
  /\ \A faces \in Meshes : IsMesh(faces)
-----------------------------------------------------------------------------
Ref(kind, pkg_, rel) == [kind |-> kind, pkg |-> pkg_, rel |-> rel]
MeshAt(ref) == [shape |-> "mesh", ref |-> ref]
Shape(shape) == [shape |-> shape]

Arm ==
  [kind |-> "robot", links |->
     <<[name |-> "base", collisions |->
          <<Shape("box"), MeshAt(Ref("package", "robot", <<"meshes", "m">>))>>],
       [name |-> "tool", collisions |->
          <<MeshAt(Ref("relative", "", <<"..", "meshes", "m">>)), Shape("sphere"),
            MeshAt(Ref("package", "other", <<"m">>)), Shape("plane")>>]>>]
Hand ==
  [kind |-> "robot", links |->
     <<[name |-> "tool", collisions |-> <<MeshAt(Ref("relative", "", <<"meshes", "m">>))>>]>>]
AllDocs == [arm |-> Arm, hand |-> Hand, xacro |-> [kind |-> "xacro", links |-> <<>>]]

AllUploads ==
  {<<<<"robot", "urdf", "arm.urdf">>, "arm">>, <<<<"robot", ".", "urdf", "arm.urdf">>, "hand">>,
   <<<<"hand.urdf">>, "hand">>, <<<<"x", "..", "hand.urdf">>, "xacro">>,
   <<<<"robot", "meshes", "m">>, "mesh">>, <<<<"meshes", "m">>, "broken mesh">>,
   <<<<"robot", "meshes">>, "mesh">>, <<<<Drive, "m">>, "mesh">>}
AllReferences ==
  {Ref(kind, p, rel) : kind \in {"package", "relative"}, p \in {"robot", "other"},
     rel \in {<<"meshes", "m">>, <<"..", "meshes", "m">>, <<"..", "..", "meshes", "m">>, <<"m">>,
              <<"..", "..", "..", "m">>, <<"meshes", ".", "m">>, <<"">>, <<"meshes">>}}
    \cup {Ref("absolute", "", <<"meshes", "m">>)}
-----------------------------------------------------------------------------
AllHalves == {-2, 1, 4, 2 * (U64Max + 1)}
AllInts == {-1, 0, 2, 201}
AdvancedMaps ==
  {<<>>, <<<<"coverage_weight", Conf!Float(3)>>, <<"iterations", Conf!Integer(2)>>>>,
   <<<<"num_inside_samples", Conf!Float(4)>>, <<"num_spheres", Conf!Integer(201)>>>>,
   <<<<"num_inside_samples", Conf!Integer(0)>>>>, <<<<"num_inside_samples", Conf!Null>>>>,
   <<<<"density_control_cooling_factor", Conf!Float(-2)>>>>}
AllPackRequests ==
  [variant : {"V", "B"}, num_spheres : {0, 1, 200, 201}, iterations : {0, 1, 1000, 1001},
   seed : {-1, 7}, advanced : AdvancedMaps]
AllDocuments ==
  {("model.num_spheres" :> [float |-> 4]),
   ("model.num_spheres" :> [int |-> 2]) @@ ("model.nothing" :> [null |-> -1])}
ConfigFiles == {<<>>, [k \in {"training.coverage_weight"} |-> Conf!Float(3)]} \cup Documents
SetArguments ==
  {<<>>, <<<<"training.coverage_weight", Conf!Integer(2)>>, <<"training.coverage_weight", Conf!Float(1)>>>>,
   <<<<"training.iterations", Conf!Float(1)>>>>, <<<<"model.device", Conf!Str("cuda")>>>>}
AllCommands ==
  [preset : {"V", "B"}, file : ConfigFiles, iterations : {-1, 2}, device : {"", "cuda:1", "tpu"},
   sets : SetArguments]
AllUpdates ==
  {<<<<k, v>>, <<j, w>>>> : k \in {"model.num_spheres", "training.iterations"},
       v \in {Conf!Integer(2), Conf!Float(4), Conf!Float(1)},
       j \in {"random_seed", "model.nothing"}, w \in {Conf!Integer(2), Conf!Null}}

\* One parameter of each type and of each rule of Validate.
Keys == {"model.num_spheres", "model.device", "training.density_control_cooling_factor",
         "training.flatness_weight", "training.prune_contained_spheres", "random_seed"}

ConfigNext ==
  \/ \E k \in Keys \cup Conf!OtherKeys, v \in Conf!JsonValues : Conf!SetOne(k, v)
  \/ \E updates \in UpdateLists : Conf!SetMany(updates)
  \/ Conf!StartSession

RequestNext ==
  /\ running = Refused
  /\ \/ \E params \in PackRequests, device \in {"auto", "cpu"} : Conf!StartPack(params, device)
     \/ \E args \in Commands : Conf!StartCommand(args)
-----------------------------------------------------------------------------
Vertex(x, y, z) == [at |-> <<x, y, z>>, copy |-> 0]
Tetrahedron(x) ==
  LET o == Vertex(x, 0, 0)  a == Vertex(x + 2, 0, 0)  b == Vertex(x, 2, 0)  c == Vertex(x, 0, 2)
  IN <<<<o, b, a>>, <<o, a, c>>, <<o, c, b>>, <<a, b, c>>>>
Octahedron ==
  LET e == Vertex(2, 0, 0)  w == Vertex(-2, 0, 0)  n == Vertex(0, 2, 0)
      s == Vertex(0, -2, 0)  u == Vertex(0, 0, 2)  d == Vertex(0, 0, -2)
  IN <<<<e, n, u>>, <<n, w, u>>, <<w, s, u>>, <<s, e, u>>,
       <<n, e, d>>, <<w, n, d>>, <<s, w, d>>, <<e, s, d>>>>
\* Flat, but with a volume when one of its four faces is turned.
Pillow ==
  LET a == Vertex(-1, -1, 1)  b == Vertex(1, -1, 1)  c == Vertex(1, 1, 1)  d == Vertex(-1, 1, 1)
  IN <<<<a, b, c>>, <<a, c, d>>, <<a, d, b>>, <<b, d, c>>>>
\* Five faces with one side only.
Moebius ==
  LET p == <<Vertex(0, 0, 0), Vertex(2, 0, 0), Vertex(3, 2, 1), Vertex(1, 3, 2), Vertex(-1, 2, 1)>>
  IN [i \in 1..5 |-> <<p[i], p[(i % 5) + 1], p[((i + 1) % 5) + 1]>>]
\* A copy of the vertices of every face.
Exploded(faces) == [i \in DOMAIN faces |-> [k \in 1..3 |-> [faces[i][k] EXCEPT !.copy = i]]]
Turned(faces, which) ==
  [i \in DOMAIN faces |-> IF i \in which THEN Reverse(faces[i]) ELSE faces[i]]
SomeFaces == {{}, 1..8} \cup {{3, k} : k \in 1..8}

AllMeshes ==
  {Turned(Octahedron, f) \o Tetrahedron(1) : f \in SomeFaces}
    \cup {Turned(Octahedron \o Tetrahedron(x), f) : x \in {1, 2, 4}, f \in {{}, {9}, {2, 9, 11}}}
    \cup {Exploded(Octahedron \o Tetrahedron(1)), Exploded(Tetrahedron(0)),
          Octahedron \o Octahedron, Tail(Octahedron) \o Tetrahedron(1),
          Octahedron \o Turned(Pillow, {1}), Octahedron \o Moebius, Tetrahedron(0) \o Tail(Tetrahedron(1))}

Usual == [hulls |-> TRUE, inside |-> TRUE, unites |-> TRUE, watertight |-> TRUE,
          volume |-> "smallest", panics |-> FALSE]
Environments ==
  {Usual, [Usual EXCEPT !.volume = "largest"], [Usual EXCEPT !.volume = "too large"],
   [Usual EXCEPT !.hulls = FALSE], [Usual EXCEPT !.inside = FALSE], [Usual EXCEPT !.unites = FALSE],
   [Usual EXCEPT !.watertight = FALSE], [Usual EXCEPT !.panics = TRUE]}

PrepNext ==
  /\ Cardinality(DOMAIN prepared) < MaxPrepared
  /\ \E o \in Prep!Options, env \in Environments : Prep!PreparedWith(o, env)
-----------------------------------------------------------------------------
Turns == {<<0, 0, 0>>, <<1, 0, 0>>, <<0, 1, 2>>, <<1, 1, 1>>, <<2, 3, 1>>}
JointOf(parent, child, turn) ==
  [parent |-> parent, child |-> child, origin |-> Origin(<<1, 2, 4>>, turn)]
Collision(turn, packed) == [origin |-> Origin(<<-3, 0, 5>>, turn), spheres |-> packed]

Base == <<"base">>
Elbow == <<"elbow">>
Wrist == <<"wrist">>

\* A chain, in and out of order; two ways to a link; two joints to one; a loop; half joints.
Joints(t, u) ==
  {<<JointOf(Base, Elbow, t), JointOf(Elbow, Wrist, u)>>,
   <<JointOf(Elbow, Wrist, u), JointOf(Base, Elbow, t)>>,
   <<JointOf(Base, Elbow, t), JointOf(Base, Wrist, u), JointOf(Wrist, Elbow, t)>>,
   <<JointOf(Base, Elbow, t), JointOf(Base, Elbow, u), JointOf(NoName, Wrist, u)>>,
   <<JointOf(Elbow, Wrist, t), JointOf(Wrist, Elbow, u), JointOf(Base, NoName, t)>>,
   <<JointOf(<<"world">>, Elbow, t), JointOf(Wrist, Base, u)>>}
LinksWith(t, u) ==
  <<[name |-> Base, collisions |-> <<Collision(t, <<<<1, 2, 3>>, <<7, 0, -1>>>>)>>],
    [name |-> Elbow, collisions |->
       <<Collision(<<0, 3, 0>>, <<>>), Collision(u, <<<<0, 3, 1>>>>)>>],
    [name |-> Wrist, collisions |-> <<Collision(<<0, 3, 0>>, <<<<1, 0, 2>>, <<2, 0, 0>>>>)>>]>>
AllRobots ==
  UNION {[links : {LinksWith(t, u)}, joints : UNION {Joints(v, w) : v \in Turns, w \in Turns}] :
           t \in Turns, u \in Turns}
-----------------------------------------------------------------------------
LibraryInit ==
  /\ topic \in {"mesh", "config", "request", "C package", "Python package", "scene"}
  /\ Init /\ Conf!Init
  /\ topic = "config" \/ start = Conf!FromPreset("B")
  /\ IF topic = "mesh" THEN Prep!Init ELSE mesh = Refused /\ prepared = Refused
  /\ IF topic = "scene" THEN robot \in Robots ELSE robot = Refused

\* Only C holds reports and names the items of one; pack_all is Python's.
PackageNext ==
  \/ \E u \in Uploads : AddFile(u[1], u[2])
  \/ topic = "C package" /\ \E name \in {"", "arm.urdf"} : Inspect(name)
  \/ /\ topic = "C package" /\ report # NoReport
     /\ \E it \in report.items, n \in SphereSets :
          it.action = "pack" /\ SetLinkResult(Key(it), n)
  \/ ClearLinkResults
  \/ /\ topic = "Python package"
     /\ \/ \E key \in {<<"base", 1>>, <<"tool", 1>>}, n \in SphereSets : SetLinkResult(key, n)
        \/ StartPackAll("")
        \/ packing # NoReport /\ \E it \in packing, n \in SphereSets : PackNext(it, n)
        \/ EndPackAll

LibraryNext ==
  /\ \/ topic \in {"C package", "Python package"} /\ PackageNext /\ UNCHANGED <<configVars, prepVars>>
     \/ topic = "config" /\ ConfigNext /\ UNCHANGED <<vars, prepVars>>
     \/ topic = "request" /\ RequestNext /\ UNCHANGED <<vars, prepVars>>
     \/ topic = "mesh" /\ PrepNext /\ UNCHANGED <<vars, configVars>>
  /\ UNCHANGED <<topic, robot>>

LibrarySpec == LibraryInit /\ [][LibraryNext]_<<topic, vars, configVars, prepVars, robot>>

\* The mesh that prepare_mesh hands out can be trusted: closed bodies are united, overlaps are told.
PreparedMeshIsSound == topic = "mesh" => Prep!PreparedMeshIsSound
\* Assembling a robot moves no link, and puts each sphere where its collision was drawn with it.
SpheresSitWhereTheyWerePacked == topic = "scene" => SpheresSitIn(robot)
\* A session runs the values that were last accepted for it, and no others.
SessionsRunWhatWasAsked == Conf!SessionsRunWhatWasAsked
=============================================================================
