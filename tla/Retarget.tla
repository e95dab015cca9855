------------------------------- MODULE Retarget -------------------------------
(***************************************************************************)
(* crates/vrm/src/animation.rs: a clip read from a GLB or an FBX file, and *)
(* its Mixamo skeleton retargeted to the humanoid bones of VRM.            *)
(*                                                                         *)
(* A GLB file is                                                           *)
(*   [kind |-> "glb", nodes |-> [name, rest, children] by node index,      *)
(*    channels |-> sequence of [node, property, times, rotations]]         *)
(* and an FBX file                                                         *)
(*   [kind |-> "fbx", objects |-> function from ids,                       *)
(*    connections |-> sequence of [type, child, parent, label]]            *)
(* whose objects are Model [name, pre, lcl], AnimationCurve [times,        *)
(* values] and AnimationCurveNode; angles are 0 or 1 unit.  Node indices   *)
(* of an FBX come from a HashMap, in any order: the files that are checked *)
(* number their models in every order.                                     *)
(***************************************************************************)
EXTENDS Rotations, Sequences, FiniteSetsExt

LOCAL INSTANCE TLC
LOCAL INSTANCE Functions

None == "none"
NoNode == -1

-----------------------------------------------------------------------------
(* Names. *)

Sides == {"Left", "Right"}
Fingers == {"Thumb", "Index", "Middle", "Ring", "Little"}

\* The standard humanoid, as chains from a bone to its descendants.
Chains ==
  {<<"Hips", "Spine", "Chest", "UpperChest", "Neck", "Head", "Jaw">>}
    \cup UNION {{<<"Head", s \o "Eye">>,
                 <<"UpperChest", s \o "Shoulder", s \o "UpperArm",
                   s \o "LowerArm", s \o "Hand">>,
                 <<"Hips", s \o "UpperLeg", s \o "LowerLeg", s \o "Foot",
                   s \o "Toes">>} : s \in Sides}
    \cup {<<s \o "Hand", s \o f \o "Proximal", s \o f \o "Intermediate",
            s \o f \o "Distal">> : s \in Sides, f \in Fingers}

BoneNames == UNION {Range(c) : c \in Chains}

\* None for the hips, which have no entry in the map.
VrmParent ==
  [b \in BoneNames |->
     IF b = "Hips" THEN None
     ELSE CHOOSE p \in BoneNames :
            \E c \in Chains : \E i \in 2 .. Len(c) : c[i - 1] = p /\ c[i] = b]

\* Names that differ; the prefix "mixamorig:" is optional and left out.
Renamed(name) ==
  LET finger(f) == IF f = "Pinky" THEN "Little" ELSE f
      joint == <<"Proximal", "Intermediate", "Distal">>
      limbs == {<<s \o m[1], s \o m[2]>> : s \in Sides,
                m \in {<<"Arm", "UpperArm">>, <<"ForeArm", "LowerArm">>,
                       <<"UpLeg", "UpperLeg">>, <<"Leg", "LowerLeg">>,
                       <<"ToeBase", "Toes">>}}
      digits == {<<s \o "Hand" \o f \o ToString(k), s \o finger(f) \o joint[k]>> :
                 s \in Sides, k \in 1 .. 3,
                 f \in {"Thumb", "Index", "Middle", "Ring", "Pinky"}}
      pairs == limbs \cup digits \cup {<<"Spine1", "Chest">>, <<"Spine2", "UpperChest">>}
  IN  {p[2] : p \in {q \in pairs : q[1] = name}}

SameName == {"Hips", "Spine", "Neck", "Head"}
              \cup {s \o n : s \in Sides, n \in {"Shoulder", "Hand", "Foot"}}

MixamoToVrm(name) ==
  IF name \in SameName THEN name
  ELSE IF Renamed(name) # {} THEN CHOOSE b \in Renamed(name) : TRUE
  ELSE None

-----------------------------------------------------------------------------
(* The skeleton.  parent maps each node to its parent or NoNode. *)

\* A node gets its rotation when its parent has one, or when it has no parent.
ComputeNode(local, parent, world, i) ==
  LET ready == i \notin DOMAIN world /\ (parent[i] = NoNode \/ parent[i] \in DOMAIN world)
      own == IF parent[i] = NoNode THEN local[i] ELSE Times(world[parent[i]], local[i])
  IN  IF ready
        THEN [n \in DOMAIN world \cup {i} |-> IF n \in DOMAIN world THEN world[n] ELSE own]
        ELSE world

\* A pass over the nodes, in index order.
ComputePass(local, parent, world) ==
  LET n == Cardinality(DOMAIN parent)
      after[i \in 0 .. n] ==
        IF i = 0 THEN world ELSE ComputeNode(local, parent, after[i - 1], i - 1)
  IN  after[n]

\* compute_world_rotations: passes until none is left or none makes progress; as many as
\* there are nodes always suffice.
WorldRotations(local, parent) ==
  LET n == Cardinality(DOMAIN parent)
      after[k \in 0 .. n] ==
        IF k = 0 THEN <<>> ELSE ComputePass(local, parent, after[k - 1])
  IN  [i \in DOMAIN parent |-> IF i \in DOMAIN after[n] THEN after[n][i] ELSE Identity]

Longest(channels) == Max({0} \cup {Len(channels[n].times) : n \in DOMAIN channels})

\* Seeded fault: the parent's delta is undone on the wrong side.
LocalDeltaSwapped(delta, own, above) == Times(delta[own], Inv[delta[above]])

\* The rotation of a bone within its parent's.
LocalDelta(delta, own, above) == Times(Inv[delta[above]], delta[own])

\* A skeleton has the names, rests, parents and channels of its nodes.  Those
\* that drive a bone have its name and a channel.
BoneOf(skeleton, n) == MixamoToVrm(skeleton.names[n])
Driven(skeleton) == {n \in DOMAIN skeleton.channels : BoneOf(skeleton, n) # None}

\* The nodes that drive the bone above that of n.
AboveBone(skeleton, n) ==
  {m \in Driven(skeleton) : BoneOf(skeleton, m) = VrmParent[BoneOf(skeleton, n)]}

\* A frame is the k-th key of every channel; a channel without a k-th key is at
\* rest in it.
PoseAt(skeleton, k) ==
  [n \in DOMAIN skeleton.rest |->
     IF n \in DOMAIN skeleton.channels /\ k <= Len(skeleton.channels[n].rotations)
       THEN skeleton.channels[n].rotations[k] ELSE skeleton.rest[n]]

\* How the node has turned in the world, seen from the other side.
TurnAt(skeleton, k, n) ==
  Turned(Times(WorldRotations(PoseAt(skeleton, k), skeleton.parent)[n],
               Inv[WorldRotations(skeleton.rest, skeleton.parent)[n]]))

\* A bone whose parent has no channel keeps its world delta.  Of the nodes that
\* drive the parent the last counts: it is the one that bone_to_ch keeps.
LocalAt(skeleton, k, n) ==
  IF AboveBone(skeleton, n) = {} THEN TurnAt(skeleton, k, n)
  ELSE LocalDelta([m \in Driven(skeleton) |-> TurnAt(skeleton, k, m)], n,
                  Max(AboveBone(skeleton, n)))

\* A channel for each node that drives a bone and has keys.  Of the channels of one bone
\* AnimationPlayer::sample keeps the last.
RetargetToVrm(skeleton) ==
  LET channels == skeleton.channels
      kept == {n \in Driven(skeleton) : channels[n].times # <<>>}
      of(b) == Max({n \in kept : BoneOf(skeleton, n) = b})
  IN  [duration |-> Max({0} \cup UNION {Range(channels[n].times) : n \in DOMAIN channels}),
       channels |-> [b \in {BoneOf(skeleton, n) : n \in kept} |->
         [times |-> channels[of(b)].times,
          rotations |-> [k \in 1 .. Longest(channels) |-> LocalAt(skeleton, k, of(b))]]]]

-----------------------------------------------------------------------------
(* Files. *)

\* Only the channels of rotations count, and the last for a node.
GlbChannels(file) ==
  LET turning == {i \in DOMAIN file.channels : file.channels[i].property = "rotation"}
      of(n) == {i \in turning : file.channels[i].node = n}
  IN  [n \in {file.channels[i].node : i \in turning} |->
         [times |-> file.channels[Max(of(n))].times,
          rotations |-> file.channels[Max(of(n))].rotations]]

ParentsFrom(nodes) ==
  [n \in DOMAIN nodes |->
     LET above == {m \in DOMAIN nodes : n \in nodes[m].children}
     IN  IF above = {} THEN NoNode ELSE Max(above)]

GlbSkeleton(file) ==
  [names |-> [n \in DOMAIN file.nodes |-> file.nodes[n].name],
   rest |-> [n \in DOMAIN file.nodes |-> file.nodes[n].rest],
   parent |-> ParentsFrom(file.nodes),
   channels |-> GlbChannels(file)]

Models(file) == {i \in DOMAIN file.objects : file.objects[i].class = "Model"}

CurveNodes(file) ==
  {i \in DOMAIN file.objects : file.objects[i].class = "AnimationCurveNode"}

\* A curve without keys, or whose values are not as many as its times, is dropped.
Curves(file) ==
  {i \in DOMAIN file.objects :
     /\ file.objects[i].class = "AnimationCurve"
     /\ file.objects[i].times # <<>>
     /\ Len(file.objects[i].times) = Len(file.objects[i].values)}

\* A later connection of the same child replaces an earlier one.
Connected(file, children, parents, types) ==
  LET made == {i \in DOMAIN file.connections :
                 /\ file.connections[i].type \in types
                 /\ file.connections[i].child \in children
                 /\ file.connections[i].parent \in parents}
      of(c) == {i \in made : file.connections[i].child = c}
  IN  [c \in {file.connections[i].child : i \in made} |-> file.connections[Max(of(c))]]

\* FBX Euler angles: the turn about X first.
EulerXyzToQuat(x, y, z) == Times(Times(Turn("Z", z), Turn("Y", y)), Turn("X", x))

\* One channel for each curve node of a rotation: as many keys as its longest
\* curve, an axis without a k-th key at rest, the times those of the first of
\* the axes that has one.
FbxChannel(file, model, axes) ==
  LET keys == Max({0} \cup {Len(axes[a].times) : a \in DOMAIN axes})
      at(a, k) == a \in DOMAIN axes /\ k <= Len(axes[a].times)
      angle(a, i, k) == IF at(a, k) THEN axes[a].values[k] ELSE model.lcl[i]
      clock(k) == CHOOSE a \in {"X", "Y", "Z"} :
                    /\ at(a, k)
                    /\ a = "Y" => ~at("X", k)
                    /\ a = "Z" => ~at("X", k) /\ ~at("Y", k)
      pre == EulerXyzToQuat(model.pre[1], model.pre[2], model.pre[3])
  IN  [times |-> [k \in 1 .. keys |-> axes[clock(k)].times[k]],
       rotations |-> [k \in 1 .. keys |->
         Times(pre, EulerXyzToQuat(angle("X", 1, k), angle("Y", 2, k), angle("Z", 3, k)))]]

FbxChannels(file) ==
  LET curveOf == Connected(file, Curves(file), CurveNodes(file), {"OP", "OO"})
      modelOf == Connected(file, CurveNodes(file), Models(file), {"OP"})
      turning == {c \in DOMAIN modelOf : modelOf[c].label = "Rotation"}
      axisOf(c) == {k \in DOMAIN curveOf : curveOf[k].parent = c
                                            /\ curveOf[k].label \in {"X", "Y", "Z"}}
      axes(c) == [a \in {curveOf[k].label : k \in axisOf(c)} |->
                    file.objects[CHOOSE k \in axisOf(c) : curveOf[k].label = a]]
      moved == {c \in turning : axisOf(c) # {}}
  IN  [m \in {modelOf[c].parent : c \in moved} |->
         FbxChannel(file, file.objects[m],
                    axes(CHOOSE c \in moved : modelOf[c].parent = m))]

FbxSkeleton(file) ==
  LET models == Models(file)
      parentOf == Connected(file, models, models, {"OO"})
      euler(e) == EulerXyzToQuat(e[1], e[2], e[3])
  IN  [names |-> [m \in models |-> file.objects[m].name],
       rest |-> [m \in models |-> Times(euler(file.objects[m].pre),
                                        euler(file.objects[m].lcl))],
       parent |-> [m \in models |-> IF m \in DOMAIN parentOf
                                      THEN parentOf[m].parent ELSE NoNode],
       channels |-> FbxChannels(file)]

Skeleton(file) == IF file.kind = "glb" THEN GlbSkeleton(file) ELSE FbxSkeleton(file)

NoClip == [duration |-> -1, channels |-> <<>>]

\* AnimationClip::load: no clip from another format, nor from a file without
\* keys.
LoadClip(file) ==
  IF file.kind \in {"glb", "fbx"} /\ Longest(Skeleton(file).channels) > 0
    THEN RetargetToVrm(Skeleton(file)) ELSE NoClip
=============================================================================
