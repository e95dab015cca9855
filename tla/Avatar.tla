-------------------------------- MODULE Avatar --------------------------------
(***************************************************************************)
(* The avatar from its files to its joints: app initialisation loads a VRM *)
(* model and an idle animation (app/src/init.rs), and every frame of       *)
(* update_frame (app/src/update.rs) advances the animation                 *)
(* (vrm/src/animation_player.rs), applies it and the solved rig to the     *)
(* humanoid bones (vrm/src/bone.rs), and computes the joint matrices.  The *)
(* keys T and I reset the bones (app/src/app.rs).                          *)
(*                                                                         *)
(* A rig part is the rotation the solver gives all of its bones, or none.  *)
(* Every slerp and blend is Halfway.  Translations and scales are left     *)
(* out; so are spring bones, whose tails nothing reads.                    *)
(***************************************************************************)
EXTENDS Retarget, Scene

CONSTANTS VrmFiles, ClipFiles,  \* the files that may be found
          Parts,                \* the parts a result may show
          Targets,              \* rotations the solver may find
          MaxSteps              \* bound: frames and keys after the start

ASSUME AvatarAssumption ==
  /\ \A f \in VrmFiles : ValidFile(f)
  /\ Parts \subseteq {"face", "pose", "left", "right"}
  /\ Targets \subseteq Rotation
  /\ MaxSteps \in Nat

VARIABLES file, model,  \* the VRM file and what was loaded from it
          source, clip, \* the animation file and its clip, or NoClip
          time,         \* AnimationPlayer.time
          enabled,      \* AnimationPlayer.enabled
          tracking,     \* AppState.tracking_enabled
          last,         \* AppState.last_tracking_result, as it is solved
          rig, dirty,   \* AppState.rig, .rig_dirty
          rot, prev,    \* local_rotation and prev_rotations of the bones
          steps         \* bound only

files == <<file, model, source, clip>>
avatarVars == <<files, time, enabled, tracking, last, rig, dirty, rot, prev, steps>>

NoTarget == <<>>
NoRig == [p \in Parts |-> NoTarget]
Results == [Parts -> Targets \cup {NoTarget}]

\* The bones of a hand, which apply_hand_bones sets.
HandBones(side) ==
  {b \in BoneNames : b = side \o "Hand" \/ \E f \in Fingers :
     b \in {side \o f \o j : j \in {"Proximal", "Intermediate", "Distal"}}}

\* collect_tracked_bones, for all parts that have a rig.
BonesOf(p) ==
  CASE p = "face" -> {"Neck", "LeftEye", "RightEye"}
    [] p = "pose" -> {"Hips", "Spine", "Chest"}
         \cup {s \o l \o m : s \in Sides, l \in {"Upper", "Lower"}, m \in {"Arm", "Leg"}}
    [] p = "left" -> HandBones("Left")
    [] p = "right" -> HandBones("Right")

TrackedBones == [p \in Parts |-> BonesOf(p)]

\* The bones whose bind rotation load_idle_animation hands to the player.
PlayerBones == {b \in BoneNames :
                  b \in {"Hips", "Spine", "Chest", "UpperChest", "Neck", "Head"}
                  \/ \E s \in Sides : b \in {s \o l : l \in {"Shoulder", "UpperArm", "LowerArm",
                       "Hand", "UpperLeg", "LowerLeg", "Foot", "Toes"}}}

\* The bones whose node the file has.  from_vrm_json takes the others as well.
Placed(m) == {b \in DOMAIN m.bones : m.bones[b] \in DOMAIN m.rest}

BindPose(m) == [b \in DOMAIN m.bones |-> IF m.bones[b] \in DOMAIN m.rest
                                           THEN m.rest[m.bones[b]] ELSE Identity]

AvatarInit ==
  /\ file \in VrmFiles /\ model = NoModel
  /\ source \in ClipFiles /\ clip = NoClip
  /\ time = 0 /\ enabled = TRUE
  /\ tracking = TRUE /\ last = NoRig /\ rig = NoRig /\ dirty = TRUE
  /\ rot = <<>> /\ prev = <<>>
  /\ steps = 0

\* The model must load; the animation need not.
Start ==
  /\ model = NoModel
  /\ Load(file) # NoModel
  /\ model' = Load(file)
  /\ clip' = LoadClip(source)
  /\ rot' = BindPose(model') /\ prev' = BindPose(model')
  /\ UNCHANGED <<file, source, time, enabled, tracking, last, rig, dirty, steps>>

-----------------------------------------------------------------------------
(* The animation player. *)

\* AnimationPlayer::update, for one unit of time.
NextTime ==
  IF clip = NoClip \/ ~enabled THEN time
  ELSE IF clip.duration > 0 THEN (time + 1) % clip.duration
  ELSE clip.duration

\* The rotation at t: that of a key, or between the two around t.  Before the
\* first and after the last time it is the first and the last rotation.
SampleRotation(channel, t) ==
  LET end == Len(channel.times)
      i == CHOOSE j \in 1 .. end : /\ channel.times[j] >= t
                                    /\ \A k \in 1 .. j - 1 : channel.times[k] < t
  IN  IF t <= channel.times[1] THEN channel.rotations[1]
      ELSE IF t >= channel.times[end] THEN channel.rotations[Len(channel.rotations)]
      ELSE IF channel.times[i] = t THEN channel.rotations[i]
      ELSE Halfway(channel.rotations[i - 1], channel.rotations[i])

\* The pose at t: deltas on the bind rotations.
Sample(t) ==
  [b \in DOMAIN clip.channels |->
     Times(IF b \in Placed(model) \cap PlayerBones THEN BindPose(model)[b] ELSE Identity,
           SampleRotation(clip.channels[b], t))]

-----------------------------------------------------------------------------
(* The bones. *)

IdleOn == clip # NoClip /\ enabled

\* blend_with_idle.
BlendWithIdle(bone, target, idle) ==
  IF bone \in DOMAIN idle THEN Halfway(idle[bone], target) ELSE target

\* The bones that apply_rig_to_model interpolates: the eyes need a look-at.
Interpolated(newRig) ==
  LET of(p) == IF newRig[p] = NoTarget THEN {} ELSE TrackedBones[p]
  IN  UNION {of(p) : p \in Parts}
        \ (IF model.lookAt THEN {} ELSE {"LeftEye", "RightEye"})

\* apply_rig_to_model: untracked bones follow the idle animation, without a
\* trace in prev; tracked ones go from prev towards the rig, which the idle
\* animation is blended into except for the eyes.
ApplyRigToModel(newRig, idle) ==
  LET tracked == UNION {TrackedBones[p] : p \in {q \in Parts : newRig[q] # NoTarget}}
      part(b) == CHOOSE p \in Parts : b \in TrackedBones[p]
      target(b) == IF b \in {"LeftEye", "RightEye"} THEN newRig[part(b)]
                   ELSE BlendWithIdle(b, newRig[part(b)], idle)
      moved == Interpolated(newRig)
  IN  /\ prev' = [b \in DOMAIN prev |-> IF b \in moved THEN Halfway(prev[b], target(b))
                                        ELSE prev[b]]
      /\ rot' = [b \in DOMAIN rot |->
                   IF b \in moved THEN prev'[b]
                   ELSE IF b \in DOMAIN idle \ tracked THEN idle[b]
                   ELSE rot[b]]

\* The nodes that n is a child of: one, or none for a root.
Above(m, n) == {p \in DOMAIN m.children : n \in m.children[p]}

\* The rotation of the bone at node n, or of the node at rest.
LocalRotation(m, r, n) ==
  IF \E b \in DOMAIN m.bones : m.bones[b] = n
    THEN r[CHOOSE b \in DOMAIN m.bones : m.bones[b] = n] ELSE m.rest[n]

\* Seeded fault: nodes are computed in the order of their indices.
ComputeJointMatricesInOrder(m, r) ==
  LET world[n \in DOMAIN m.rest] ==
        IF Above(m, n) = {} THEN LocalRotation(m, r, n)
        ELSE LET p == CHOOSE p \in Above(m, n) : TRUE
             IN  Times(IF p < n THEN world[p] ELSE Identity, LocalRotation(m, r, n))
  IN  world

\* The first node of the queue is computed, once, and its children wait.
Visit(m, r, s) ==
  LET n == Head(s.queue)
      parent == CHOOSE p \in Above(m, n) : TRUE
  IN  IF n \in DOMAIN s.world THEN [s EXCEPT !.queue = Tail(@)]
      ELSE [world |-> [k \in DOMAIN s.world \cup {n} |->
                         IF k \in DOMAIN s.world THEN s.world[k]
                         ELSE IF Above(m, n) = {} THEN LocalRotation(m, r, n)
                         ELSE Times(s.world[parent], LocalRotation(m, r, n))],
            queue |-> Tail(s.queue) \o SetToSeq(m.children[n])]

\* compute_joint_matrices: from the roots down, first come first served.
ComputeJointMatrices(m, r) ==
  LET roots == {n \in DOMAIN m.rest : Above(m, n) = {}}
      after[k \in 0 .. Cardinality(DOMAIN m.rest)] ==
        IF k = 0 THEN [world |-> <<>>, queue |-> SetToSeq(roots)]
        ELSE Visit(m, r, after[k - 1])
  IN  after[Cardinality(DOMAIN m.rest)].world

-----------------------------------------------------------------------------
(* Steps. *)

\* The parts that a result does not show stay as they were.
Solve(result) == [p \in Parts |-> IF result[p] = NoTarget THEN rig[p] ELSE result[p]]

\* update_frame, up to the joint matrices.  A new result is received only while
\* tracking; the last one is solved in every frame.  auto: key B has chosen the
\* automatic blink, which changes the rig.
Frame ==
  /\ model # NoModel
  /\ steps < MaxSteps
  /\ \E result \in {last} \cup (IF tracking THEN Results ELSE {}), auto \in BOOLEAN :
       /\ last' = result
       /\ rig' = Solve(result)
       /\ IF result # NoRig \/ auto \/ dirty \/ clip # NoClip
            THEN /\ ApplyRigToModel(rig', IF IdleOn THEN Sample(NextTime) ELSE <<>>)
                 /\ dirty' = FALSE
            ELSE UNCHANGED <<rot, prev, dirty>>
  /\ time' = NextTime
  /\ steps' = steps + 1
  /\ UNCHANGED <<files, enabled, tracking>>

\* r with the bones that have a node in the file back in the bind pose.
PutBack(r) == [b \in DOMAIN r |-> IF b \in Placed(model) THEN BindPose(model)[b] ELSE r[b]]

\* Seeded fault: the interpolation goes on from where it was.
ResetToBindPoseKeepsPrev == rot' = PutBack(rot) /\ prev' = prev

ResetToBindPose == rot' = PutBack(rot) /\ prev' = PutBack(prev)

\* Key T.  The last result stays.
ToggleTracking ==
  /\ model # NoModel
  /\ tracking' = ~tracking
  /\ IF tracking THEN rig' = NoRig /\ ResetToBindPose /\ dirty' = TRUE
     ELSE UNCHANGED <<rig, rot, prev, dirty>>
  /\ UNCHANGED <<files, time, enabled, last, steps>>

\* Key I.
ToggleIdle ==
  /\ model # NoModel /\ clip # NoClip
  /\ enabled' = ~enabled
  /\ dirty' = TRUE
  /\ IF enabled THEN ResetToBindPose ELSE UNCHANGED <<rot, prev>>
  /\ UNCHANGED <<files, time, tracking, last, rig, steps>>

AvatarNext == Start \/ Frame \/ ToggleTracking \/ ToggleIdle

AvatarSpec == AvatarInit /\ [][AvatarNext]_avatarVars

-----------------------------------------------------------------------------
(* Properties. *)

\* Every bone of the model, and no other, has a rotation and a previous one.
AvatarTypeOK ==
  /\ model # NoModel => /\ rot \in [DOMAIN model.bones -> Rotation]
                        /\ prev \in [DOMAIN model.bones -> Rotation]
  /\ time \in Nat /\ {enabled, tracking, dirty} \subseteq BOOLEAN
  /\ {last, rig} \subseteq Results

\* Rotation of a node in the world: the product along its path.
PathRotation(local, parent, node) ==
  LET down[n \in DOMAIN parent] ==
        IF parent[n] = NoNode THEN local[n] ELSE Times(down[parent[n]], local[n])
  IN  down[node]

ModelParent(m) == [n \in DOMAIN m.rest |->
                     LET above == {p \in DOMAIN m.children : n \in m.children[p]}
                     IN  IF above = {} THEN NoNode ELSE CHOOSE p \in above : TRUE]

NodeOf(m, r) == [n \in DOMAIN m.rest |->
                   IF \E b \in DOMAIN m.bones : m.bones[b] = n
                     THEN r[CHOOSE b \in DOMAIN m.bones : m.bones[b] = n] ELSE m.rest[n]]

\* The skins that the nodes of the g-th mesh of f are drawn with.
SkinsOf(f, g) == {f.nodes[n].skin : n \in {k \in DOMAIN f.nodes : f.nodes[k].mesh = g}}

\* They agree on skin s, but for those without one.
AgreeOnSkin(f, g, s) == SkinsOf(f, g) \ {0} = {s}

\* A mesh, as it is drawn under some binds of a preset, is a primitive of the
\* g-th mesh of f.
DrawnAs(f, g, primitive, binds, drawn) ==
  /\ \A v \in DOMAIN primitive.vertices : \A s \in SkinsOf(f, g) :
       AgreeOnSkin(f, g, s) => drawn.vertices[v] = f.skins[s][primitive.vertices[v]]
  /\ \A t \in 1 .. primitive.targets :
       t \in drawn.moved <=> \E b \in binds : b.mesh = g /\ b.target = t
  /\ primitive.material # 0 =>
       LET material == f.materials[primitive.material]
       IN  /\ drawn.material.colour = material.colour
           /\ drawn.material.texture =
                IF material.texture # 0 /\ f.images[f.textures[material.texture]]
                  THEN f.textures[material.texture] ELSE White
           /\ \A q \in DOMAIN f.vrm.properties :
                q = primitive.material /\ "ShadeColor" \in DOMAIN f.vrm.properties[q]
                  => drawn.material.shade = f.vrm.properties[q].ShadeColor

\* The i-th mesh of model m is drawn as the primitive of f it was made of: its
\* place among the meshes of the same mesh of f.
MeshMatches(f, m, i, preset) ==
  LET g == m.meshes[i].glMesh
      p == Cardinality({j \in 1 .. i : m.meshes[j].glMesh = g})
  IN  DrawnAs(f, g, f.meshes[g][p], m.presets[preset],
              Drawn(Prepare(NewScene(m), m.skins, MorphWeights(m, {preset})), i))

\* What is drawn is what the file says, however many skins, meshes and textures
\* come before it: every vertex follows the joint of its own mesh's skin that
\* the file names, if the nodes of the mesh agree on a skin; a preset moves the
\* targets it names of the primitives of the meshes it names; and a primitive
\* has its own material's colours and image.  Behind the meshes is the
\* background, but in the overlay, and nothing of an earlier frame.
MeshesMatchFile ==
  /\ \A backgrounds \in SUBSET {"image", "video"}, alpha \in {0, 1} :
       Screen(backgrounds, alpha) =
         {"meshes"} \cup IF alpha = 0 THEN {}
                         ELSE IF "video" \in backgrounds THEN {"video"} ELSE backgrounds
  /\ model # NoModel =>
       \A i \in DOMAIN model.meshes, preset \in DOMAIN model.presets :
         MeshMatches(file, model, i, preset)

\* Whatever the order of the node indices, the joint matrix of a node is the
\* product of the rotations on its path from the root.
WorldFollowsPath ==
  model # NoModel =>
    \A n \in DOMAIN model.rest :
      ComputeJointMatrices(model, rot)[n] = PathRotation(NodeOf(model, rot), ModelParent(model), n)

\* b and the bones above it.
Chain(b) ==
  LET up[c \in BoneNames] == {c} \cup (IF VrmParent[c] = None THEN {} ELSE up[VrmParent[c]])
  IN  up[b]

\* The model has b and every bone above it, its source moves them all, and
\* its nodes are at rest in the identity.
Carried(b) ==
  /\ Chain(b) \subseteq Placed(model) \cap DOMAIN clip.channels
  /\ \A n \in DOMAIN model.rest : model.rest[n] = Identity

\* While nothing is tracked, the model's bones turn in the world as the
\* source's bones turn from their rest, seen from the other side, at every key
\* that all channels share.
IdleFollowsSource ==
  [][(Frame /\ rig' = NoRig /\ IdleOn) =>
       LET skeleton == Skeleton(source)
           channels == skeleton.channels
           world(local, n) == PathRotation(local, skeleton.parent, n)
       IN  \A b \in DOMAIN clip.channels, k \in 1 .. Longest(channels) :
             (/\ Carried(b)
              /\ \A c \in DOMAIN channels : k \in DOMAIN channels[c].times
                                             /\ channels[c].times[k] = time') =>
             LET n == Max({m \in DOMAIN channels : MixamoToVrm(skeleton.names[m]) = b})
                 pose == [m \in DOMAIN skeleton.rest |->
                            IF m \in DOMAIN channels THEN channels[m].rotations[k]
                            ELSE skeleton.rest[m]]
             IN  ComputeJointMatrices(model, rot')[model.bones[b]]
                   = Turned(Times(world(pose, n), Inv[world(skeleton.rest, n)]))]_avatarVars

\* Unless the idle animation is playing, a bone that turns a node of the file is
\* interpolated from the rotation it shows: no key leaves an older one behind.
InterpolatesFromShown ==
  model # NoModel /\ ~IdleOn => \A b \in Placed(model) : rot[b] = prev[b]

\* The same of all bones, as reset_to_bind_pose promises: "Reset all bone
\* rotations and positions to their bind pose values".
AllBonesFromShown == model # NoModel /\ ~IdleOn => rot = prev

\* The same at all times, as from_vrm_json has it: slerp "interpolates FROM
\* bind pose", and later from where Part.quaternion is.
AlwaysInterpolatesFromShown == model # NoModel => rot = prev
=============================================================================
