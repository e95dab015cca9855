------------------------------- MODULE Scene -------------------------------
(***************************************************************************)
(* crates/renderer: what Scene puts into the GPU's buffers for a model     *)
(* (app/src/init.rs makes the lists it is given), what prepare writes into *)
(* them on every frame, and what the render passes make of them            *)
(* (scene.rs, mesh.rs, morph.rs, skin.rs, texture.rs).  The buffers of a   *)
(* mesh are at its index in four lists.  A matrix is any value, a morph    *)
(* buffer the set of the targets with a weight, an image of the screen the *)
(* set of what can be seen.  Cameras, lights and the depth are left out.   *)
(***************************************************************************)
EXTENDS VrmLoader

NoMatrix == "none"
White == -1            \* the white texture, which no image is

\* init_all: the material of a mesh, or the default.
MaterialInput(model, i) ==
  LET m == model.meshes[i].material
  IN  IF m = 0 THEN PlainMaterial ELSE model.materials[m]

\* Scene::new: the bind group of a material, with a white texture if it has none.
GpuMaterial(input) ==
  [input EXCEPT !.texture = IF @ = 0 THEN White ELSE @]

\* PerMeshMorph::new: deltas by target; without one, a target that moves nothing.
PerMeshMorph(mesh) == [targets |-> mesh.targets, weights |-> {}]

\* SkinData::new, for all joints of all skins, or one.
SkinData(model) ==
  [j \in 1 .. (IF model.skins = <<>> THEN 1 ELSE Len(model.skins)) |-> NoMatrix]

NewScene(model) ==
  [meshes |-> [i \in DOMAIN model.meshes |-> model.meshes[i].vertices],
   materials |-> [i \in DOMAIN model.meshes |-> GpuMaterial(MaterialInput(model, i))],
   morphs |-> [i \in DOMAIN model.meshes |-> PerMeshMorph(model.meshes[i])],
   joints |-> SkinData(model)]

\* update_frame: the weights of every mesh, with presets in shown.
MorphWeights(model, shown) == [i \in DOMAIN model.meshes |-> Morphs(model, shown, i)]

\* prepare: nothing is written where nothing is given.
Prepare(scene, joints, weights) ==
  [scene EXCEPT
     !.joints = [j \in DOMAIN @ |-> IF j \in DOMAIN joints THEN joints[j] ELSE @[j]],
     !.morphs = [i \in DOMAIN @ |->
                   IF i \in DOMAIN weights /\ @[i].targets > 0
                     THEN [@[i] EXCEPT !.weights = weights[i]] ELSE @[i]]]

\* A mesh as the vertex and fragment shaders see it.
Drawn(scene, i) ==
  [vertices |-> [v \in DOMAIN scene.meshes[i] |-> scene.joints[scene.meshes[i][v]]],
   moved |-> scene.morphs[i].weights,
   material |-> scene.materials[i]]

\* render_to_view_with_depth_raw: a pass for the background, the video before
\* the image, and one for the meshes, which clears what is there unless a
\* background is to be seen behind them: in the overlay, whose clear colour is
\* transparent, it is not.
Passes(backgrounds, alpha) ==
  LET behind == IF "video" \in backgrounds THEN <<"video">>
                ELSE IF "image" \in backgrounds THEN <<"image">> ELSE <<>>
      loads == behind # <<>> /\ alpha = 1
  IN  [p \in DOMAIN behind |-> [load |-> FALSE, draw |-> behind[p]]]
        \o <<[load |-> loads, draw |-> "meshes"]>>

\* What a view shows after the passes, whatever was in it before.
Screen(backgrounds, alpha) ==
  LET passes == Passes(backgrounds, alpha)
      seen[p \in 0 .. Len(passes)] ==
        IF p = 0 THEN {"an earlier frame"}
        ELSE (IF passes[p].load THEN seen[p - 1] ELSE {}) \cup {passes[p].draw}
  IN  seen[Len(passes)]
=============================================================================
