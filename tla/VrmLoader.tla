------------------------------ MODULE VrmLoader ------------------------------
(***************************************************************************)
(* crates/vrm/src/loader.rs and what it calls: a VRM 0.x file to the       *)
(* model the app animates and draws.  load reads a path and                *)
(* load_from_bytes a buffer; their bodies are the same.  A file is         *)
(*   [nodes |-> by node index [rest, children, mesh, skin],                *)
(*    skins |-> sequence of sequences of nodes,                            *)
(*    meshes |-> sequence of sequences of primitives [vertices, targets,   *)
(*    material],                                                           *)
(*    images |-> whether each can be decoded, textures |-> their images,   *)
(*    materials |-> [colour, texture],                                     *)
(*    vrm |-> the extension: the sections it has, [sections, bones,        *)
(*    groups, properties, lookAt]]                                         *)
(* with all but the nodes numbered from 1, and 0 for none.  A vertex is    *)
(* the joint it is bound to, an image its index; geometry is left out.     *)
(***************************************************************************)
EXTENDS Rotations, FiniteSets, SequencesExt

NoModel == [meshes |-> <<>>]

\* What glTF asks of a file: every index leads to something, a vertex names a
\* joint of each skin that it is shown with, and the nodes make up trees.
ValidFile(file) ==
  LET nodes == DOMAIN file.nodes
  IN  /\ IsFiniteSet(nodes) /\ nodes = 0 .. Cardinality(nodes) - 1
      /\ file.skins \in Seq(Seq(nodes))
      /\ file.meshes \in Seq(Seq([vertices : Seq(Nat), targets : Nat,
                                 material : {0} \cup DOMAIN file.materials]))
      /\ file.images \in Seq(BOOLEAN) /\ file.textures \in Seq(DOMAIN file.images)
      /\ \A k \in DOMAIN file.materials :
           file.materials[k].texture \in {0} \cup DOMAIN file.textures
      /\ \A n \in nodes :
           /\ file.nodes[n].skin \in 0 .. Len(file.skins)
           /\ \A m \in DOMAIN file.meshes : \A p \in DOMAIN file.meshes[m] :
                file.nodes[n].mesh = m /\ file.nodes[n].skin # 0 =>
                  \A v \in DOMAIN file.meshes[m][p].vertices :
                    file.meshes[m][p].vertices[v] \in DOMAIN file.skins[file.nodes[n].skin]
           /\ file.nodes[n].children \subseteq nodes
           /\ \A k \in nodes \ {n} : file.nodes[n].children \cap file.nodes[k].children = {}
      /\ \E depth \in [nodes -> nodes] :
           \A n \in nodes : \A k \in file.nodes[n].children : depth[n] < depth[k]

\* The image of a texture, or 0 if there is none that could be decoded.
Texture(file, texture) ==
  IF texture # 0 /\ file.images[file.textures[texture]] THEN file.textures[texture] ELSE 0

\* What is known of a material without the VRM extension.
PlainMaterial == [colour |-> "white", texture |-> 0, shade |-> "grey", rim |-> 1]

\* apply_vrm_mtoon_properties: the i-th properties are the i-th material's.
\* _RimFresnelPower overrides _RimLightingMix, which is stored in its place.
MToon(material, properties) ==
  [material EXCEPT
     !.shade = IF "ShadeColor" \in DOMAIN properties THEN properties.ShadeColor ELSE @,
     !.rim = IF "RimFresnelPower" \in DOMAIN properties THEN properties.RimFresnelPower
             ELSE IF "RimLightingMix" \in DOMAIN properties THEN properties.RimLightingMix
             ELSE @]

Materials(file) ==
  [i \in DOMAIN file.materials |->
     LET plain == [PlainMaterial EXCEPT !.colour = file.materials[i].colour,
                                        !.texture = Texture(file, file.materials[i].texture)]
     IN  IF i \in DOMAIN file.vrm.properties THEN MToon(plain, file.vrm.properties[i]) ELSE plain]

\* The skin of the last node that shows the mesh, or 0.
MeshToSkin(file, mesh) ==
  LET users == {n \in DOMAIN file.nodes :
                  file.nodes[n].mesh = mesh /\ file.nodes[n].skin # 0}
  IN  IF users = {} THEN 0 ELSE file.nodes[Max(users)].skin

\* Seeded fault: the joints of every skin are numbered from the first.
SkinOffsetNone(file, skin) == 0

\* Joints of a skin come after those of the skins before it; a mesh without
\* a skin has offset 0.
SkinOffset(file, skin) ==
  IF skin = 0 THEN 0 ELSE Len(FlattenSeq(SubSeq(file.skins, 1, skin - 1)))

\* One mesh for each primitive: its index in the file is kept for the morphs.
Meshes(file) ==
  FlattenSeq([m \in DOMAIN file.meshes |->
    [p \in DOMAIN file.meshes[m] |->
       [vertices |-> [v \in DOMAIN file.meshes[m][p].vertices |->
                        file.meshes[m][p].vertices[v]
                          + SkinOffset(file, MeshToSkin(file, m))],
        targets |-> file.meshes[m][p].targets,
        material |-> file.meshes[m][p].material,
        glMesh |-> m]]])

\* The joints of all skins, one after the other.
Skins(file) == FlattenSeq(file.skins)

\* HumanoidBones::from_vrm_json: an entry of a known bone replaces an earlier
\* one; a node outside the file has the identity.
HumanBones(file) ==
  LET entries == file.vrm.bones
      of(b) == {i \in DOMAIN entries : entries[i].bone = b}
  IN  [b \in {entries[i].bone : i \in DOMAIN entries} |-> entries[Max(of(b))].node]

Rest(file, node) == IF node \in DOMAIN file.nodes THEN file.nodes[node].rest ELSE Identity

\* BlendShapeGroup::from_vrm_json: the last group of a preset counts.
Presets(file) ==
  LET groups == file.vrm.groups
      of(p) == {i \in DOMAIN groups : groups[i].preset = p}
  IN  [p \in {groups[i].preset : i \in DOMAIN groups} |-> groups[Max(of(p))].binds]

\* What must be in the VRM extension: the bones and the blend shapes, and the
\* bone groups of a secondary animation.  The look-at may be missing or broken.
ExtensionOk(file) ==
  /\ {"humanBones", "blendShapeGroups"} \subseteq file.vrm.sections
  /\ "secondaryAnimation" \in file.vrm.sections => "boneGroups" \in file.vrm.sections

Load(file) ==
  IF ~ExtensionOk(file) THEN NoModel
  ELSE [meshes |-> Meshes(file),
        materials |-> Materials(file),
        skins |-> Skins(file),
        bones |-> HumanBones(file),
        presets |-> Presets(file),
        rest |-> [n \in DOMAIN file.nodes |-> file.nodes[n].rest],
        children |-> [n \in DOMAIN file.nodes |-> file.nodes[n].children],
        lookAt |-> file.vrm.lookAt]

\* get_weights_for_mesh: the targets of the i-th mesh that the presets in
\* shown move.
Morphs(model, shown, i) ==
  {b.target : b \in {c \in UNION {model.presets[p] : p \in shown \cap DOMAIN model.presets} :
                       /\ c.mesh = model.meshes[i].glMesh
                       /\ c.target <= model.meshes[i].targets}}
=============================================================================
