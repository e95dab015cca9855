------------------------------- MODULE MCAvatar -------------------------------
(* Small files for TLC: a chain of three bones in every order of the node    *)
(* indices, one and two skins, GLB and FBX clips with keys of every shape.   *)
EXTENDS Avatar

Orders == {o \in [1 .. 3 -> 0 .. 2] : \A i, j \in 1 .. 3 : i # j => o[i] # o[j]}

\* Two meshes share skin 2 and skin 1, or one is not skinned.
MCVrm(o, rest, lookAt, extension) ==
  [nodes |-> [n \in 0 .. 4 |->
     IF n > 2 THEN [rest |-> Identity, children |-> {}, mesh |-> n - 2, skin |-> 5 - n]
     ELSE [rest |-> IF n = o[2] THEN rest ELSE Identity, mesh |-> 0, skin |-> 0,
           children |-> CASE n = o[1] -> {o[2]} [] n = o[2] -> {o[3]} [] OTHER -> {}]],
   skins |-> <<<<o[1], o[2]>>, <<o[3]>>>>,
   meshes |-> <<<<[vertices |-> <<1>>, targets |-> 1, material |-> 2],
                  [vertices |-> <<1>>, targets |-> 2, material |-> 0]>>,
                <<[vertices |-> <<2, 1>>, targets |-> 1, material |-> 1]>>>>,
   images |-> <<FALSE, TRUE, TRUE>>,
   textures |-> <<3, 1, 2>>,
   materials |-> <<[colour |-> "red", texture |-> 1], [colour |-> "blue", texture |-> 2],
                   [colour |-> "green", texture |-> 0]>>,
   vrm |-> [sections |-> extension,
            lookAt |-> lookAt,
            properties |-> <<[ShadeColor |-> "pink", RimLightingMix |-> 0], [RimFresnelPower |-> 5]>>,
            bones |-> <<[bone |-> "Hips", node |-> o[1]],
                       [bone |-> "Spine", node |-> o[2]],
                       [bone |-> "LeftEye", node |-> o[3]]>>,
            groups |-> <<[preset |-> "Blink", binds |-> {[mesh |-> 2, target |-> 1]}],
                         [preset |-> "A", binds |-> {[mesh |-> 1, target |-> 2]}]>>]]

\* A bone of the file turns a node that the file does not have.
MCStray == [MCVrm(<<0, 1, 2>>, Identity, TRUE, {"humanBones", "blendShapeGroups"})
              EXCEPT !.vrm.bones[2].node = 9]

MCVrmFiles ==
  {MCVrm(o, Identity, TRUE, {"humanBones", "blendShapeGroups"}) : o \in Orders}
    \cup {MCVrm(<<0, 1, 2>>, <<2, 1>>, FALSE, {"humanBones", "blendShapeGroups"}),
          MCVrm(<<0, 1, 2>>, Identity, TRUE, {}), MCStray}

Keys(n) == CASE n = 0 -> <<>> [] n = 1 -> <<0>> [] n = 2 -> <<0, 2>> [] n = 3 -> <<0, 2, 4>>

\* The hips are node h, the spine its child.
MCGlb(h, hipKeys, spineKeys) ==
  [kind |-> "glb",
   nodes |-> [n \in 0 .. 1 |->
     IF n = h THEN [name |-> "Hips", rest |-> <<1, 1>>, children |-> {1 - h}]
     ELSE [name |-> "Spine", rest |-> <<3, 2>>, children |-> {}]],
   channels |-> <<[node |-> h, property |-> "rotation", times |-> Keys(hipKeys),
                   rotations |-> SubSeq(<<<<2, 1>>, <<4, 0>>, <<0, 1>>>>, 1, hipKeys)],
                  [node |-> h, property |-> "translation", times |-> Keys(3),
                   rotations |-> <<>>],
                  [node |-> 1 - h, property |-> "rotation", times |-> Keys(spineKeys),
                   rotations |-> SubSeq(<<<<0, 2>>, <<5, 1>>, <<6, 0>>>>, 1, spineKeys)]>>]

\* Two models, three curves for the hips of which one may be short, one for
\* the spine.
MCFbx(h, yKeys) ==
  [kind |-> "fbx",
   objects |-> [i \in 0 .. 7 |->
     CASE i = h -> [class |-> "Model", name |-> "Hips", pre |-> <<1, 0, 0>>, lcl |-> <<0, 1, 0>>]
       [] i = 1 - h -> [class |-> "Model", name |-> "Spine", pre |-> <<0, 0, 1>>,
                        lcl |-> <<1, 0, 0>>]
       [] i \in {2, 3} -> [class |-> "AnimationCurveNode"]
       [] i = 4 -> [class |-> "AnimationCurve", times |-> <<0, 2>>, values |-> <<1, 0>>]
       [] i = 5 -> [class |-> "AnimationCurve", times |-> Keys(yKeys),
                    values |-> SubSeq(<<1, 1, 0>>, 1, yKeys)]
       [] i = 6 -> [class |-> "AnimationCurve", times |-> <<0, 2>>, values |-> <<0>>]
       [] i = 7 -> [class |-> "AnimationCurve", times |-> <<0, 2>>, values |-> <<0, 1>>]],
   connections |-> <<[type |-> "OO", child |-> 1 - h, parent |-> h, label |-> ""],
                     [type |-> "OP", child |-> 2, parent |-> h, label |-> "Rotation"],
                     [type |-> "OP", child |-> 3, parent |-> 1 - h, label |-> "Rotation"],
                     [type |-> "OP", child |-> 4, parent |-> 2, label |-> "X"],
                     [type |-> "OP", child |-> 5, parent |-> 2, label |-> "Y"],
                     [type |-> "OP", child |-> 6, parent |-> 2, label |-> "Z"],
                     [type |-> "OP", child |-> 7, parent |-> 3, label |-> "Z"]>>]

\* Two nodes drive the spine, the second below the first.
MCTwin ==
  [MCGlb(0, 3, 3) EXCEPT
     !.nodes = [n \in 0 .. 2 |->
       CASE n = 0 -> @[0]
         [] n = 1 -> [@[1] EXCEPT !.children = {2}]
         [] n = 2 -> [name |-> "Spine", rest |-> <<1, 0>>, children |-> {}]],
     !.channels = Append(@, [node |-> 2, property |-> "rotation", times |-> Keys(3),
                             rotations |-> <<<<1, 1>>, <<2, 2>>, <<3, 0>>>>])]

MCClipFiles ==
  {MCGlb(1, 3, 3), MCGlb(0, 1, 2), MCGlb(0, 2, 0), MCGlb(0, 0, 0), MCTwin}
    \cup {MCFbx(0, 1), MCFbx(1, 2)} \cup {[kind |-> "bvh"]}

MCTargets == {<<1, 0>>, <<0, 1>>}
=============================================================================
