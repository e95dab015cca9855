----------------------------- MODULE PictureProofs -----------------------------
(***************************************************************************)
(* What is drawn, and what becomes of it: the bones and the meshes of the  *)
(* avatar (Avatar) and the frames that are read back (AppCapture).         *)
(*                                                                         *)
(* The frame capture is safe under both of its clients, for any capture    *)
(* sizes, window widths and scale factor.                                  *)
(*                                                                         *)
(* SafeToRead is not inductive: what makes it so is the agreement between  *)
(* the two flags and the mapping of the buffer copied last (FlagsAgree),   *)
(* and that every image in a staging buffer has the capture's size, over a *)
(* transparent background if it is the mascot's (ImagesAgree).             *)
(*                                                                         *)
(* A bone starts each interpolation from the rotation it shows, unless the *)
(* idle animation is playing: for any models and clips, rigs and orders of *)
(* the keys. The idle animation writes the bones and leaves their previous *)
(* rotations, so that what matters is that no key ends it without a reset. *)
(*                                                                         *)
(* Of any valid file what is drawn is what the file says. The loader lays  *)
(* the joints of the skins one after the other and the primitives of the   *)
(* meshes likewise; with an index into such a list it is known which part  *)
(* it is in and where (LaidPrefix), and this is used once where the index  *)
(* is made and once where it is followed.                                  *)
(*                                                                         *)
(* The joint matrices are the products along the paths, for trees in any   *)
(* order of their nodes. compute_joint_matrices visits them breadth first. *)
(* Between two visits those that have a matrix have the right one, and     *)
(* those that wait are the others whose parent has one (Waiting); as long  *)
(* as a node is missing one waits, since the least deep of those missing   *)
(* has a parent that is not, or none.                                      *)
(*                                                                         *)
(* The clip of the idle animation turns the bones of VRM as the source's   *)
(* turn.  compute_world_rotations passes over the nodes in the order of    *)
(* their indices; after k passes those less deep than k are done.  Of a    *)
(* turn in the world the clip keeps what is relative to the bone above;    *)
(* multiplied down the hierarchy these give the turn again, since the      *)
(* inverse of the bone above is on the left, where its turn was.           *)
(***************************************************************************)
EXTENDS AppCapture, Avatar, Induction, SequenceTheorems, TLAPS

-----------------------------------------------------------------------------
(* The frames read back *)

\* The buffer copied next is free.  Before the first copy nothing is mapped;
\* from then on the buffer copied last has a mapping in flight, or is mapped
\* and the flag says so.
FlagsAgree(c) ==
  /\ c.map[c.idx] = "idle"
  /\ ~c.pending => c.map[Other(c.idx)] = "idle" /\ ~c.ready
  /\ c.pending /\ c.ready => c.map[Other(c.idx)] = "mapped"
  /\ c.pending /\ ~c.ready => c.map[Other(c.idx)] \in {"waiting", "resolved"}

\* An image has the size of the capture it is staged in.
ImagesAgree(c) ==
  \A b \in Slot : c.img[b] # NoImage =>
    /\ c.img[b].dim = c.dim
    /\ c.dim = MascotDim => c.img[b].clear = 0

CaptureInv(c) == c \in Capture /\ FlagsAgree(c) /\ ImagesAgree(c)

\* The overlay, its clear colour and its hit-testing go together.
OverlayAgrees == clearAlpha = (IF mascot THEN 0 ELSE 1) /\ ClickableOutsideMascot

IInv == TypeOK /\ CaptureInv(cap) /\ OverlayAgrees /\ ReadbackForCaller

-----------------------------------------------------------------------------
(* The methods of Scene keep CaptureInv. *)

\* The other of the two slots is a slot, and never the same one.
LEMMA OtherSlot ==
  \A b \in Slot : Other(b) \in Slot /\ Other(b) # b /\ Other(Other(b)) = b
BY DEF Slot, Other

\* A slot that is not this one is the other.
LEMMA TwoSlots ==
  \A b, x \in Slot : b = x \/ b = Other(x)
BY DEF Slot, Other

\* The GPU finishing its copies keeps the capture sound.
LEMMA FinishKeeps ==
  ASSUME NEW c, CaptureInv(c)
  PROVE  CaptureInv(GpuFinish(c))
BY OtherSlot DEF CaptureInv, GpuFinish, Capture, MapState, FlagsAgree, ImagesAgree

\* Running the callbacks keeps the capture sound: the flag is set only while a
\* mapping of the current buffers is pending.
LEMMA PollKeeps ==
  ASSUME NEW c, CaptureInv(c)
  PROVE  CaptureInv(Poll(c)) /\ Poll(c).dim = c.dim
<1> DEFINE p == Poll(c)
<1>1. p \in Capture /\ p.dim = c.dim /\ p.img = c.img
  BY DEF CaptureInv, Poll, Capture, MapState
<1>2. FlagsAgree(p)
  BY OtherSlot, TwoSlots DEF CaptureInv, Poll, Capture, MapState, FlagsAgree
<1>3. ImagesAgree(p)
  BY <1>1 DEF CaptureInv, ImagesAgree
<1> QED BY <1>1, <1>2, <1>3 DEF CaptureInv

\* A capture of the size asked for comes back sound, whether it was kept or
\* made anew: the flag is reset after the old buffers' callbacks.
LEMMA EnsureKeeps ==
  ASSUME NEW c, CaptureInv(c), NEW d \in Dims
  PROVE  CaptureInv(EnsureFrameCapture(c, d)) /\ EnsureFrameCapture(c, d).dim = d
<1>1. CASE c.dim = d
  BY <1>1 DEF EnsureFrameCapture
<1>2. CASE c.dim # d
  <2>1. EnsureFrameCapture(c, d) = Recreate(c, d)
    BY <1>2 DEF EnsureFrameCapture
  <2> DEFINE r == Recreate(c, d)
  <2>2. r \in Capture
    BY DEF Recreate, DropBuffers, CaptureInv, Capture, AllIdle, MapState, Slot
  <2>3. /\ r.dim = d /\ r.map = AllIdle /\ r.img = [b \in Slot |-> NoImage]
        /\ r.idx = 0 /\ r.ready = FALSE /\ r.pending = FALSE
    BY DEF Recreate, DropBuffers, CaptureInv, Capture
  <2>4. FlagsAgree(r) /\ ImagesAgree(r)
    BY <2>3 DEF FlagsAgree, ImagesAgree, AllIdle, Slot, Other
  <2> QED BY <2>1, <2>2, <2>3, <2>4 DEF CaptureInv
<1> QED BY <1>1, <1>2

\* What is read back is an image of the capture's size.
LEMMA ReturnedImage ==
  ASSUME NEW c, CaptureInv(c)
  PROVE  /\ Returned(c) \in Images \cup {NoImage}
         /\ Returned(c) # NoImage =>
              Returned(c).dim = c.dim /\ (c.dim = MascotDim => Returned(c).clear = 0)
<1> DEFINE p == Poll(c)
<1>1. CaptureInv(p) /\ p.dim = c.dim
  BY PollKeeps
<1>2. Other(p.idx) \in Slot
  BY <1>1, OtherSlot DEF CaptureInv, Capture
<1> QED BY <1>1, <1>2 DEF Returned, CaptureInv, Capture, ImagesAgree

\* capture_frame_async keeps the capture sound, whatever it reads and copies.
LEMMA CaptureKeeps ==
  ASSUME NEW c, CaptureInv(c), NEW im \in Images,
         im.dim = c.dim, c.dim = MascotDim => im.clear = 0
  PROVE  CaptureInv(CaptureFrameAsync(c, im))
<1> DEFINE p == Poll(c)
           r == ReadBack(p)
<1>1. CaptureInv(p) /\ p.dim = c.dim
  BY PollKeeps
<1>2. CASE ~CanCopy(r, Readable(p))
  <2>1. r = p
    BY <1>2 DEF CanCopy, ReadBack
  <2> QED BY <1>1, <1>2, <2>1 DEF CaptureFrameAsync
<1>3. CASE CanCopy(r, Readable(p))
  <2> DEFINE n == CopyAndMap(r, im)
  <2>1. CaptureFrameAsync(c, im) = n
    BY <1>3 DEF CaptureFrameAsync
  <2>2. r \in Capture /\ r.dim = p.dim /\ r.idx = p.idx /\ r.img = p.img
    BY <1>1 DEF ReadBack, CaptureInv, Capture, MapState
  <2>3. r.map[r.idx] = "idle" /\ ~r.ready
    BY <1>1, <1>3, OtherSlot DEF ReadBack, Readable, CanCopy, CaptureInv, Capture, FlagsAgree
  <2>4. n \in Capture
    BY <2>2, OtherSlot DEF CopyAndMap, Capture, MapState
  <2>5. FlagsAgree(n)
    BY <1>1, <1>3, <2>2, <2>3, OtherSlot
       DEF CopyAndMap, FlagsAgree, CaptureInv, Capture, ReadBack, Readable, CanCopy
  <2>6. ImagesAgree(n)
    BY <1>1, <2>2 DEF CopyAndMap, ImagesAgree, CaptureInv, Capture
  <2> QED BY <2>1, <2>4, <2>5, <2>6 DEF CaptureInv
<1> QED BY <1>2, <1>3

-----------------------------------------------------------------------------
(* A client's step: ensure, render, capture. *)

\* A client's whole step keeps the capture sound, at the client's size.
LEMMA ShootKeeps ==
  ASSUME IInv, NEW d \in {VcamDim, MascotDim}, d = MascotDim => mascot
  PROVE  /\ CaptureInv(Shoot(cap, d))
         /\ Got(cap, d) \in Images \cup {NoImage}
         /\ Got(cap, d) # NoImage =>
              Got(cap, d).dim = d /\ (d = MascotDim => Got(cap, d).clear = 0)
<1> DEFINE e == EnsureFrameCapture(cap, d)
<1>1. d \in Dims
  BY AppCaptureAssumption
<1>2. CaptureInv(e) /\ e.dim = d
  BY <1>1, EnsureKeeps DEF IInv
<1>3. ImageOf(d) \in Images /\ ImageOf(d).dim = d /\ (d = MascotDim => ImageOf(d).clear = 0)
  BY <1>1, AppCaptureAssumption DEF ImageOf, AppImages, IInv, TypeOK, OverlayAgrees
<1>4. CaptureInv(CaptureFrameAsync(e, ImageOf(d)))
  BY <1>2, <1>3, CaptureKeeps
<1> HIDE DEF e
<1>5. /\ Returned(e) \in Images \cup {NoImage}
      /\ Returned(e) # NoImage =>
           Returned(e).dim = d /\ (d = MascotDim => Returned(e).clear = 0)
  BY <1>2, ReturnedImage
<1> QED BY <1>4, <1>5 DEF Shoot, Got, e

\* What goes stale with the camera is still of its capture.
LEMMA KeyCKeeps ==
  ASSUME IInv, KeyC
  PROVE  CaptureInv(cap')
<1>1. CASE ~vcamEnabled
  BY <1>1 DEF KeyC, IInv
<1>2. CASE vcamEnabled
  <2> DEFINE Stale(b) == IF cap.img[b] = NoImage THEN NoImage
                         ELSE [cap.img[b] EXCEPT !.past = TRUE]
  <2>1. cap' = [cap EXCEPT !.img = [b \in Slot |-> Stale(b)]] /\ cap \in Capture
    BY <1>2 DEF KeyC, IInv, CaptureInv, Capture
  <2>2. \A b \in Slot : cap.img[b] \in AppImages \cup {NoImage}
    BY <2>1, AppCaptureAssumption DEF Capture
  <2>3. \A b \in Slot : /\ Stale(b) \in AppImages \cup {NoImage}
                        /\ Stale(b) # NoImage =>
                             /\ cap.img[b] # NoImage
                             /\ Stale(b).dim = cap.img[b].dim
                             /\ Stale(b).clear = cap.img[b].clear
    BY <2>2 DEF AppImages
  <2> HIDE DEF Stale
  <2>4. /\ cap' \in Capture /\ cap'.dim = cap.dim
        /\ cap'.map = cap.map /\ cap'.idx = cap.idx
        /\ cap'.ready = cap.ready /\ cap'.pending = cap.pending
        /\ cap'.img = [b \in Slot |-> Stale(b)]
    BY <2>1, <2>3, AppCaptureAssumption DEF Capture
  <2>5. FlagsAgree(cap')
    BY <2>4 DEF IInv, CaptureInv, FlagsAgree
  <2>6. ImagesAgree(cap')
    BY <2>3, <2>4 DEF IInv, CaptureInv, ImagesAgree
  <2> QED BY <2>4, <2>5, <2>6 DEF CaptureInv
<1> QED BY <1>1, <1>2

-----------------------------------------------------------------------------
(* The invariant *)

\* A start satisfies the invariant, in the overlay and out of it.
LEMMA InitHolds == Init => IInv
<1> SUFFICES ASSUME Init PROVE IInv
  OBVIOUS
<1>1. CaptureInv(NoCapture)
  BY DEF CaptureInv, NoCapture, Capture, MapState, AllIdle, Slot, FlagsAgree, ImagesAgree, Other
<1>2. cap = NoCapture /\ sent = NoImage /\ alpha = NoImage
  BY DEF Init
<1>3. normalSize \in Nat /\ winWidth \in Nat
  BY AppCaptureAssumption DEF Init, LeMin
<1>4. mascot \in BOOLEAN /\ clearAlpha = (IF mascot THEN 0 ELSE 1) /\ hitTest = ~mascot
  BY DEF Init
<1>5. TypeOK
  BY <1>1, <1>2, <1>3, <1>4 DEF Init, TypeOK, CaptureInv
<1> QED BY <1>1, <1>2, <1>4, <1>5
     DEF IInv, OverlayAgrees, ClickableOutsideMascot, ReadbackForCaller

\* Every step keeps the invariant.
LEMMA StepKeeps == IInv /\ [Next]_vars => IInv'
<1> SUFFICES ASSUME IInv, [Next]_vars PROVE IInv'
  OBVIOUS
<1>1. CASE VcamSendFrame
  <2>1. VcamDim # MascotDim
    BY AppCaptureAssumption
  <2>2. CaptureInv(cap')
    BY <1>1, <2>1, ShootKeeps DEF VcamSendFrame
  <2>3. sent' \in Images \cup {NoImage} /\ (sent' # NoImage => sent'.dim = VcamDim)
    BY <1>1, <2>1, ShootKeeps DEF VcamSendFrame
  <2>4. vcam' \in {"none", "started"} /\ vcamEnabled' \in BOOLEAN /\ pc' = "mascot"
    BY <1>1 DEF VcamSendFrame, IInv, TypeOK
  <2> QED BY <1>1, <2>2, <2>3, <2>4
       DEF VcamSendFrame, overlayVars, IInv, TypeOK, CaptureInv, OverlayAgrees,
           ClickableOutsideMascot, ReadbackForCaller
<1>2. CASE VcamNotDue
  BY <1>2 DEF VcamNotDue, vcamVars, overlayVars, IInv, TypeOK, OverlayAgrees,
              ClickableOutsideMascot, ReadbackForCaller
<1>3. CASE MascotCapture
  <2>1. /\ CaptureInv(cap')
        /\ alpha' \in Images \cup {NoImage}
        /\ alpha' # NoImage => alpha'.dim = MascotDim /\ alpha'.clear = 0
    BY <1>3, ShootKeeps DEF MascotCapture, IInv, TypeOK, ReadbackForCaller
  <2> QED BY <1>3, <2>1
       DEF MascotCapture, vcamVars, overlayVars, IInv, TypeOK, CaptureInv, OverlayAgrees,
           ClickableOutsideMascot, ReadbackForCaller
<1>4. CASE MascotOff
  BY <1>4 DEF MascotOff, vcamVars, overlayVars, IInv, TypeOK, OverlayAgrees,
              ClickableOutsideMascot, ReadbackForCaller
<1>5. CASE KeyC
  <2>1. CaptureInv(cap')
    BY <1>5, KeyCKeeps
  <2> QED BY <1>5, <2>1
       DEF KeyC, overlayVars, IInv, TypeOK, CaptureInv, OverlayAgrees,
           ClickableOutsideMascot, ReadbackForCaller
<1>6. CASE KeyM
  <2>1. winWidth' \in Nat /\ normalSize' \in Nat
    BY <1>6, AppCaptureAssumption
       DEF KeyM, EnterMascot, LeaveMascot, LeMin, IInv, TypeOK
  <2>2. /\ mascot' \in BOOLEAN /\ hitTest' \in BOOLEAN
        /\ clearAlpha' = (IF mascot' THEN 0 ELSE 1)
        /\ ~mascot' => hitTest'
    BY <1>6 DEF KeyM, EnterMascot, LeaveMascot
  <2> QED BY <1>6, <2>1, <2>2
       DEF KeyM, vcamVars, IInv, TypeOK, OverlayAgrees, ClickableOutsideMascot, ReadbackForCaller
<1>7. CASE CursorMoved
  BY <1>7 DEF CursorMoved, vcamVars, overlayVars, IInv, TypeOK, OverlayAgrees,
              ClickableOutsideMascot, ReadbackForCaller
<1>8. CASE UserResize
  BY <1>8, AppCaptureAssumption
     DEF UserResize, vcamVars, IInv, TypeOK, OverlayAgrees, ClickableOutsideMascot,
         ReadbackForCaller
<1>9. CASE GpuCompletes
  <2>1. CaptureInv(cap')
    BY <1>9, FinishKeeps DEF GpuCompletes, IInv
  <2> QED BY <1>9, <2>1
       DEF GpuCompletes, vcamVars, overlayVars, IInv, TypeOK, CaptureInv, OverlayAgrees,
           ClickableOutsideMascot, ReadbackForCaller
<1>10. CASE RenderSubmits
  <2>1. CaptureInv(cap')
    BY <1>10, PollKeeps DEF RenderSubmits, IInv
  <2> QED BY <1>10, <2>1
       DEF RenderSubmits, vcamVars, overlayVars, IInv, TypeOK, CaptureInv, OverlayAgrees,
           ClickableOutsideMascot, ReadbackForCaller
<1>11. CASE UNCHANGED vars
  BY <1>11 DEF vars, vcamVars, overlayVars, IInv, TypeOK, OverlayAgrees,
               ClickableOutsideMascot, ReadbackForCaller
<1> QED BY <1>1, <1>2, <1>3, <1>4, <1>5, <1>6, <1>7, <1>8, <1>9, <1>10, <1>11 DEF Next

\* The strengthened invariant holds of every run of the two clients.
THEOREM CaptureInvariance == Spec => []IInv
BY InitHolds, StepKeeps, PTL DEF Spec

-----------------------------------------------------------------------------
(* What it says *)

\* Every variable keeps its type, and the index of the next buffer wraps.
THEOREM TypeCorrect == Spec => []TypeOK
<1>1. IInv => TypeOK
  BY DEF IInv
<1> QED BY <1>1, CaptureInvariance, PTL

\* get_mapped_range never panics: whenever capture_frame_async would read a
\* buffer back, that buffer is mapped, however resizes, polls and the GPU fall
\* between the calls.
THEOREM ReadsAreMapped == Spec => []NoUnmappedRead
<1>1. IInv => NoUnmappedRead
  BY DEF IInv, CaptureInv, FlagsAgree, NoUnmappedRead, SafeToRead, Readable
<1> QED BY <1>1, CaptureInvariance, PTL

\* No copy command ever targets a buffer that is mapped or about to be.
THEOREM CopiesAreIdle == Spec => []NoBusyCopy
<1>1. IInv => NoBusyCopy
  BY DEF IInv, CaptureInv, FlagsAgree, NoBusyCopy, SafeToCopy
<1> QED BY <1>1, CaptureInvariance, PTL

\* Neither client is ever handed the other's image: the sizes differ and each
\* change of size throws the staged images away.
THEOREM ReadbacksAreOwn == Spec => []ReadbackForCaller
<1>1. IInv => ReadbackForCaller
  BY DEF IInv
<1> QED BY <1>1, CaptureInvariance, PTL

\* Outside the overlay the window takes the mouse.
THEOREM NormalWindowClickable == Spec => []ClickableOutsideMascot
<1>1. IInv => ClickableOutsideMascot
  BY DEF IInv, OverlayAgrees
<1> QED BY <1>1, CaptureInvariance, PTL

-----------------------------------------------------------------------------
(* The bones *)

\* Before the start there are no bones.  From then on every bone of the model, and no
\* other, has a rotation and a previous one.  Only the idle animation parts the two of a
\* bone that turns a node of the file; those of another bone stay apart, because the
\* reset passes it by.
BonesInv ==
  /\ model # NoModel => DOMAIN rot = DOMAIN model.bones /\ DOMAIN prev = DOMAIN model.bones
  /\ InterpolatesFromShown

LEMMA BindPoseIsWhole ==
  ASSUME NEW m
  PROVE  DOMAIN BindPose(m) = DOMAIN m.bones
BY DEF BindPose

\* The reset makes the two rotations of a bone equal if the file has its node, and
\* gives or takes no bone a rotation.
LEMMA ResetAlignsPlaced ==
  ASSUME ResetToBindPose,
         DOMAIN rot = DOMAIN model.bones, DOMAIN prev = DOMAIN model.bones
  PROVE  /\ DOMAIN rot' = DOMAIN model.bones /\ DOMAIN prev' = DOMAIN model.bones
         /\ \A b \in Placed(model) : rot'[b] = prev'[b]
<1>1. Placed(model) \subseteq DOMAIN model.bones
  BY DEF Placed
<1> QED BY <1>1 DEF ResetToBindPose, PutBack

\* apply_rig_to_model moves no bone in one of the two only, when it is given no
\* idle animation.
LEMMA RigMovesBoth ==
  ASSUME NEW newRig, NEW idle, ApplyRigToModel(newRig, idle)
  PROVE  /\ DOMAIN rot' = DOMAIN rot /\ DOMAIN prev' = DOMAIN prev
         /\ \A b \in DOMAIN rot \cap DOMAIN prev :
              idle = <<>> /\ rot[b] = prev[b] => rot'[b] = prev'[b]
<1> DEFINE moved == Interpolated(newRig)
           tracked == UNION {TrackedBones[p] : p \in {q \in Parts : newRig[q] # NoTarget}}
           part(b) == CHOOSE p \in Parts : b \in TrackedBones[p]
           target(b) == IF b \in {"LeftEye", "RightEye"} THEN newRig[part(b)]
                        ELSE BlendWithIdle(b, newRig[part(b)], idle)
           new(b) == Halfway(prev[b], target(b))
<1>1. /\ prev' = [b \in DOMAIN prev |-> IF b \in moved THEN new(b) ELSE prev[b]]
      /\ rot' = [b \in DOMAIN rot |-> IF b \in moved THEN prev'[b]
                                      ELSE IF b \in DOMAIN idle \ tracked THEN idle[b]
                                      ELSE rot[b]]
  BY DEF ApplyRigToModel
<1> HIDE DEF moved, tracked, new
<1>2. DOMAIN rot' = DOMAIN rot /\ DOMAIN prev' = DOMAIN prev
  BY <1>1
<1>3. ASSUME NEW b \in DOMAIN rot \cap DOMAIN prev, idle = <<>>, rot[b] = prev[b]
      PROVE  rot'[b] = prev'[b]
  <2>1. DOMAIN idle = {}
    BY <1>3
  <2>2. rot'[b] = IF b \in moved THEN prev'[b] ELSE rot[b]
    BY <1>1, <2>1
  <2>3. b \notin moved => prev'[b] = prev[b]
    BY <1>1
  <2> QED BY <1>3, <2>2, <2>3
<1> QED BY <1>2, <1>3

\* The invariant of the bones: the keys T and I, in any order and between any two
\* frames, with a new result, the last one or none, leave no bone that turns a node with
\* an older rotation to go on from.
THEOREM BonesInvariance == AvatarSpec => []BonesInv
<1>1. AvatarInit => BonesInv
  BY DEF AvatarInit, BonesInv, InterpolatesFromShown
<1>2. BonesInv /\ [AvatarNext]_avatarVars => BonesInv'
  <2> SUFFICES ASSUME BonesInv, [AvatarNext]_avatarVars
               PROVE  BonesInv'
    OBVIOUS
  <2>1. CASE Start
    <3>1. rot' = BindPose(model') /\ prev' = BindPose(model')
      BY <2>1 DEF Start
    <3> QED BY <3>1, BindPoseIsWhole DEF BonesInv, InterpolatesFromShown
  <2>2. CASE Frame
    <3>1. model # NoModel /\ UNCHANGED <<model, clip, enabled>>
      BY <2>2 DEF Frame, files
    <3>2. PICK newRig :
            \/ ApplyRigToModel(newRig, IF IdleOn THEN Sample(NextTime) ELSE <<>>)
            \/ UNCHANGED <<rot, prev>>
      BY <2>2 DEF Frame
    <3>3. DOMAIN rot' = DOMAIN rot /\ DOMAIN prev' = DOMAIN prev
      BY <3>2, RigMovesBoth
    <3>4. ASSUME ~IdleOn, NEW b \in Placed(model)
          PROVE  rot'[b] = prev'[b]
      <4>1. rot[b] = prev[b] /\ b \in DOMAIN rot \cap DOMAIN prev
        BY <3>1, <3>4 DEF BonesInv, InterpolatesFromShown, Placed
      <4>2. \/ ApplyRigToModel(newRig, <<>>)
            \/ UNCHANGED <<rot, prev>>
        BY <3>2, <3>4
      <4> QED BY <4>1, <4>2, RigMovesBoth
    <3>5. IdleOn' = IdleOn /\ Placed(model)' = Placed(model)
      BY <3>1 DEF IdleOn, Placed
    <3> QED BY <3>1, <3>3, <3>4, <3>5 DEF BonesInv, InterpolatesFromShown
  <2>3. CASE ToggleTracking
    <3>1. model # NoModel /\ UNCHANGED <<model, clip, enabled>>
      BY <2>3 DEF ToggleTracking, files
    <3>2. CASE tracking
      <4>1. ResetToBindPose
        BY <2>3, <3>2 DEF ToggleTracking
      <4> QED BY <3>1, <4>1, ResetAlignsPlaced DEF BonesInv, InterpolatesFromShown, Placed
    <3>3. CASE ~tracking
      <4>1. UNCHANGED <<rot, prev>>
        BY <2>3, <3>3 DEF ToggleTracking
      <4> QED BY <3>1, <4>1 DEF BonesInv, InterpolatesFromShown, IdleOn, Placed
    <3> QED BY <3>2, <3>3
  <2>4. CASE ToggleIdle
    <3>1. model # NoModel /\ clip # NoClip /\ UNCHANGED <<model, clip>> /\ enabled' = ~enabled
      BY <2>4 DEF ToggleIdle, files
    <3>2. CASE enabled
      <4>1. ResetToBindPose
        BY <2>4, <3>2 DEF ToggleIdle
      <4> QED BY <3>1, <4>1, ResetAlignsPlaced DEF BonesInv, InterpolatesFromShown, Placed
    <3>3. CASE ~enabled
      <4>1. IdleOn' /\ UNCHANGED <<rot, prev>>
        BY <2>4, <3>1, <3>3 DEF ToggleIdle, IdleOn
      <4> QED BY <3>1, <4>1 DEF BonesInv, InterpolatesFromShown
    <3> QED BY <3>2, <3>3
  <2>5. CASE UNCHANGED avatarVars
    <3>1. UNCHANGED <<model, clip, enabled, rot, prev>>
      BY <2>5 DEF avatarVars, files
    <3> QED BY <3>1 DEF BonesInv, InterpolatesFromShown, IdleOn, Placed
  <2> QED BY <2>1, <2>2, <2>3, <2>4, <2>5 DEF AvatarNext
<1> QED BY <1>1, <1>2, PTL DEF AvatarSpec

\* slerp in vrm/src/bone.rs goes on from the previous rotation, which is the one that
\* is drawn, unless the idle animation is playing: for every bone that turns a node of
\* the file, whichever results are solved before and after the tracking is switched off.
THEOREM InterpolationSound == AvatarSpec => []InterpolatesFromShown
<1>1. BonesInv => InterpolatesFromShown
  BY DEF BonesInv
<1> QED BY <1>1, BonesInvariance, PTL

-----------------------------------------------------------------------------
(* What is on the screen *)

\* What is seen after each of the passes.
Shows(passes, f) ==
  f = [p \in 0 .. Len(passes) |->
         IF p = 0 THEN {"an earlier frame"}
         ELSE (IF passes[p].load THEN f[p - 1] ELSE {}) \cup {passes[p].draw}]

\* What is seen after the last.
Shown(passes) == (CHOOSE f : Shows(passes, f))[Len(passes)]

\* The screen is what the last pass leaves.
LEMMA ScreenIsShown ==
  ASSUME NEW backgrounds, NEW clear
  PROVE  Screen(backgrounds, clear) = Shown(Passes(backgrounds, clear))
BY DEF Screen, Shown, Shows

\* The one pass of a scene without a background.
LEMMA OnePass ==
  ASSUME NEW x, ~x.load
  PROVE  Shown(<<x>>) = {x.draw}
<1>1. PICK s : s = <<x>>
  OBVIOUS
<1>2. Len(s) = 1 /\ s[1] = x
  BY <1>1
<1> DEFINE g == [p \in 0 .. 1 |-> IF p = 0 THEN {"an earlier frame"} ELSE {x.draw}]
<1>3. Shows(s, g)
  <2>1. \A p \in 0 .. 1 : p # 0 => p = 1
    OBVIOUS
  <2> QED BY <1>2, <2>1 DEF Shows
<1>4. Shows(s, CHOOSE f : Shows(s, f))
  BY <1>3
<1>5. PICK f : f = (CHOOSE h : Shows(s, h))
  OBVIOUS
<1>6. f[1] = {x.draw}
  <2>1. Shows(s, f)
    BY <1>4, <1>5
  <2>2. f = [p \in 0 .. 1 |-> IF p = 0 THEN {"an earlier frame"}
                             ELSE (IF s[p].load THEN f[p - 1] ELSE {}) \cup {s[p].draw}]
    BY <1>2, <2>1 DEF Shows
  <2>3. 1 \in 0 .. 1 /\ 1 # 0
    OBVIOUS
  <2>4. f[1] = (IF s[1].load THEN f[1 - 1] ELSE {}) \cup {s[1].draw}
    BY <2>2, <2>3
  <2> QED BY <1>2, <2>4
<1> QED BY <1>1, <1>2, <1>5, <1>6 DEF Shown

\* The two of a scene with one.
LEMMA TwoPasses ==
  ASSUME NEW x, NEW y, ~x.load, y.load \in BOOLEAN
  PROVE  Shown(<<x, y>>) = (IF y.load THEN {x.draw} ELSE {}) \cup {y.draw}
<1>1. PICK s : s = <<x, y>>
  OBVIOUS
<1>2. Len(s) = 2 /\ s[1] = x /\ s[2] = y
  BY <1>1
<1> DEFINE onTop == (IF y.load THEN {x.draw} ELSE {}) \cup {y.draw}
           g == [p \in 0 .. 2 |-> IF p = 0 THEN {"an earlier frame"}
                                  ELSE IF p = 1 THEN {x.draw} ELSE onTop]
<1>3. Shows(s, g)
  <2>1. \A p \in 0 .. 2 : p = 0 \/ p = 1 \/ p = 2
    OBVIOUS
  <2>2. g[0] = {"an earlier frame"} /\ g[1] = {x.draw} /\ g[2] = onTop
    OBVIOUS
  <2>3. g[1] = (IF s[1].load THEN g[1 - 1] ELSE {}) \cup {s[1].draw}
    BY <1>2, <2>2
  <2>4. g[2] = (IF s[2].load THEN g[2 - 1] ELSE {}) \cup {s[2].draw}
    BY <1>2, <2>2
  <2>5. g = [p \in 0 .. 2 |-> g[p]]
    OBVIOUS
  <2> HIDE DEF g, onTop
  <2>6. \A p \in 0 .. 2 : g[p] = IF p = 0 THEN {"an earlier frame"}
                                 ELSE (IF s[p].load THEN g[p - 1] ELSE {}) \cup {s[p].draw}
    BY <2>1, <2>2, <2>3, <2>4
  <2> QED BY <1>2, <2>5, <2>6 DEF Shows
<1> HIDE DEF g
<1>4. Shows(s, CHOOSE f : Shows(s, f))
  BY <1>3
<1>5. PICK f : f = (CHOOSE h : Shows(s, h))
  OBVIOUS
<1>6. f[1] = {x.draw} /\ f[2] = (IF y.load THEN f[1] ELSE {}) \cup {y.draw}
  <2>1. Shows(s, f)
    BY <1>4, <1>5
  <2>2. f = [p \in 0 .. 2 |-> IF p = 0 THEN {"an earlier frame"}
                             ELSE (IF s[p].load THEN f[p - 1] ELSE {}) \cup {s[p].draw}]
    BY <1>2, <2>1 DEF Shows
  <2>3. 1 \in 0 .. 2 /\ 1 # 0 /\ 2 \in 0 .. 2 /\ 2 # 0 /\ 2 - 1 = 1
    OBVIOUS
  <2>4. f[1] = (IF s[1].load THEN f[1 - 1] ELSE {}) \cup {s[1].draw}
    BY <2>2, <2>3
  <2>5. f[2] = (IF s[2].load THEN f[2 - 1] ELSE {}) \cup {s[2].draw}
    BY <2>2, <2>3
  <2> QED BY <1>2, <2>3, <2>4, <2>5
<1> QED BY <1>1, <1>2, <1>5, <1>6 DEF Shown

\* One and one make two.
LEMMA PairIsConcat ==
  ASSUME NEW a, NEW b
  PROVE  <<a>> \o <<b>> = <<a, b>>
<1>1. PICK S : S = {a, b}
  OBVIOUS
<1>2. PICK s \in Seq(S), t \in Seq(S), u \in Seq(S) : s = <<a>> /\ t = <<b>> /\ u = <<a, b>>
  <2>1. a \in S /\ b \in S
    BY <1>1
  <2>2. <<a>> \in Seq(S) /\ <<b>> \in Seq(S) /\ <<a, b>> \in Seq(S)
    BY <2>1
  <2> QED BY <2>2
<1>3. /\ Len(s) = 1 /\ s[1] = a /\ Len(t) = 1 /\ t[1] = b
      /\ Len(u) = 2 /\ u[1] = a /\ u[2] = b
  BY <1>2
<1>4. /\ s \o t \in Seq(S) /\ Len(s \o t) = Len(s) + Len(t)
      /\ \A i \in 1 .. Len(s) + Len(t) :
           (s \o t)[i] = IF i <= Len(s) THEN s[i] ELSE t[i - Len(s)]
  BY ConcatProperties
<1>5. PICK r \in Seq(S) : r = s \o t
  BY <1>4
<1>6. Len(r) = 2 /\ r[1] = a /\ r[2] = b
  <2>1. \A i \in 1 .. 2 : r[i] = IF i <= 1 THEN s[i] ELSE t[i - 1]
    BY <1>3, <1>4, <1>5
  <2>2. 1 \in 1 .. 2 /\ 2 \in 1 .. 2 /\ 1 <= 1 /\ ~(2 <= 1) /\ 2 - 1 = 1
    OBVIOUS
  <2> QED BY <1>3, <1>4, <1>5, <2>1, <2>2
<1>7. \A i \in 1 .. Len(r) : r[i] = u[i]
  BY <1>3, <1>6
<1>8. r = u
  BY <1>3, <1>6, <1>7, SeqEqual
<1> QED BY <1>2, <1>5, <1>8

\* What the passes are.
LEMMA PassesAre ==
  ASSUME NEW backgrounds, NEW clear
  PROVE  LET behind == IF "video" \in backgrounds THEN "video" ELSE "image"
             meshes(loads) == [load |-> loads, draw |-> "meshes"]
         IN  Passes(backgrounds, clear) =
               IF "video" \in backgrounds \/ "image" \in backgrounds
                 THEN <<[load |-> FALSE, draw |-> behind], meshes(clear = 1)>>
                 ELSE <<meshes(FALSE)>>
<1> DEFINE behind == IF "video" \in backgrounds THEN "video" ELSE "image"
           none == "video" \notin backgrounds /\ "image" \notin backgrounds
           before == IF none THEN <<>> ELSE <<behind>>
           pass(p) == [load |-> FALSE, draw |-> before[p]]
           meshes(loads) == [load |-> loads, draw |-> "meshes"]
<1>1. Passes(backgrounds, clear) =
        [p \in DOMAIN before |-> pass(p)] \o <<meshes(before # <<>> /\ clear = 1)>>
  BY DEF Passes
<1>2. CASE none
  <2>1. before = <<>> /\ DOMAIN before = {}
    BY <1>2
  <2>2. [p \in DOMAIN before |-> pass(p)] = <<>>
    BY <2>1
  <2>3. (before # <<>> /\ clear = 1) = FALSE
    BY <2>1
  <2>4. <<>> \o <<meshes(FALSE)>> = <<meshes(FALSE)>>
    OBVIOUS
  <2> HIDE DEF before, pass, meshes
  <2>5. Passes(backgrounds, clear) = <<meshes(FALSE)>>
    BY <1>1, <2>2, <2>3, <2>4
  <2> QED BY <1>2, <2>5 DEF meshes
<1>3. CASE ~none
  <2>1. before = <<behind>> /\ DOMAIN before = {1} /\ before # <<>> /\ before[1] = behind
    BY <1>3
  <2>2. (before # <<>> /\ clear = 1) = (clear = 1)
    BY <2>1
  <2>3. [p \in {1} |-> pass(p)] = <<pass(1)>>
    <3>1. PICK t : t = <<pass(1)>>
      OBVIOUS
    <3>2. t \in Seq({pass(1)}) /\ Len(t) = 1 /\ t[1] = pass(1)
      BY <3>1
    <3>3. t = [p \in 1 .. 1 |-> t[p]]
      BY <3>2
    <3>4. 1 .. 1 = {1} /\ \A p \in {1} : t[p] = pass(p)
      BY <3>2
    <3> HIDE DEF pass
    <3> QED BY <3>1, <3>3, <3>4
  <2>4. pass(1) = [load |-> FALSE, draw |-> behind]
    BY <2>1
  <2>5. \A a, b : <<a>> \o <<b>> = <<a, b>>
    BY PairIsConcat
  <2> HIDE DEF before, pass, meshes, behind
  <2>6. Passes(backgrounds, clear) = <<pass(1), meshes(clear = 1)>>
    BY <1>1, <2>1, <2>2, <2>3, <2>5
  <2> QED BY <1>3, <2>4, <2>6 DEF meshes, behind
<1> QED BY <1>2, <1>3

\* Behind the meshes is the background, but in the overlay, and nothing older.
LEMMA ScreenRight ==
  ASSUME NEW backgrounds \in SUBSET {"image", "video"}, NEW clear \in {0, 1}
  PROVE  Screen(backgrounds, clear) =
           {"meshes"} \cup IF clear = 0 THEN {}
                           ELSE IF "video" \in backgrounds THEN {"video"} ELSE backgrounds
<1> DEFINE behind == IF "video" \in backgrounds THEN "video" ELSE "image"
           first == [load |-> FALSE, draw |-> behind]
           meshes(loads) == [load |-> loads, draw |-> "meshes"]
<1>1. CASE "video" \in backgrounds \/ "image" \in backgrounds
  <2>1. Screen(backgrounds, clear) = Shown(<<first, meshes(clear = 1)>>)
    BY <1>1, ScreenIsShown, PassesAre
  <2>2. /\ ~first.load /\ first.draw = behind
        /\ meshes(clear = 1).load = (clear = 1) /\ meshes(clear = 1).draw = "meshes"
    OBVIOUS
  <2> HIDE DEF first, meshes
  <2>3. PICK y : y = meshes(clear = 1)
    OBVIOUS
  <2>4. y.load \in BOOLEAN
    BY <2>2, <2>3
  <2>5. Shown(<<first, y>>) = (IF y.load THEN {first.draw} ELSE {}) \cup {y.draw}
    BY <2>2, <2>4, TwoPasses
  <2>6. Screen(backgrounds, clear) = (IF clear = 1 THEN {behind} ELSE {}) \cup {"meshes"}
    BY <2>1, <2>2, <2>3, <2>5
  <2>7. "video" \in backgrounds \/ backgrounds = {"image"}
    BY <1>1
  <2> QED BY <2>6, <2>7
<1>2. CASE ~("video" \in backgrounds \/ "image" \in backgrounds)
  <2>1. Screen(backgrounds, clear) = Shown(<<meshes(FALSE)>>)
    BY <1>2, ScreenIsShown, PassesAre
  <2>2. ~meshes(FALSE).load /\ meshes(FALSE).draw = "meshes"
    OBVIOUS
  <2> HIDE DEF meshes
  <2>3. Screen(backgrounds, clear) = {"meshes"}
    BY <2>1, <2>2, OnePass
  <2>4. backgrounds = {}
    BY <1>2
  <2> QED BY <2>3, <2>4
<1> QED BY <1>1, <1>2

-----------------------------------------------------------------------------
(* The meshes *)

\* The mesh made of a primitive.
MeshOf(f, m, p) ==
  [vertices |-> [v \in DOMAIN f.meshes[m][p].vertices |->
                   f.meshes[m][p].vertices[v] + SkinOffset(f, MeshToSkin(f, m))],
   targets |-> f.meshes[m][p].targets,
   material |-> f.meshes[m][p].material,
   glMesh |-> m]

\* One of several meshes was made of a primitive of f, and how many of them up to it
\* were made of that mesh of f tells which.
MadeFrom(f, meshes, i) ==
  \E m \in DOMAIN f.meshes : \E p \in DOMAIN f.meshes[m] :
    /\ meshes[i] = MeshOf(f, m, p)
    /\ Cardinality({j \in 1 .. i : meshes[j].glMesh = m}) = p

\* Every mesh is so.
LEMMA MeshFrom ==
  ASSUME NEW f, NEW R, f.meshes \in Seq(Seq(R))
  PROVE  \A i \in DOMAIN Meshes(f) : MadeFrom(f, Meshes(f), i)
<1> DEFINE parts == [m \in DOMAIN f.meshes |-> [p \in DOMAIN f.meshes[m] |-> MeshOf(f, m, p)]]
           X == UNION {{MeshOf(f, m, p) : p \in DOMAIN f.meshes[m]} : m \in DOMAIN f.meshes}
<1>1. PICK N \in Nat : N = Len(f.meshes)
  OBVIOUS
<1>2. DOMAIN f.meshes = 1 .. N /\ \A m \in 1 .. N : f.meshes[m] \in Seq(R)
  BY <1>1
<1>3. \A m \in 1 .. N : /\ Len(f.meshes[m]) \in Nat /\ DOMAIN f.meshes[m] = 1 .. Len(f.meshes[m])
                        /\ parts[m] \in Seq(X) /\ Len(parts[m]) = Len(f.meshes[m])
  <2>1. SUFFICES ASSUME NEW m \in 1 .. N
                 PROVE  /\ Len(f.meshes[m]) \in Nat
                        /\ DOMAIN f.meshes[m] = 1 .. Len(f.meshes[m])
                        /\ parts[m] \in Seq(X) /\ Len(parts[m]) = Len(f.meshes[m])
    OBVIOUS
  <2>2. PICK K \in Nat : K = Len(f.meshes[m])
    BY <1>2
  <2>3. DOMAIN f.meshes[m] = 1 .. K
    BY <1>2, <2>2
  <2>4. parts[m] = [p \in 1 .. K |-> MeshOf(f, m, p)]
    BY <1>2, <2>3
  <2>5. \A p \in 1 .. K : MeshOf(f, m, p) \in X
    BY SMTT(30), <1>2, <2>3
  <2> HIDE DEF X, parts
  <2>6. [p \in 1 .. K |-> MeshOf(f, m, p)] \in Seq(X)
    BY <2>5
  <2>7. Len([p \in 1 .. K |-> MeshOf(f, m, p)]) = K
    OBVIOUS
  <2> QED BY <2>2, <2>3, <2>4, <2>6, <2>7
<1>4. \A m \in 1 .. N : \A p \in 1 .. Len(f.meshes[m]) : parts[m][p] = MeshOf(f, m, p)
  BY <1>2, <1>3
<1>5. parts \in Seq(Seq(X)) /\ Len(parts) = N
  <2>1. parts = [m \in 1 .. N |-> parts[m]]
    BY <1>2
  <2>2. \A m \in 1 .. N : parts[m] \in Seq(X)
    BY <1>3
  <2> HIDE DEF parts, X
  <2> QED BY <2>1, <2>2
<1>6. Meshes(f) = FlattenSeq(parts)
  BY DEF Meshes, MeshOf
<1> HIDE DEF parts, X
<1>7. PICK pos : Laid(parts, Meshes(f), pos)
  BY <1>5, <1>6, Flattened
<1>8. Meshes(f) \in Seq(X)
  BY <1>5, <1>6, Flattened
<1>9. PICK L \in Nat : L = Len(Meshes(f)) /\ DOMAIN Meshes(f) = 1 .. L
  BY <1>8
<1>10. \A c \in 0 .. N : pos[c] \in Nat
  BY <1>5, <1>7 DEF Laid
<1>11. ASSUME NEW c \in 0 .. N, NEW d \in c .. N PROVE pos[c] <= pos[d]
  BY <1>5, <1>7, LaidGrows
\* Where a mesh is.
<1>12. \A i \in 1 .. L : \E m \in 1 .. N : \E p \in 1 .. Len(f.meshes[m]) :
         i = pos[m - 1] + p
  <2>1. ASSUME NEW i \in 1 .. L
        PROVE  \E m \in 1 .. N : \E p \in 1 .. Len(parts[m]) : i = pos[m - 1] + p
    <3>1. i \in 1 .. Len(Meshes(f))
      BY <1>9
    <3>2. InSome(parts, pos, i)
      BY <1>5, <1>7, <3>1, LaidSomewhere
    <3> QED BY <1>5, <3>2 DEF InSome
  <2> QED BY <1>3, <2>1
\* What it is.
<1>13. ASSUME NEW m \in 1 .. N, NEW p \in 1 .. Len(f.meshes[m])
       PROVE  /\ Meshes(f)[pos[m - 1] + p] = MeshOf(f, m, p)
              /\ pos[m - 1] \in Nat /\ pos[m] \in Nat
              /\ p \in Nat /\ pos[m - 1] + p <= pos[m] /\ p >= 1
  <2>1. p \in Nat /\ p \in 1 .. Len(parts[m]) /\ p >= 1 /\ p <= Len(f.meshes[m])
    BY <1>3
  <2>2. Meshes(f)[pos[m - 1] + p] = parts[m][p]
    BY <1>5, <1>7, <2>1 DEF Laid
  <2>3. pos[m] = pos[m - 1] + Len(f.meshes[m])
    BY <1>3, <1>5, <1>7 DEF Laid
  <2>4. m - 1 \in 0 .. N /\ m \in 0 .. N
    OBVIOUS
  <2>5. pos[m - 1] \in Nat /\ pos[m] \in Nat /\ Len(f.meshes[m]) \in Nat
    BY <1>3, <1>10, <2>4
  <2>6. pos[m - 1] + p <= pos[m]
    BY <2>1, <2>3, <2>5
  <2> QED BY <1>4, <2>1, <2>2, <2>5, <2>6
<1>14. ASSUME NEW i \in 1 .. L, NEW m \in 1 .. N, NEW p \in 1 .. Len(f.meshes[m]),
              i = pos[m - 1] + p
       PROVE  {j \in 1 .. i : Meshes(f)[j].glMesh = m} = pos[m - 1] + 1 .. pos[m - 1] + p
  <2>1. pos[m - 1] \in Nat /\ p \in Nat /\ i \in Nat /\ i <= pos[m] /\ pos[m] \in Nat /\ i <= L
    BY <1>13, <1>14, <1>9
  <2>2. ASSUME NEW j \in 1 .. i
        PROVE  Meshes(f)[j].glMesh = m <=> pos[m - 1] < j
    <3>1. j \in 1 .. L /\ j \in Nat /\ j <= i
      BY <2>1
    <3>2. PICK n \in 1 .. N : \E q \in 1 .. Len(f.meshes[n]) : j = pos[n - 1] + q
      BY <1>12, <3>1
    <3>3. PICK q \in 1 .. Len(f.meshes[n]) : j = pos[n - 1] + q
      BY <3>2
    <3>4. /\ Meshes(f)[j] = MeshOf(f, n, q)
          /\ pos[n - 1] \in Nat /\ pos[n] \in Nat /\ q \in Nat /\ q >= 1 /\ j <= pos[n]
      BY <1>13, <3>3
    <3>5. Meshes(f)[j].glMesh = n
      BY <3>4 DEF MeshOf
    <3>6. CASE n = m
      <4>1. pos[m - 1] < j
        BY <3>3, <3>4, <3>6
      <4> QED BY <3>5, <3>6, <4>1
    <3>7. CASE n < m
      <4>1. n \in 0 .. N /\ m - 1 \in n .. N /\ n # m
        BY <3>7
      <4>2. pos[n] <= pos[m - 1]
        BY <1>11, <4>1
      <4>3. ~(pos[m - 1] < j)
        BY <2>1, <3>1, <3>4, <4>2
      <4> QED BY <3>5, <4>1, <4>3
    <3>8. CASE m < n
      <4>1. m \in 0 .. N /\ n - 1 \in m .. N /\ n # m
        BY <3>8
      <4>2. pos[m] <= pos[n - 1]
        BY <1>11, <4>1
      <4>3. FALSE
        BY <2>1, <3>1, <3>3, <3>4, <4>2
      <4> QED BY <4>3
    <3>9. n = m \/ n < m \/ m < n
      OBVIOUS
    <3> QED BY <3>6, <3>7, <3>8, <3>9
  <2>3. \A j \in 1 .. i : pos[m - 1] < j <=> j \in pos[m - 1] + 1 .. pos[m - 1] + p
    BY <1>14, <2>1
  <2>4. \A j \in pos[m - 1] + 1 .. pos[m - 1] + p : j \in 1 .. i
    BY <1>14, <2>1
  <2> QED BY <2>2, <2>3, <2>4
<1>15. ASSUME NEW i \in 1 .. L
       PROVE  MadeFrom(f, Meshes(f), i)
  <2>1. PICK m \in 1 .. N : \E p \in 1 .. Len(f.meshes[m]) : i = pos[m - 1] + p
    BY <1>12
  <2>2. PICK p \in 1 .. Len(f.meshes[m]) : i = pos[m - 1] + p
    BY <2>1
  <2>3. Meshes(f)[i] = MeshOf(f, m, p) /\ pos[m - 1] \in Nat /\ p \in Nat /\ p >= 1
    BY <1>13, <2>2
  <2>4. PICK x \in Nat : x = pos[m - 1]
    BY <2>3
  <2>5. {j \in 1 .. i : Meshes(f)[j].glMesh = m} = x + 1 .. x + p
    BY <1>14, <2>2, <2>4
  <2>6. Cardinality(x + 1 .. x + p) = p
    <3>1. x + 1 \in Int /\ x + p \in Int /\ ~(x + 1 > x + p) /\ (x + p) - (x + 1) + 1 = p
      BY <2>3
    <3> QED BY <3>1, FS_Interval
  <2>7. m \in DOMAIN f.meshes /\ p \in DOMAIN f.meshes[m]
    BY <1>2, <1>3
  <2> QED BY <2>3, <2>5, <2>6, <2>7 DEF MadeFrom
<1> QED BY <1>9, <1>15

\* What a file that loads is loaded as.
LEMMA LoadedIs ==
  ASSUME NEW f, Load(f) # NoModel
  PROVE  /\ Load(f).meshes = Meshes(f) /\ Load(f).materials = Materials(f)
         /\ Load(f).skins = Skins(f) /\ Load(f).presets = Presets(f)
         /\ Load(f).rest = [n \in DOMAIN f.nodes |-> f.nodes[n].rest]
         /\ Load(f).children = [n \in DOMAIN f.nodes |-> f.nodes[n].children]
BY DEF Load

\* A place in a part is one in the whole.
LEMMA Within ==
  ASSUME NEW x \in Nat, NEW K \in Nat, NEW L \in Nat, NEW k \in Nat,
         k >= 1, k <= K, x + K <= L
  PROVE  x + k \in 1 .. L
OBVIOUS

\* A vertex of the i-th mesh is bound to the k-th joint of a skin, which is found
\* after the joints of the skins before it.
BoundTo(f, meshes, i, v, s, k) ==
  /\ s \in 1 .. Len(f.skins) /\ k \in 1 .. Len(f.skins[s])
  /\ v \in DOMAIN meshes[i].vertices
  /\ meshes[i].vertices[v] = k + SkinOffset(f, s)

\* It follows that joint when it is drawn.
FollowsJoint(f, drawn, v, s, k) == drawn.vertices[v] = f.skins[s][k]

\* A vertex that is bound to joint k of skin s follows it.
LEMMA JointsDrawn ==
  ASSUME NEW f, NEW Y, f.skins \in Seq(Seq(Y)), NEW m, NEW i \in DOMAIN m.meshes, NEW w,
         m.skins = Skins(f), NEW s, NEW k, NEW v, BoundTo(f, m.meshes, i, v, s, k)
  PROVE  FollowsJoint(f, Drawn(Prepare(NewScene(m), m.skins, w), i), v, s, k)
<1>1. /\ s \in 1 .. Len(f.skins) /\ k \in 1 .. Len(f.skins[s])
      /\ v \in DOMAIN m.meshes[i].vertices
      /\ m.meshes[i].vertices[v] = k + SkinOffset(f, s)
  BY DEF BoundTo
<1>2. PICK J : J = Skins(f)
  OBVIOUS
<1>3. J \in Seq(Y) /\ \E pos : Laid(f.skins, J, pos)
  BY <1>2, Flattened DEF Skins
<1>4. PICK pos : Laid(f.skins, J, pos)
  BY <1>3
<1>5. PICK N \in Nat : N = Len(f.skins)
  OBVIOUS
<1>6. s - 1 \in 0 .. N /\ s # 0 /\ s \in 1 .. N
  BY <1>1, <1>5
<1>7. SkinOffset(f, s) = pos[s - 1]
  <2>1. Len(FlattenSeq(SubSeq(f.skins, 1, s - 1))) = pos[s - 1]
    BY <1>4, <1>5, <1>6, LaidPrefix
  <2> QED BY <1>6, <2>1 DEF SkinOffset
<1>8. PICK x \in Nat : x = pos[s - 1]
  BY <1>4, <1>5, <1>6 DEF Laid
<1>9. PICK K \in Nat : K = Len(f.skins[s])
  BY <1>5, <1>6
<1>10. k \in Nat /\ k >= 1 /\ k <= K
  BY <1>1, <1>9
<1>11. J[x + k] = f.skins[s][k]
  BY <1>1, <1>4, <1>5, <1>6, <1>8, <1>10 DEF Laid
<1>12. x + k \in 1 .. Len(J)
  <2>1. pos[s] = x + K
    BY <1>4, <1>5, <1>6, <1>8, <1>9 DEF Laid
  <2>2. s \in 0 .. Len(f.skins) /\ Len(f.skins) \in s .. Len(f.skins)
    BY <1>5, <1>6
  <2>3. pos[s] <= pos[Len(f.skins)]
    BY <1>4, <2>2, LaidGrows
  <2>4. pos[Len(f.skins)] = Len(J) /\ Len(J) \in Nat
    BY <1>3, <1>4 DEF Laid
  <2>5. PICK L \in Nat : L = Len(J)
    BY <2>4
  <2>6. x + K <= L
    BY <2>1, <2>3, <2>4, <2>5
  <2>7. x + k \in 1 .. L
    BY <1>10, <2>6, Within
  <2> QED BY <2>5, <2>7
<1>13. J # <<>>
  BY <1>3, <1>12, EmptySeq
\* The buffer of the joints.
<1> DEFINE scene == NewScene(m)
           ready == Prepare(scene, m.skins, w)
<1>14. scene.joints = [j \in 1 .. Len(J) |-> NoMatrix]
  BY <1>2, <1>13 DEF NewScene, SkinData
<1>15. scene.meshes = [n \in DOMAIN m.meshes |-> m.meshes[n].vertices]
  BY DEF NewScene
<1>16. /\ ready.meshes = scene.meshes
       /\ ready.joints = [j \in DOMAIN scene.joints |->
                            IF j \in DOMAIN J THEN J[j] ELSE scene.joints[j]]
  <2>1. DOMAIN scene = {"meshes", "materials", "morphs", "joints"}
    BY DEF NewScene
  <2> HIDE DEF scene
  <2> QED BY <1>2, <2>1 DEF Prepare
<1>17. ready.joints[x + k] = J[x + k]
  <2>1. x + k \in DOMAIN J
    BY <1>3, <1>12
  <2> HIDE DEF scene, ready
  <2> QED BY <1>12, <1>14, <1>16, <2>1
<1>18. Drawn(ready, i).vertices[v] = ready.joints[ready.meshes[i][v]]
  <2>1. ready.meshes[i] = m.meshes[i].vertices
    BY <1>15, <1>16
  <2>2. Drawn(ready, i).vertices
          = [u \in DOMAIN ready.meshes[i] |-> ready.joints[ready.meshes[i][u]]]
    BY DEF Drawn
  <2> HIDE DEF ready
  <2> QED BY <1>1, <2>1, <2>2
<1>19. ready.meshes[i][v] = x + k
  <2>1. ready.meshes[i] = m.meshes[i].vertices
    BY <1>15, <1>16
  <2> HIDE DEF ready
  <2> QED BY <1>1, <1>7, <1>8, <1>10, <2>1
<1> HIDE DEF ready
<1>20. Drawn(ready, i).vertices[v] = f.skins[s][k]
  BY <1>11, <1>17, <1>18, <1>19
<1> QED BY <1>20 DEF scene, ready, FollowsJoint

\* What is drawn of the morphs and the material of a mesh.
LEMMA MorphsDrawn ==
  ASSUME NEW m, NEW i \in DOMAIN m.meshes, NEW joints, NEW w, i \in DOMAIN w
  PROVE  LET drawn == Drawn(Prepare(NewScene(m), joints, w), i)
         IN  /\ m.meshes[i].targets > 0 => drawn.moved = w[i]
             /\ drawn.material = GpuMaterial(MaterialInput(m, i))
<1> DEFINE scene == NewScene(m)
           ready == Prepare(scene, joints, w)
<1>1. /\ scene.morphs = [n \in DOMAIN m.meshes |-> PerMeshMorph(m.meshes[n])]
      /\ scene.materials = [n \in DOMAIN m.meshes |-> GpuMaterial(MaterialInput(m, n))]
      /\ DOMAIN scene = {"meshes", "materials", "morphs", "joints"}
  BY DEF NewScene
<1> HIDE DEF scene
<1>2. /\ ready.materials = scene.materials
      /\ ready.morphs = [n \in DOMAIN scene.morphs |->
                           IF n \in DOMAIN w /\ scene.morphs[n].targets > 0
                             THEN [scene.morphs[n] EXCEPT !.weights = w[n]] ELSE scene.morphs[n]]
  BY <1>1 DEF Prepare
<1>3. /\ Drawn(ready, i).moved = ready.morphs[i].weights
      /\ Drawn(ready, i).material = ready.materials[i]
  BY DEF Drawn
<1> HIDE DEF ready
<1>4. Drawn(ready, i).material = GpuMaterial(MaterialInput(m, i))
  BY <1>1, <1>2, <1>3
<1>5. ASSUME m.meshes[i].targets > 0
      PROVE  Drawn(ready, i).moved = w[i]
  <2>1. scene.morphs[i] = [targets |-> m.meshes[i].targets, weights |-> {}]
    BY <1>1 DEF PerMeshMorph
  <2>2. ready.morphs[i] = [scene.morphs[i] EXCEPT !.weights = w[i]]
    BY <1>1, <1>2, <1>5, <2>1
  <2>3. ready.morphs[i].weights = w[i]
    BY <2>1, <2>2
  <2> QED BY <1>3, <2>3
<1> QED BY <1>4, <1>5 DEF ready, scene

\* The material of a mesh has the colours and the image of the file's.
LEMMA MaterialDrawn ==
  ASSUME NEW f, ValidFile(f), NEW m, m.materials = Materials(f), NEW i,
         NEW k \in DOMAIN f.materials, k # 0, m.meshes[i].material = k
  PROVE  LET drawn == GpuMaterial(MaterialInput(m, i))
         IN  /\ drawn.colour = f.materials[k].colour
             /\ drawn.texture =
                  LET t == f.materials[k].texture
                  IN  IF t # 0 /\ f.images[f.textures[t]] THEN f.textures[t] ELSE White
             /\ k \in DOMAIN f.vrm.properties /\ "ShadeColor" \in DOMAIN f.vrm.properties[k] =>
                  drawn.shade = f.vrm.properties[k].ShadeColor
<1> DEFINE texture == Texture(f, f.materials[k].texture)
           plain == [PlainMaterial EXCEPT !.colour = f.materials[k].colour, !.texture = texture]
<1>1. PICK own : own = IF k \in DOMAIN f.vrm.properties
                         THEN MToon(plain, f.vrm.properties[k]) ELSE plain
  OBVIOUS
<1>2. MaterialInput(m, i) = own
  BY <1>1 DEF MaterialInput, Materials
<1>3. texture = LET t == f.materials[k].texture
                IN  IF t # 0 /\ f.images[f.textures[t]] THEN f.textures[t] ELSE 0
  BY DEF Texture
<1>4. /\ DOMAIN plain = {"colour", "texture", "shade", "rim"}
      /\ plain.colour = f.materials[k].colour /\ plain.texture = texture
  <2>1. PICK p : p = PlainMaterial
    OBVIOUS
  <2>2. DOMAIN p = {"colour", "texture", "shade", "rim"}
    BY <2>1 DEF PlainMaterial
  <2>3. plain = [p EXCEPT !.colour = f.materials[k].colour, !.texture = texture]
    BY <2>1
  <2> HIDE DEF texture, plain
  <2> QED BY <2>2, <2>3
<1> HIDE DEF texture, plain
<1>5. /\ DOMAIN own = {"colour", "texture", "shade", "rim"}
      /\ own.colour = f.materials[k].colour /\ own.texture = texture
      /\ k \in DOMAIN f.vrm.properties /\ "ShadeColor" \in DOMAIN f.vrm.properties[k] =>
           own.shade = f.vrm.properties[k].ShadeColor
  BY <1>1, <1>4 DEF MToon
<1>6. PICK drawn : drawn = GpuMaterial(own)
  OBVIOUS
<1>7. /\ drawn.colour = own.colour /\ drawn.shade = own.shade
      /\ drawn.texture = IF own.texture = 0 THEN White ELSE own.texture
  BY <1>5, <1>6 DEF GpuMaterial
<1>8. PICK t : t = f.materials[k].texture
  OBVIOUS
<1>9. own.texture = IF t # 0 /\ f.images[f.textures[t]] THEN f.textures[t] ELSE 0
  BY <1>3, <1>5, <1>8
<1>10. t # 0 => f.textures[t] # 0
  <2>1. t \in {0} \cup DOMAIN f.textures
    BY <1>8 DEF ValidFile
  <2>2. PICK images, textures : images = DOMAIN f.images /\ textures = f.textures
    OBVIOUS
  <2>3. \A x \in images : x # 0
    BY <2>2 DEF ValidFile
  <2>4. \A x \in DOMAIN textures : textures[x] \in images
    BY <2>2 DEF ValidFile
  <2> QED BY <2>1, <2>2, <2>3, <2>4
<1>11. drawn.texture = IF t # 0 /\ f.images[f.textures[t]] THEN f.textures[t] ELSE White
  BY <1>7, <1>9, <1>10
<1> QED BY <1>2, <1>5, <1>6, <1>7, <1>8, <1>11

\* The skin of a mesh is that of its nodes, if they agree on one.
LEMMA SkinOfMesh ==
  ASSUME NEW f, ValidFile(f), NEW m, NEW s,
         AgreeOnSkin(f, m, s)
  PROVE  /\ MeshToSkin(f, m) = s /\ s # 0
         /\ \E n \in DOMAIN f.nodes : f.nodes[n].mesh = m /\ f.nodes[n].skin = s
<1> DEFINE users == {n \in DOMAIN f.nodes : f.nodes[n].mesh = m /\ f.nodes[n].skin # 0}
<1>1. s # 0 /\ \E n \in DOMAIN f.nodes : f.nodes[n].mesh = m /\ f.nodes[n].skin = s
  BY DEF SkinsOf, AgreeOnSkin
<1>2. \A n \in users : f.nodes[n].skin = s
  BY DEF SkinsOf, AgreeOnSkin
<1>3. users # {}
  BY <1>1
<1>4. PICK N \in Nat : N = Cardinality(DOMAIN f.nodes)
  BY FS_CardinalityType DEF ValidFile
<1>5. users \subseteq 0 .. N
  <2>1. DOMAIN f.nodes = 0 .. N - 1
    BY <1>4 DEF ValidFile
  <2> QED BY <2>1
<1>6. MeshToSkin(f, m) = IF users = {} THEN 0 ELSE f.nodes[Max(users)].skin
  BY DEF MeshToSkin
<1> HIDE DEF users
<1>7. Max(users) \in users
  <2>1. PICK k \in users : \A n \in users : n <= k
    BY <1>3, <1>4, <1>5, HasGreatest
  <2>2. \A n \in users : n \in Nat
    BY <1>4, <1>5
  <2>3. \A n \in users : k >= n
    BY <2>1, <2>2
  <2> QED BY <2>3 DEF Max
<1> QED BY <1>1, <1>2, <1>3, <1>6, <1>7

\* A mesh is drawn as the file says.
LEMMA MeshesRight ==
  ASSUME NEW f, ValidFile(f), Load(f) # NoModel, NEW md, md = Load(f),
         NEW i \in DOMAIN md.meshes, NEW preset \in DOMAIN md.presets
  PROVE  MeshMatches(f, md, i, preset)
<1>1. /\ md.meshes = Meshes(f) /\ md.materials = Materials(f) /\ md.skins = Skins(f)
      /\ md.presets = Presets(f)
  BY LoadedIs
<1>2. PICK R : f.meshes \in Seq(Seq(R)) /\ R = [vertices : Seq(Nat), targets : Nat,
                                                material : {0} \cup DOMAIN f.materials]
  BY DEF ValidFile
<1>3. MadeFrom(f, md.meshes, i)
  BY <1>1, <1>2, MeshFrom
<1>4. PICK g \in DOMAIN f.meshes : \E q \in DOMAIN f.meshes[g] :
        /\ md.meshes[i] = MeshOf(f, g, q)
        /\ Cardinality({j \in 1 .. i : md.meshes[j].glMesh = g}) = q
  BY <1>3 DEF MadeFrom
<1>5. PICK p \in DOMAIN f.meshes[g] :
        /\ md.meshes[i] = MeshOf(f, g, p)
        /\ Cardinality({j \in 1 .. i : md.meshes[j].glMesh = g}) = p
  BY <1>4
<1>6. PICK prim : prim = f.meshes[g][p]
  OBVIOUS
<1>7. /\ prim.targets \in Nat /\ prim.material \in {0} \cup DOMAIN f.materials
      /\ prim.vertices \in Seq(Nat)
  <2>1. f.meshes[g] \in Seq(R)
    BY <1>2
  <2>2. prim \in R
    BY <1>6, <2>1
  <2> QED BY <1>2, <2>2
<1>8. /\ md.meshes[i].vertices = [v \in DOMAIN prim.vertices |->
                                     prim.vertices[v] + SkinOffset(f, MeshToSkin(f, g))]
      /\ md.meshes[i].targets = prim.targets
      /\ md.meshes[i].material = prim.material
      /\ md.meshes[i].glMesh = g
  BY <1>5, <1>6 DEF MeshOf
<1> DEFINE w == MorphWeights(md, {preset})
           skins == SkinsOf(f, g)
           drawn == Drawn(Prepare(NewScene(md), md.skins, w), i)
<1>9. ASSUME NEW v \in DOMAIN prim.vertices, NEW s \in skins, AgreeOnSkin(f, g, s)
      PROVE  drawn.vertices[v] = f.skins[s][prim.vertices[v]]
  <2>1. MeshToSkin(f, g) = s /\ s # 0
    BY <1>9, SkinOfMesh
  <2>2. PICK n \in DOMAIN f.nodes : f.nodes[n].mesh = g /\ f.nodes[n].skin = s
    BY <1>9, SkinOfMesh
  <2>3. PICK k : k = prim.vertices[v]
    OBVIOUS
  <2>4. f.skins \in Seq(Seq(DOMAIN f.nodes)) /\ s \in 1 .. Len(f.skins) /\ k \in DOMAIN f.skins[s]
    <3>1. f.skins \in Seq(Seq(DOMAIN f.nodes)) /\ f.nodes[n].skin \in 0 .. Len(f.skins)
      BY DEF ValidFile
    <3>2. f.nodes[n].skin # 0 =>
            f.meshes[g][p].vertices[v] \in DOMAIN f.skins[f.nodes[n].skin]
      BY <1>6, <2>2 DEF ValidFile
    <3>3. Len(f.skins) \in Nat
      BY <3>1
    <3>4. s \in 1 .. Len(f.skins)
      BY <2>1, <2>2, <3>1, <3>3
    <3> QED BY <1>6, <2>1, <2>2, <2>3, <3>1, <3>2, <3>4
  <2>5. k \in 1 .. Len(f.skins[s])
    BY <2>4
  <2>6. v \in DOMAIN md.meshes[i].vertices /\ md.meshes[i].vertices[v] = k + SkinOffset(f, s)
    BY <1>8, <2>1, <2>3
  <2> HIDE DEF w, skins
  <2>7. drawn.vertices[v] = f.skins[s][k]
    <3>1. PICK Y : Y = DOMAIN f.nodes
      OBVIOUS
    <3>2. f.skins \in Seq(Seq(Y)) /\ s \in 1 .. Len(f.skins) /\ md.skins = Skins(f)
      BY <1>1, <2>4, <3>1
    <3>3. BoundTo(f, md.meshes, i, v, s, k)
      BY <2>5, <2>6, <3>2 DEF BoundTo
    <3>4. FollowsJoint(f, drawn, v, s, k)
      BY <3>2, <3>3, JointsDrawn
    <3> QED BY <3>4 DEF FollowsJoint
  <2> QED BY <2>3, <2>7
<1>10. i \in DOMAIN w /\ w[i] = Morphs(md, {preset}, i)
  BY DEF MorphWeights
<1>11. /\ md.meshes[i].targets > 0 => drawn.moved = w[i]
      /\ drawn.material = GpuMaterial(MaterialInput(md, i))
  <2> HIDE DEF w
  <2> QED BY <1>10, MorphsDrawn
<1>12. ASSUME NEW t \in 1 .. prim.targets
       PROVE  t \in drawn.moved <=> \E b \in md.presets[preset] : b.mesh = g /\ b.target = t
  <2>1. PICK T \in Nat : T = prim.targets
    BY <1>7
  <2>2. t \in Nat /\ t >= 1 /\ t <= T
    BY <2>1
  <2>3. md.meshes[i].targets > 0
    BY <1>8, <2>1, <2>2
  <2>4. UNION {md.presets[q] : q \in {preset} \cap DOMAIN md.presets} = md.presets[preset]
    OBVIOUS
  <2>5. Morphs(md, {preset}, i)
          = {b.target : b \in {c \in md.presets[preset] : c.mesh = g /\ c.target <= T}}
    BY <1>8, <2>1, <2>4 DEF Morphs
  <2>6. t \in Morphs(md, {preset}, i)
          <=> \E b \in md.presets[preset] : b.mesh = g /\ b.target = t
    BY <2>2, <2>5
  <2> HIDE DEF drawn, w
  <2> QED BY <1>10, <1>11, <2>3, <2>6
<1>13. ASSUME prim.material # 0
       PROVE  LET material == f.materials[prim.material]
              IN  /\ drawn.material.colour = material.colour
                  /\ drawn.material.texture =
                       IF material.texture # 0 /\ f.images[f.textures[material.texture]]
                         THEN f.textures[material.texture] ELSE White
                  /\ \A q \in DOMAIN f.vrm.properties :
                       q = prim.material /\ "ShadeColor" \in DOMAIN f.vrm.properties[q]
                         => drawn.material.shade = f.vrm.properties[q].ShadeColor
  <2>1. PICK k : k = prim.material
    OBVIOUS
  <2>2. k \in DOMAIN f.materials /\ k # 0 /\ md.meshes[i].material = k
    BY <1>7, <1>8, <1>13, <2>1
  <2>3. PICK d : d = GpuMaterial(MaterialInput(md, i))
    OBVIOUS
  <2>4. /\ d.colour = f.materials[k].colour
        /\ d.texture =
             LET t == f.materials[k].texture
             IN  IF t # 0 /\ f.images[f.textures[t]] THEN f.textures[t] ELSE White
        /\ k \in DOMAIN f.vrm.properties /\ "ShadeColor" \in DOMAIN f.vrm.properties[k] =>
             d.shade = f.vrm.properties[k].ShadeColor
    BY <1>1, <2>2, <2>3, MaterialDrawn
  <2>5. drawn.material = d
    BY <1>11, <2>3
  <2> HIDE DEF drawn
  <2> QED BY <2>1, <2>4, <2>5
<1>14. /\ \A v \in DOMAIN prim.vertices : \A s \in skins :
            AgreeOnSkin(f, g, s) => drawn.vertices[v] = f.skins[s][prim.vertices[v]]
       /\ \A t \in 1 .. prim.targets :
            t \in drawn.moved <=> \E b \in md.presets[preset] : b.mesh = g /\ b.target = t
  <2> HIDE DEF drawn, skins
  <2> QED BY <1>9, <1>12
<1>15. DrawnAs(f, g, prim, md.presets[preset], drawn)
  <2> HIDE DEF drawn
  <2> QED BY <1>13, <1>14 DEF DrawnAs
<1>16. /\ md.meshes[i].glMesh = g
       /\ f.meshes[g][Cardinality({j \in 1 .. i : md.meshes[j].glMesh = g})] = prim
  BY <1>5, <1>6, <1>8
<1>17. MeshMatches(f, md, i, preset)
         = DrawnAs(f, md.meshes[i].glMesh,
                   f.meshes[md.meshes[i].glMesh]
                     [Cardinality({j \in 1 .. i : md.meshes[j].glMesh = md.meshes[i].glMesh})],
                   md.presets[preset],
                   Drawn(Prepare(NewScene(md), md.skins, MorphWeights(md, {preset})), i))
  BY DEF MeshMatches
<1> QED BY <1>15, <1>16, <1>17

\* The model is that of its file.
LoadedFromFile == file \in VrmFiles /\ model \in {NoModel, Load(file)}

\* Every mesh that Scene draws of the model of loader.rs has the joints, the morph
\* targets, the material and the image that the file gives it, for any valid file with
\* any number of skins, meshes, primitives and textures; and only the background that
\* is there is behind them.
THEOREM MeshesSound == AvatarSpec => []MeshesMatchFile
<1>1. AvatarInit => LoadedFromFile
  BY DEF AvatarInit, LoadedFromFile
<1>2. LoadedFromFile /\ [AvatarNext]_avatarVars => LoadedFromFile'
  BY DEF LoadedFromFile, AvatarNext, Start, Frame, ToggleTracking, ToggleIdle, files, avatarVars
<1>3. LoadedFromFile => MeshesMatchFile
  <2> SUFFICES ASSUME LoadedFromFile PROVE MeshesMatchFile
    OBVIOUS
  <2>1. ASSUME model # NoModel, NEW i \in DOMAIN model.meshes, NEW preset \in DOMAIN model.presets
        PROVE  MeshMatches(file, model, i, preset)
    <3>1. model = Load(file) /\ Load(file) # NoModel /\ ValidFile(file)
      BY <2>1, AvatarAssumption DEF LoadedFromFile
    <3>2. ASSUME NEW f, NEW md, f = file, md = model
          PROVE  MeshMatches(f, md, i, preset)
      BY <3>1, <3>2, MeshesRight
    <3> QED BY <3>2
  <2>2. \A backgrounds \in SUBSET {"image", "video"}, clear \in {0, 1} :
          Screen(backgrounds, clear) =
            {"meshes"} \cup IF clear = 0 THEN {}
                            ELSE IF "video" \in backgrounds THEN {"video"} ELSE backgrounds
    BY ScreenRight
  <2> QED BY <2>1, <2>2 DEF MeshesMatchFile
<1> QED BY <1>1, <1>2, <1>3, PTL DEF AvatarSpec

-----------------------------------------------------------------------------
(* The joint matrices *)

\* Rotations in the world, from the roots down.
Down(local, parent, f) ==
  f = [n \in DOMAIN parent |->
         IF parent[n] = NoNode THEN local[n] ELSE Times(f[parent[n]], local[n])]

\* Every parent is a node, and less deep than its children; none is deeper than N - 1.
Ranked(parent, depth, N) ==
  /\ \A n \in DOMAIN parent : depth[n] \in 0 .. N - 1
  /\ \A n \in DOMAIN parent :
       parent[n] # NoNode => parent[n] \in DOMAIN parent /\ depth[parent[n]] < depth[n]

\* There is such a function: it can be built from one depth to the next.
LEMMA DownExists ==
  ASSUME NEW local, NEW parent, NEW N \in Nat, NEW depth, Ranked(parent, depth, N)
  PROVE  \E f : Down(local, parent, f)
<1> DEFINE next(f, n) == IF parent[n] = NoNode THEN local[n] ELSE Times(f[parent[n]], local[n])
           S == {k \in 0 .. N : \E f : \A n \in DOMAIN parent : depth[n] < k => f[n] = next(f, n)}
<1>1. /\ \A n \in DOMAIN parent : depth[n] \in Nat /\ depth[n] < N
      /\ \A n \in DOMAIN parent :
           parent[n] # NoNode => parent[n] \in DOMAIN parent /\ depth[parent[n]] < depth[n]
  BY DEF Ranked
<1>2. 0 \in S
  <2>1. \A n \in DOMAIN parent : ~(depth[n] < 0)
    BY <1>1
  <2> QED BY <2>1
<1>3. ASSUME NEW k \in 0 .. N - 1, k \in S PROVE k + 1 \in S
  <2>1. PICK f : \A n \in DOMAIN parent : depth[n] < k => f[n] = next(f, n)
    BY <1>3
  <2>2. PICK g : g = [n \in DOMAIN parent |-> next(f, n)]
    OBVIOUS
  <2>3. \A n \in DOMAIN parent : g[n] = next(f, n)
    BY <2>2
  <2>4. ASSUME NEW n \in DOMAIN parent, depth[n] < k + 1 PROVE g[n] = next(g, n)
    <3>1. CASE parent[n] = NoNode
      <4>1. next(f, n) = next(g, n)
        BY <3>1
      <4> HIDE DEF next
      <4> QED BY <2>3, <4>1
    <3>2. CASE parent[n] # NoNode
      <4>1. parent[n] \in DOMAIN parent /\ depth[parent[n]] < depth[n]
        BY <1>1, <3>2
      <4>2. depth[parent[n]] < k
        BY <1>1, <2>4, <4>1
      <4>3. f[parent[n]] = g[parent[n]]
        <5> HIDE DEF next
        <5> QED BY <2>1, <2>3, <4>1, <4>2
      <4>4. next(f, n) = next(g, n)
        BY <3>2, <4>3
      <4> HIDE DEF next
      <4> QED BY <2>3, <4>4
    <3> QED BY <3>1, <3>2
  <2>5. k + 1 \in 0 .. N
    OBVIOUS
  <2> HIDE DEF next
  <2> QED BY <2>4, <2>5
<1>4. N \in S
  <2>1. 0 \in Nat /\ N \in 0 .. N
    OBVIOUS
  <2> HIDE DEF S
  <2> QED BY <1>2, <1>3, <2>1, IntervalInduct
<1>5. PICK f : \A n \in DOMAIN parent : depth[n] < N => f[n] = next(f, n)
  BY <1>4
<1>6. \A n \in DOMAIN parent : f[n] = next(f, n)
  BY <1>1, <1>5
<1>7. PICK g : g = [n \in DOMAIN parent |-> f[n]]
  OBVIOUS
<1>8. \A n \in DOMAIN parent : next(f, n) = next(g, n)
  BY <1>1, <1>7
<1>9. g = [n \in DOMAIN parent |-> next(g, n)]
  <2> HIDE DEF next
  <2> QED BY <1>6, <1>7, <1>8
<1> QED BY <1>9 DEF Down

\* The path of the property.
LEMMA PathIsDown ==
  ASSUME NEW local, NEW parent, NEW n
  PROVE  PathRotation(local, parent, n) = (CHOOSE f : Down(local, parent, f))[n]
BY DEF PathRotation, Down

\* The nodes of a model make up trees: 0 .. N - 1, each with one parent or none, and
\* the children below.
Forest(m, N, depth) ==
  /\ DOMAIN m.rest = 0 .. N - 1 /\ DOMAIN m.children = 0 .. N - 1
  /\ \A n \in 0 .. N - 1 :
       /\ m.children[n] \subseteq 0 .. N - 1
       /\ depth[n] \in 0 .. N - 1
       /\ \A k \in m.children[n] : depth[n] < depth[k]
       /\ \A k \in (0 .. N - 1) \ {n} : m.children[n] \cap m.children[k] = {}

\* The model of a valid file is a forest.
LEMMA LoadedForest ==
  ASSUME NEW f, ValidFile(f), Load(f) # NoModel
  PROVE  \E N \in Nat : \E depth : Forest(Load(f), N, depth)
<1>1. PICK N \in Nat : N = Cardinality(DOMAIN f.nodes)
  BY FS_CardinalityType DEF ValidFile
<1>2. DOMAIN f.nodes = 0 .. N - 1
  BY <1>1 DEF ValidFile
<1>3. PICK depth \in [0 .. N - 1 -> 0 .. N - 1] :
        \A n \in 0 .. N - 1 : \A k \in f.nodes[n].children : depth[n] < depth[k]
  BY <1>2 DEF ValidFile
<1>4. \A n \in 0 .. N - 1 :
        /\ f.nodes[n].children \subseteq 0 .. N - 1
        /\ \A k \in (0 .. N - 1) \ {n} : f.nodes[n].children \cap f.nodes[k].children = {}
  BY <1>2 DEF ValidFile
<1>5. PICK m : m = Load(f)
  OBVIOUS
<1>6. /\ DOMAIN m.rest = 0 .. N - 1 /\ DOMAIN m.children = 0 .. N - 1
      /\ \A n \in 0 .. N - 1 : m.children[n] = f.nodes[n].children
  <2>1. /\ m.rest = [n \in DOMAIN f.nodes |-> f.nodes[n].rest]
        /\ m.children = [n \in DOMAIN f.nodes |-> f.nodes[n].children]
    BY <1>5, LoadedIs
  <2>2. PICK r : r = m.rest
    OBVIOUS
  <2>3. PICK c : c = m.children
    OBVIOUS
  <2>4. /\ r = [n \in 0 .. N - 1 |-> f.nodes[n].rest]
        /\ c = [n \in 0 .. N - 1 |-> f.nodes[n].children]
    BY <1>2, <2>1, <2>2, <2>3
  <2>5. DOMAIN r = 0 .. N - 1 /\ DOMAIN c = 0 .. N - 1
    BY <2>4
  <2>6. \A n \in 0 .. N - 1 : c[n] = f.nodes[n].children
    BY <2>4
  <2> QED BY <2>2, <2>3, <2>5, <2>6
<1>7. Forest(m, N, depth)
  BY <1>3, <1>4, <1>6 DEF Forest
<1> QED BY <1>5, <1>7

\* What is above a node.
LEMMA AboveOne ==
  ASSUME NEW m, NEW N \in Nat, NEW depth, Forest(m, N, depth), NEW n \in 0 .. N - 1
  PROVE  /\ Above(m, n) \subseteq 0 .. N - 1
         /\ \A p \in 0 .. N - 1 : p \in Above(m, n) <=> n \in m.children[p]
         /\ \A p \in Above(m, n) : Above(m, n) = {p} /\ depth[p] < depth[n]
<1>1. /\ Above(m, n) \subseteq 0 .. N - 1
      /\ \A p \in 0 .. N - 1 : p \in Above(m, n) <=> n \in m.children[p]
  BY DEF Above, Forest
<1>2. ASSUME NEW p \in Above(m, n) PROVE Above(m, n) = {p} /\ depth[p] < depth[n]
  <2>1. p \in 0 .. N - 1 /\ n \in m.children[p]
    BY <1>1
  <2>2. ASSUME NEW x \in Above(m, n) PROVE x = p
    <3>1. x \in 0 .. N - 1 /\ n \in m.children[x]
      BY <1>1
    <3> QED BY <2>1, <3>1 DEF Forest
  <2>3. depth[p] < depth[n]
    BY <2>1 DEF Forest
  <2> QED BY <2>2, <2>3
<1> QED BY <1>1, <1>2

\* The parent of a node, and its rotation, are those that the joints are computed with.
LEMMA ModelIsRanked ==
  ASSUME NEW m, NEW N \in Nat, NEW depth, Forest(m, N, depth)
  PROVE  /\ DOMAIN ModelParent(m) = 0 .. N - 1
         /\ Ranked(ModelParent(m), depth, N)
         /\ \A n \in 0 .. N - 1 :
              ModelParent(m)[n] = IF Above(m, n) = {} THEN NoNode
                                  ELSE CHOOSE p \in Above(m, n) : TRUE
<1>1. ModelParent(m) = [n \in 0 .. N - 1 |-> IF Above(m, n) = {} THEN NoNode
                                              ELSE CHOOSE p \in Above(m, n) : TRUE]
  BY DEF ModelParent, Above, Forest
<1>2. PICK parent : parent = ModelParent(m)
  OBVIOUS
<1>3. /\ DOMAIN parent = 0 .. N - 1
      /\ \A n \in 0 .. N - 1 : parent[n] = IF Above(m, n) = {} THEN NoNode
                                           ELSE CHOOSE p \in Above(m, n) : TRUE
  BY <1>1, <1>2
<1>4. ASSUME NEW n \in 0 .. N - 1, parent[n] # NoNode
      PROVE  parent[n] \in 0 .. N - 1 /\ depth[parent[n]] < depth[n]
  <2>1. Above(m, n) # {}
    BY <1>3, <1>4
  <2>2. parent[n] \in Above(m, n)
    BY <1>3, <2>1
  <2> QED BY <2>2, AboveOne
<1>5. Ranked(parent, depth, N)
  BY <1>3, <1>4 DEF Ranked, Forest
<1> QED BY <1>2, <1>3, <1>5

\* What holds between two visits: the world has some nodes, with the rotation of their
\* paths; the queue has each of the others once whose parent is one of those, or that
\* has none.
Waiting(m, N, world, q) ==
  /\ q \in Seq(0 .. N - 1) /\ IsInjective(q)
  /\ DOMAIN world \subseteq 0 .. N - 1
  /\ Range(q) \cap DOMAIN world = {}
  /\ \A n \in 0 .. N - 1 : n \in DOMAIN world \cup Range(q) <=> Above(m, n) \subseteq DOMAIN world

\* The world has the rotations that path has.
Follows(world, path) == \A n \in DOMAIN world : world[n] = path[n]

\* path has the product of the rotations along the path of every node.
PathOf(m, N, r, path) ==
  \A n \in 0 .. N - 1 :
    path[n] = IF Above(m, n) = {} THEN LocalRotation(m, r, n)
              ELSE Times(path[CHOOSE p \in Above(m, n) : TRUE], LocalRotation(m, r, n))

\* What is so before and after every visit.
Reached(m, N, path, s) == Waiting(m, N, s.world, s.queue) /\ Follows(s.world, path)

\* At first the roots wait.
LEMMA RootsReached ==
  ASSUME NEW m, NEW N \in Nat, NEW depth, Forest(m, N, depth), NEW path, NEW s,
         s = [world |-> <<>>, queue |-> SetToSeq({n \in DOMAIN m.rest : Above(m, n) = {}})]
  PROVE  Reached(m, N, path, s) /\ DOMAIN s.world = {}
<1> DEFINE roots == {n \in DOMAIN m.rest : Above(m, n) = {}}
<1>1. DOMAIN m.rest = 0 .. N - 1 /\ IsFiniteSet(0 .. N - 1)
  BY FS_Interval DEF Forest
<1>2. roots \subseteq 0 .. N - 1 /\ IsFiniteSet(roots)
  BY <1>1, FS_Subset
<1>3. PICK q : q = SetToSeq(roots)
  OBVIOUS
<1>4. q \in Seq(roots) /\ IsInjective(q) /\ Range(q) = roots
  BY <1>2, <1>3, SetIsListed DEF Lists
<1>5. q \in Seq(0 .. N - 1)
  BY <1>2, <1>4
<1>6. s.queue = q /\ s.world = <<>> /\ DOMAIN s.world = {}
  <2>1. DOMAIN <<>> = {}
    OBVIOUS
  <2> QED BY <1>3, <2>1
<1>7. \A n \in 0 .. N - 1 : n \in roots <=> Above(m, n) \subseteq {}
  BY <1>1
<1> HIDE DEF roots
<1>8. Waiting(m, N, s.world, s.queue)
  BY <1>4, <1>5, <1>6, <1>7 DEF Waiting
<1>9. Follows(s.world, path)
  BY <1>6 DEF Follows
<1> QED BY <1>6, <1>8, <1>9 DEF Reached

\* As long as a node is missing one waits: of those that are missing, the one that is
\* the least deep.
LEMMA SomeoneWaits ==
  ASSUME NEW m, NEW N \in Nat, NEW depth, Forest(m, N, depth), NEW world, NEW q,
         Waiting(m, N, world, q), DOMAIN world # 0 .. N - 1
  PROVE  q # <<>>
<1> DEFINE missing == (0 .. N - 1) \ DOMAIN world
           depths == {depth[n] : n \in missing}
<1>1. missing # {}
  BY DEF Waiting
<1>2. depths \subseteq Nat /\ depths # {}
  <2>1. \A n \in missing : depth[n] \in Nat
    BY DEF Forest
  <2> QED BY <1>1, <2>1
<1>3. PICK d \in depths : \A e \in depths : d <= e
  <2> HIDE DEF depths
  <2> QED BY <1>2, HasLeast
<1>4. PICK n \in missing : depth[n] = d
  OBVIOUS
<1>5. Above(m, n) \subseteq DOMAIN world
  <2>1. ASSUME NEW p \in Above(m, n) PROVE p \in DOMAIN world
    <3>1. p \in 0 .. N - 1 /\ depth[p] < depth[n]
      BY AboveOne
    <3>2. ASSUME p \in missing PROVE FALSE
      <4>1. d <= depth[p]
        BY <1>3, <3>2
      <4>2. d \in Nat /\ depth[p] \in Nat
        BY <1>2, <3>2
      <4> QED BY <1>4, <3>1, <4>1, <4>2
    <3> QED BY <3>1, <3>2
  <2> QED BY <2>1
<1>6. n \in Range(q)
  BY <1>5 DEF Waiting
<1> QED BY <1>6 DEF Range

\* A visit adds one node to the world.
LEMMA VisitReaches ==
  ASSUME NEW m, NEW N \in Nat, NEW depth, Forest(m, N, depth), NEW r, NEW path,
         PathOf(m, N, r, path), NEW s, Reached(m, N, path, s), s.queue # <<>>
  PROVE  /\ Reached(m, N, path, Visit(m, r, s))
         /\ Head(s.queue) \in (0 .. N - 1) \ DOMAIN s.world
         /\ DOMAIN Visit(m, r, s).world = DOMAIN s.world \cup {Head(s.queue)}
<1>1. PICK world : world = s.world
  OBVIOUS
<1>2. PICK q : q = s.queue
  OBVIOUS
<1>3. PICK n : n = Head(q)
  OBVIOUS
<1>4. PICK W : W = DOMAIN world
  OBVIOUS
<1>5. PICK Q : Q = Range(q)
  OBVIOUS
<1>6. /\ q \in Seq(0 .. N - 1) /\ Lists(q, Q) /\ q # <<>>
      /\ W \subseteq 0 .. N - 1 /\ Q \cap W = {}
      /\ \A k \in 0 .. N - 1 : k \in W \cup Q <=> Above(m, k) \subseteq W
      /\ \A k \in W : world[k] = path[k]
  BY <1>1, <1>2, <1>4, <1>5 DEF Reached, Waiting, Follows, Lists
<1>7. Q \subseteq 0 .. N - 1
  BY <1>5, <1>6 DEF Range
<1>8. PICK t : t = SetToSeq(m.children[n])
  OBVIOUS
<1>9. n \in Q
  <2>1. Lists(<<>>, {})
    BY DEF Lists, IsInjective, Range
  <2>2. <<>> \in Seq(0 .. N - 1) /\ Q \cap {} = {}
    OBVIOUS
  <2> QED BY <1>3, <1>6, <2>1, <2>2, NextQueue
<1>10. PICK C : C = m.children[n]
  OBVIOUS
<1>11. C \subseteq 0 .. N - 1 /\ IsFiniteSet(C)
  <2>1. C \subseteq 0 .. N - 1
    BY <1>7, <1>9, <1>10 DEF Forest
  <2>2. 0 \in Int /\ N - 1 \in Int
    OBVIOUS
  <2>3. IsFiniteSet(0 .. N - 1)
    BY <2>2, FS_Interval
  <2> QED BY <2>1, <2>3, FS_Subset
<1>12. t \in Seq(0 .. N - 1) /\ Lists(t, C)
  <2>1. t \in Seq(C) /\ Lists(t, C)
    BY <1>8, <1>10, <1>11, SetIsListed
  <2>2. PICK X : X = 0 .. N - 1
    OBVIOUS
  <2>3. C \subseteq X
    BY <1>11, <2>2
  <2>4. t \in Seq(X)
    BY <2>1, <2>3
  <2> QED BY <2>1, <2>2, <2>4
\* A child is neither in the world nor in the queue.
<1>13. \A k \in C : k \in 0 .. N - 1 /\ Above(m, k) = {n}
  <2>1. ASSUME NEW k \in C PROVE k \in 0 .. N - 1 /\ Above(m, k) = {n}
    <3>1. k \in 0 .. N - 1 /\ n \in 0 .. N - 1
      BY <1>7, <1>9, <1>11
    <3>2. n \in Above(m, k)
      BY <1>10, <3>1, AboveOne
    <3> QED BY <3>1, <3>2, AboveOne
  <2> QED BY <2>1
<1>14. C \cap (W \cup Q) = {}
  BY <1>6, <1>9, <1>13
<1>15. PICK v : v = Tail(q) \o t
  OBVIOUS
<1>16. v \in Seq(0 .. N - 1) /\ Lists(v, (Q \ {n}) \cup C)
  <2>1. Q \cap C = {}
    BY <1>14
  <2>2. /\ Tail(q) \o t \in Seq(0 .. N - 1)
        /\ Lists(Tail(q) \o t, (Q \ {Head(q)}) \cup C)
    BY ZenonT(60), <1>6, <1>12, <2>1, NextQueue
  <2> QED BY <1>3, <1>15, <2>2
\* The world with n.
<1> DEFINE new == IF Above(m, n) = {} THEN LocalRotation(m, r, n)
                  ELSE Times(world[CHOOSE p \in Above(m, n) : TRUE], LocalRotation(m, r, n))
<1>17. new = path[n]
  <2>1. n \in 0 .. N - 1 /\ Above(m, n) \subseteq W
    BY <1>6, <1>7, <1>9
  <2>2. PICK p : p = CHOOSE x \in Above(m, n) : TRUE
    OBVIOUS
  <2>3. Above(m, n) # {} => world[p] = path[p]
    BY <1>6, <2>1, <2>2
  <2>4. path[n] = IF Above(m, n) = {} THEN LocalRotation(m, r, n)
                  ELSE Times(path[p], LocalRotation(m, r, n))
    BY <2>1, <2>2 DEF PathOf
  <2> QED BY <2>2, <2>3, <2>4
<1>18. PICK w : w = [k \in W \cup {n} |-> IF k \in W THEN world[k] ELSE new]
  OBVIOUS
<1>19. Visit(m, r, s) = [world |-> w, queue |-> v]
  <2>1. n \notin W
    BY <1>6, <1>9
  <2> QED BY <1>1, <1>2, <1>3, <1>4, <1>8, <1>15, <1>18, <2>1 DEF Visit
<1> HIDE DEF new
<1>20. DOMAIN w = W \cup {n} /\ Follows(w, path)
  BY <1>6, <1>17, <1>18 DEF Follows
<1>21. Waiting(m, N, w, v)
  <2>1. IsInjective(v) /\ Range(v) = (Q \ {n}) \cup C
    BY <1>16 DEF Lists
  <2>2. (W \cup {n}) \cap ((Q \ {n}) \cup C) = {}
    BY <1>6, <1>9, <1>14
  <2>3. ASSUME NEW k \in 0 .. N - 1
        PROVE  k \in (W \cup {n}) \cup ((Q \ {n}) \cup C) <=> Above(m, k) \subseteq W \cup {n}
    <3>1. k \in (W \cup {n}) \cup ((Q \ {n}) \cup C) <=> k \in W \cup Q \/ k \in C
      BY <1>9
    <3>2. n \in Above(m, k) <=> k \in C
      BY <1>7, <1>9, <1>10, AboveOne
    <3> QED BY <1>6, <1>13, <3>1, <3>2
  <2> QED BY <1>6, <1>7, <1>9, <1>16, <1>20, <2>1, <2>2, <2>3 DEF Waiting
<1>22. Reached(m, N, path, Visit(m, r, s))
  <2>1. PICK z : z = [world |-> w, queue |-> v]
    OBVIOUS
  <2>2. z.world = w /\ z.queue = v
    BY <2>1
  <2> QED BY <1>19, <1>20, <1>21, <2>1, <2>2 DEF Reached
<1>23. Head(s.queue) \in (0 .. N - 1) \ DOMAIN s.world
  BY <1>1, <1>2, <1>3, <1>4, <1>6, <1>7, <1>9
<1>24. DOMAIN Visit(m, r, s).world = DOMAIN s.world \cup {Head(s.queue)}
  BY <1>1, <1>2, <1>3, <1>4, <1>19, <1>20
<1> QED BY <1>22, <1>23, <1>24

\* All visits, one after the other.
Visits(m, r, f) ==
  f = [k \in 0 .. Cardinality(DOMAIN m.rest) |->
         IF k = 0 THEN [world |-> <<>>,
                        queue |-> SetToSeq({n \in DOMAIN m.rest : Above(m, n) = {}})]
         ELSE Visit(m, r, f[k - 1])]

\* The joint matrices are those after a visit for every node.
LEMMA MatricesAreVisits ==
  ASSUME NEW m, NEW r
  PROVE  ComputeJointMatrices(m, r) =
           (CHOOSE f : Visits(m, r, f))[Cardinality(DOMAIN m.rest)].world
BY DEF ComputeJointMatrices, Visits

\* The visits can be made, one after the other.
LEMMA VisitsExist ==
  ASSUME NEW m, NEW r, Cardinality(DOMAIN m.rest) \in Nat
  PROVE  \E f : Visits(m, r, f)
<1>1. PICK N \in Nat : N = Cardinality(DOMAIN m.rest)
  OBVIOUS
<1> DEFINE first == [world |-> <<>>, queue |-> SetToSeq({n \in DOMAIN m.rest : Above(m, n) = {}})]
           next(f, k) == IF k = 0 THEN first ELSE Visit(m, r, f[k - 1])
           S == {n \in 0 .. N : \E f : \A k \in 0 .. N : k <= n => f[k] = next(f, k)}
<1>2. 0 \in S
  <2>1. PICK f : f = [k \in 0 .. N |-> first]
    OBVIOUS
  <2>2. \A k \in 0 .. N : k <= 0 => k = 0 /\ f[k] = first
    BY <2>1
  <2>3. \A k \in 0 .. N : k <= 0 => f[k] = next(f, k)
    BY <2>2
  <2>4. 0 \in 0 .. N
    OBVIOUS
  <2> HIDE DEF next
  <2> QED BY <2>3, <2>4
<1>3. ASSUME NEW n \in 0 .. N - 1, n \in S PROVE n + 1 \in S
  <2>1. PICK f : \A k \in 0 .. N : k <= n => f[k] = next(f, k)
    BY <1>3
  <2>2. PICK g : g = [k \in 0 .. N |-> next(f, k)]
    OBVIOUS
  <2>3. \A k \in 0 .. N : g[k] = next(f, k)
    BY <2>2
  <2>4. ASSUME NEW k \in 0 .. N, k <= n + 1 PROVE g[k] = next(g, k)
    <3>1. CASE k = 0
      <4>1. next(f, k) = next(g, k)
        BY <3>1
      <4> HIDE DEF next
      <4> QED BY <2>3, <4>1
    <3>2. CASE k # 0
      <4>1. k - 1 \in 0 .. N /\ k - 1 <= n
        BY <2>4, <3>2
      <4>2. f[k - 1] = g[k - 1]
        <5> HIDE DEF next
        <5> QED BY <2>1, <2>3, <4>1
      <4>3. next(f, k) = next(g, k)
        BY <3>2, <4>2
      <4> HIDE DEF next
      <4> QED BY <2>3, <4>3
    <3> QED BY <3>1, <3>2
  <2>5. n + 1 \in 0 .. N
    OBVIOUS
  <2> HIDE DEF next
  <2> QED BY <2>4, <2>5
<1>4. N \in S
  <2>1. 0 \in Nat /\ N \in 0 .. N
    OBVIOUS
  <2> HIDE DEF S
  <2> QED BY <1>2, <1>3, <2>1, IntervalInduct
<1>5. PICK f : \A k \in 0 .. N : k <= N => f[k] = next(f, k)
  BY <1>4
<1>6. \A k \in 0 .. N : k <= N
  OBVIOUS
<1>7. PICK g : g = [k \in 0 .. N |-> f[k]]
  OBVIOUS
<1>8. \A k \in 0 .. N : next(f, k) = next(g, k)
  <2>1. ASSUME NEW k \in 0 .. N PROVE next(f, k) = next(g, k)
    <3>1. CASE k = 0
      BY <3>1
    <3>2. CASE k # 0
      <4>1. k - 1 \in 0 .. N
        BY <3>2
      <4>2. f[k - 1] = g[k - 1]
        BY <1>7, <4>1
      <4> QED BY <3>2, <4>2
    <3> QED BY <3>1, <3>2
  <2> HIDE DEF next
  <2> QED BY <2>1
<1>9. g = [k \in 0 .. N |-> next(g, k)]
  <2> HIDE DEF next
  <2> QED BY <1>5, <1>6, <1>7, <1>8
<1> QED BY <1>1, <1>9 DEF Visits

\* After as many visits as there are nodes every node has its rotation.
LEMMA MatricesFollow ==
  ASSUME NEW m, NEW N \in Nat, NEW depth, Forest(m, N, depth), NEW r, NEW path,
         PathOf(m, N, r, path)
  PROVE  \A n \in 0 .. N - 1 : ComputeJointMatrices(m, r)[n] = path[n]
<1>1. Cardinality(DOMAIN m.rest) = N /\ DOMAIN m.rest = 0 .. N - 1
      /\ IsFiniteSet(0 .. N - 1) /\ Cardinality(0 .. N - 1) = N
  <2>1. DOMAIN m.rest = 0 .. N - 1
    BY DEF Forest
  <2>2. 0 \in Int /\ N - 1 \in Int /\ (0 > N - 1 => N = 0) /\ (N - 1) - 0 + 1 = N
    OBVIOUS
  <2>3. IsFiniteSet(0 .. N - 1) /\ Cardinality(0 .. N - 1) = N
    BY <2>2, FS_Interval
  <2> QED BY <2>1, <2>3
<1>2. PICK f : Visits(m, r, f) /\ f = (CHOOSE g : Visits(m, r, g))
  BY <1>1, VisitsExist
<1>3. /\ f[0] = [world |-> <<>>, queue |-> SetToSeq({n \in DOMAIN m.rest : Above(m, n) = {}})]
      /\ \A k \in 1 .. N : f[k] = Visit(m, r, f[k - 1])
  <2>1. PICK first : first = [world |-> <<>>,
                             queue |-> SetToSeq({n \in DOMAIN m.rest : Above(m, n) = {}})]
    OBVIOUS
  <2>2. f = [k \in 0 .. N |-> IF k = 0 THEN first ELSE Visit(m, r, f[k - 1])]
    BY <1>1, <1>2, <2>1 DEF Visits
  <2>3. 0 \in 0 .. N /\ \A k \in 1 .. N : k \in 0 .. N /\ k # 0
    OBVIOUS
  <2> QED BY <2>1, <2>2, <2>3
<1> DEFINE S == {k \in 0 .. N : Reached(m, N, path, f[k]) /\ IsFiniteSet(DOMAIN f[k].world)
                                 /\ Cardinality(DOMAIN f[k].world) = k}
<1>4. 0 \in S
  <2>1. PICK s : s = f[0]
    OBVIOUS
  <2>2. Reached(m, N, path, s) /\ DOMAIN s.world = {}
    BY <1>3, <2>1, RootsReached
  <2> QED BY <2>1, <2>2, FS_EmptySet
<1>5. ASSUME NEW k \in 0 .. N - 1, k \in S PROVE k + 1 \in S
  <2>1. PICK s : s = f[k]
    OBVIOUS
  <2>2. /\ Reached(m, N, path, s) /\ IsFiniteSet(DOMAIN s.world)
        /\ Cardinality(DOMAIN s.world) = k
    BY <1>5, <2>1
  <2>3. s.queue # <<>>
    <3>1. DOMAIN s.world # 0 .. N - 1
      BY <1>1, <2>2
    <3>2. Waiting(m, N, s.world, s.queue)
      BY <2>2 DEF Reached
    <3>3. PICK world : world = s.world
      OBVIOUS
    <3>4. PICK q : q = s.queue
      OBVIOUS
    <3>5. Waiting(m, N, world, q) /\ DOMAIN world # 0 .. N - 1
      BY <3>1, <3>2, <3>3, <3>4
    <3>6. q # <<>>
      BY <3>5, SomeoneWaits
    <3> QED BY <3>4, <3>6
  <2>4. PICK z : z = Visit(m, r, s)
    OBVIOUS
  <2>5. PICK h : h = Head(s.queue)
    OBVIOUS
  <2>6. /\ Reached(m, N, path, z) /\ h \notin DOMAIN s.world
        /\ DOMAIN z.world = DOMAIN s.world \cup {h}
    BY ZenonT(60), <2>2, <2>3, <2>4, <2>5, VisitReaches
  <2>7. f[k + 1] = z
    <3>1. k + 1 \in 1 .. N /\ (k + 1) - 1 = k
      OBVIOUS
    <3> QED BY <1>3, <2>1, <2>4, <3>1
  <2>8. IsFiniteSet(DOMAIN z.world) /\ Cardinality(DOMAIN z.world) = k + 1
    <3>1. PICK D : D = DOMAIN s.world
      OBVIOUS
    <3>2. PICK E : E = DOMAIN z.world
      OBVIOUS
    <3> HIDE DEF S
    <3>3. IsFiniteSet(D) /\ Cardinality(D) = k /\ h \notin D /\ E = D \cup {h}
      BY ONLY <2>2, <2>6, <3>1, <3>2
    <3>4. IsFiniteSet(E) /\ Cardinality(E) = k + 1
      BY ONLY <3>3, FS_AddElement
    <3> QED BY ONLY <3>2, <3>4
  <2>9. k + 1 \in 0 .. N
    OBVIOUS
  <2> QED BY <2>6, <2>7, <2>8, <2>9
<1>6. N \in S
  <2>1. 0 \in Nat /\ N \in 0 .. N
    OBVIOUS
  <2> HIDE DEF S
  <2> QED BY <1>4, <1>5, <2>1, IntervalInduct
<1>7. PICK w : w = f[N].world
  OBVIOUS
<1>8. DOMAIN w \subseteq 0 .. N - 1 /\ Follows(w, path) /\ Cardinality(DOMAIN w) = N
  BY <1>6, <1>7 DEF Reached, Waiting
<1>9. DOMAIN w = 0 .. N - 1
  BY <1>1, <1>8, FS_Subset
<1>10. ComputeJointMatrices(m, r) = w
  BY <1>1, <1>2, <1>7, MatricesAreVisits
<1> QED BY <1>8, <1>9, <1>10 DEF Follows

\* The joint matrices of compute_joint_matrices in vrm/src/bone.rs are the products along
\* the paths, for any trees of nodes in any order of their indices and any rotations of
\* the bones.
THEOREM WorldSound == AvatarSpec => []WorldFollowsPath
<1>1. AvatarInit => LoadedFromFile
  BY DEF AvatarInit, LoadedFromFile
<1>2. LoadedFromFile /\ [AvatarNext]_avatarVars => LoadedFromFile'
  BY DEF LoadedFromFile, AvatarNext, Start, Frame, ToggleTracking, ToggleIdle, files, avatarVars
<1>3. LoadedFromFile => WorldFollowsPath
  <2> SUFFICES ASSUME LoadedFromFile, model # NoModel, NEW k \in DOMAIN model.rest
               PROVE  ComputeJointMatrices(model, rot)[k]
                        = PathRotation(NodeOf(model, rot), ModelParent(model), k)
    BY DEF WorldFollowsPath
  <2>1. PICK m : m = model
    OBVIOUS
  <2>2. PICK r : r = rot
    OBVIOUS
  <2>3. PICK N \in Nat : \E depth : Forest(m, N, depth)
    <3>1. model = Load(file) /\ Load(file) # NoModel /\ ValidFile(file)
      BY AvatarAssumption DEF LoadedFromFile
    <3>2. PICK g : g = file
      OBVIOUS
    <3>3. \E N \in Nat : \E depth : Forest(Load(g), N, depth)
      BY <3>1, <3>2, LoadedForest
    <3> QED BY <2>1, <3>1, <3>2, <3>3
  <2>4. PICK depth : Forest(m, N, depth)
    BY <2>3
  <2>5. PICK parent : parent = ModelParent(m)
    OBVIOUS
  <2>6. PICK local : local = NodeOf(m, r)
    OBVIOUS
  <2>7. /\ DOMAIN parent = 0 .. N - 1 /\ Ranked(parent, depth, N)
        /\ \A n \in 0 .. N - 1 : parent[n] = IF Above(m, n) = {} THEN NoNode
                                             ELSE CHOOSE p \in Above(m, n) : TRUE
    BY <2>4, <2>5, ModelIsRanked
  <2>8. PICK path : Down(local, parent, path) /\ path = (CHOOSE f : Down(local, parent, f))
    <3>1. \E f : Down(local, parent, f)
      BY <2>7, DownExists
    <3> QED BY <3>1
  <2>9. \A n \in 0 .. N - 1 : local[n] = LocalRotation(m, r, n)
    BY <2>4, <2>6 DEF NodeOf, LocalRotation, Forest
  <2>10. ASSUME NEW n \in 0 .. N - 1
         PROVE  path[n] = IF Above(m, n) = {} THEN LocalRotation(m, r, n)
                          ELSE Times(path[CHOOSE p \in Above(m, n) : TRUE], LocalRotation(m, r, n))
    <3>1. path[n] = IF parent[n] = NoNode THEN local[n] ELSE Times(path[parent[n]], local[n])
      BY <2>7, <2>8 DEF Down
    <3>2. CASE Above(m, n) = {}
      BY <2>7, <2>9, <3>1, <3>2
    <3>3. CASE Above(m, n) # {}
      <4>1. PICK p : p = CHOOSE x \in Above(m, n) : TRUE
        OBVIOUS
      <4>2. p \in 0 .. N - 1
        <5>1. p \in Above(m, n)
          BY <3>3, <4>1
        <5> QED BY <2>4, <5>1, AboveOne
      <4>3. parent[n] = p
        BY <2>7, <3>3, <4>1
      <4>4. p # NoNode
        BY <4>2 DEF NoNode
      <4> QED BY <2>9, <3>1, <3>3, <4>1, <4>3, <4>4
    <3> QED BY <3>2, <3>3
  <2>11. \A n \in 0 .. N - 1 : ComputeJointMatrices(m, r)[n] = path[n]
    <3>1. PathOf(m, N, r, path)
      BY <2>10 DEF PathOf
    <3> QED BY <2>4, <3>1, MatricesFollow
  <2>12. k \in 0 .. N - 1
    BY <2>1, <2>4 DEF Forest
  <2>13. PathRotation(local, parent, k) = path[k]
    BY <2>8, PathIsDown
  <2> QED BY <2>1, <2>2, <2>5, <2>6, <2>11, <2>12, <2>13
<1> QED BY <1>1, <1>2, <1>3, PTL DEF AvatarSpec

-----------------------------------------------------------------------------
(* The source of the idle animation: rotations in the world *)

\* What a world knows of the rotations along the paths, of the nodes in S.
Known(path, S) == [n \in S |-> path[n]]

\* Whose parent is in S, or who has none.
Ready(parent, N, S) == {n \in 0 .. N - 1 : parent[n] = NoNode \/ parent[n] \in S}

\* A world that knows the nodes in S and in M, and maybe more.
KnowsMore(path, N, S, M, world) ==
  \E T : S \subseteq T /\ M \subseteq T /\ T \subseteq 0 .. N - 1 /\ world = Known(path, T)

\* Visiting a node adds it to the known ones, if its parent is known.
LEMMA NodeComputed ==
  ASSUME NEW local, NEW parent, NEW N \in Nat, DOMAIN parent = 0 .. N - 1,
         NEW path, Down(local, parent, path), NEW S, S \subseteq 0 .. N - 1,
         NEW i \in 0 .. N - 1
  PROVE  KnowsMore(path, N, S, {i} \cap Ready(parent, N, S),
                   ComputeNode(local, parent, Known(path, S), i))
<1>1. PICK world : world = Known(path, S)
  OBVIOUS
<1>2. DOMAIN world = S /\ \A n \in S : world[n] = path[n]
  BY <1>1 DEF Known
<1>3. path[i] = IF parent[i] = NoNode THEN local[i] ELSE Times(path[parent[i]], local[i])
  BY DEF Down
<1>4. CASE i \in S \/ i \notin Ready(parent, N, S)
  <2>1. ComputeNode(local, parent, world, i) = world
    BY <1>2, <1>4 DEF ComputeNode, Ready
  <2> QED BY <1>1, <1>4, <2>1 DEF KnowsMore
<1>5. CASE i \notin S /\ i \in Ready(parent, N, S)
  <2>1. PICK own : own = IF parent[i] = NoNode THEN local[i] ELSE Times(world[parent[i]], local[i])
    OBVIOUS
  <2>2. own = path[i]
    BY <1>2, <1>3, <1>5, <2>1 DEF Ready
  <2>3. ComputeNode(local, parent, world, i)
          = [n \in S \cup {i} |-> IF n \in S THEN world[n] ELSE own]
    BY <1>2, <1>5, <2>1 DEF ComputeNode, Ready
  <2>4. ComputeNode(local, parent, world, i) = Known(path, S \cup {i})
    BY <1>2, <2>2, <2>3 DEF Known
  <2> QED BY <1>1, <2>4 DEF KnowsMore
<1> QED BY <1>4, <1>5

\* A pass, node by node.
PassOf(local, parent, world, N, f) ==
  f = [i \in 0 .. N |-> IF i = 0 THEN world ELSE ComputeNode(local, parent, f[i - 1], i - 1)]

\* A pass is its last node's.
LEMMA PassIs ==
  ASSUME NEW local, NEW parent, NEW world, NEW N, N = Cardinality(DOMAIN parent)
  PROVE  ComputePass(local, parent, world) = (CHOOSE f : PassOf(local, parent, world, N, f))[N]
BY DEF ComputePass, PassOf

\* All passes, one after the other.
PassesOf(local, parent, N, f) ==
  f = [k \in 0 .. N |-> IF k = 0 THEN <<>> ELSE ComputePass(local, parent, f[k - 1])]

\* The rotations are those after as many passes as there are nodes.
LEMMA RotationsAre ==
  ASSUME NEW local, NEW parent, NEW N, N = Cardinality(DOMAIN parent)
  PROVE  WorldRotations(local, parent)
           = [i \in DOMAIN parent |->
                LET world == (CHOOSE f : PassesOf(local, parent, N, f))[N]
                IN  IF i \in DOMAIN world THEN world[i] ELSE Identity]
BY DEF WorldRotations, PassesOf

\* The worlds that a pass can go through.
Worlds(path, N) == {Known(path, S) : S \in SUBSET (0 .. N - 1)}

\* The visits of a pass can be made, one after the other.
LEMMA PassExists ==
  ASSUME NEW local, NEW parent, NEW N \in Nat, DOMAIN parent = 0 .. N - 1,
         NEW path, Down(local, parent, path), NEW S, S \subseteq 0 .. N - 1
  PROVE  \E f : PassOf(local, parent, Known(path, S), N, f)
<1>1. PICK X : X = Worlds(path, N)
  OBVIOUS
<1>2. PICK x : x = Known(path, S)
  OBVIOUS
<1>3. x \in X
  BY <1>1, <1>2 DEF Worlds
<1> DEFINE one(w, i) == IF i \in 0 .. N - 1 THEN ComputeNode(local, parent, w, i) ELSE w
<1>4. ASSUME NEW w \in X, NEW i PROVE one(w, i) \in X
  <2>1. PICK U \in SUBSET (0 .. N - 1) : w = Known(path, U)
    BY <1>1 DEF Worlds
  <2>2. CASE i \in 0 .. N - 1
    <3>1. U \subseteq 0 .. N - 1
      BY <2>1
    <3>2. KnowsMore(path, N, U, {i} \cap Ready(parent, N, U), ComputeNode(local, parent, w, i))
      <4> HIDE DEF one
      <4> QED BY <2>1, <2>2, <3>1, NodeComputed
    <3>3. ComputeNode(local, parent, w, i) \in X
      BY <1>1, <3>2 DEF Worlds, KnowsMore
    <3> QED BY <2>2, <3>3
  <2>3. CASE i \notin 0 .. N - 1
    BY <2>3
  <2> QED BY <2>2, <2>3
<1>5. PICK step : step = [p \in Nat \X X |-> one(p[2], p[1] - 1)]
  OBVIOUS
<1>6. step \in [Nat \X X -> X]
  <2>1. ASSUME NEW p \in Nat \X X PROVE one(p[2], p[1] - 1) \in X
    <3>1. PICK w \in X : w = p[2]
      OBVIOUS
    <3>2. PICK i : i = p[1] - 1
      OBVIOUS
    <3> HIDE DEF one
    <3>3. one(w, i) \in X
      BY <1>4
    <3> QED BY <3>1, <3>2, <3>3
  <2> HIDE DEF one
  <2> QED BY <1>5, <2>1
<1>7. PICK f : f = [k \in 0 .. N |-> IF k = 0 THEN x ELSE step[<<k, f[k - 1]>>]]
  <2>1. \E f : Steps(f, N, x, step)
    <3> HIDE DEF one
    <3> QED BY <1>3, <1>6, StepsExist
  <2> QED BY <2>1 DEF Steps
<1> DEFINE T == {k \in 0 .. N : f[k] \in X}
<1>8. 0 \in T
  BY <1>3, <1>7
<1>9. ASSUME NEW k \in 0 .. N - 1, k \in T PROVE k + 1 \in T
  <2>1. f[k] \in X /\ k + 1 \in 0 .. N /\ k + 1 \in Nat /\ k + 1 # 0 /\ (k + 1) - 1 = k
    BY <1>9
  <2>2. f[k + 1] = step[<<k + 1, f[k]>>]
    BY <1>7, <2>1
  <2>3. PICK w \in X : w = f[k]
    BY <2>1
  <2>4. step[<<k + 1, w>>] \in X
    BY <1>6, <2>1
  <2> QED BY <2>1, <2>2, <2>3, <2>4
<1>10. \A k \in 0 .. N : k \in T
  <2>1. 0 \in Nat
    OBVIOUS
  <2> HIDE DEF T
  <2> QED BY <1>8, <1>9, <2>1, IntervalInduct
<1>11. ASSUME NEW k \in 0 .. N, k # 0
       PROVE  step[<<k, f[k - 1]>>] = ComputeNode(local, parent, f[k - 1], k - 1)
  <2>1. k \in Nat /\ k - 1 \in 0 .. N /\ k - 1 \in 0 .. N - 1
    BY <1>11
  <2>2. f[k - 1] \in X
    BY <1>10, <2>1
  <2>3. step[<<k, f[k - 1]>>] = one(f[k - 1], k - 1)
    <3> HIDE DEF one
    <3> QED BY <1>5, <2>1, <2>2
  <2> QED BY <2>1, <2>3
<1>12. f = [k \in 0 .. N |-> IF k = 0 THEN x ELSE ComputeNode(local, parent, f[k - 1], k - 1)]
  BY <1>7, <1>11
<1> QED BY <1>2, <1>12 DEF PassOf

\* A pass knows what was known, and every node whose parent was known before.
LEMMA PassComputes ==
  ASSUME NEW local, NEW parent, NEW N \in Nat, DOMAIN parent = 0 .. N - 1,
         NEW path, Down(local, parent, path), NEW S, S \subseteq 0 .. N - 1
  PROVE  KnowsMore(path, N, S, Ready(parent, N, S), ComputePass(local, parent, Known(path, S)))
<1>1. PICK x : x = Known(path, S)
  OBVIOUS
<1>2. N = Cardinality(DOMAIN parent)
  <2>1. 0 \in Int /\ N - 1 \in Int /\ (0 > N - 1 => N = 0) /\ (N - 1) - 0 + 1 = N
    OBVIOUS
  <2>2. Cardinality(0 .. N - 1) = N
    BY <2>1, FS_Interval
  <2> QED BY <2>2
<1>3. PICK f : PassOf(local, parent, x, N, f) /\ f = (CHOOSE g : PassOf(local, parent, x, N, g))
  BY <1>1, PassExists
<1>4. f[0] = x /\ \A k \in 1 .. N : f[k] = ComputeNode(local, parent, f[k - 1], k - 1)
  BY <1>3 DEF PassOf
<1> DEFINE Holds(k, T) == /\ S \subseteq T /\ T \subseteq 0 .. N - 1 /\ f[k] = Known(path, T)
                          /\ \A i \in Ready(parent, N, S) : i < k => i \in T
           K == {k \in 0 .. N : \E T : Holds(k, T)}
<1>5. 0 \in K
  <2>1. \A i \in Ready(parent, N, S) : ~(i < 0)
    BY DEF Ready
  <2>2. Holds(0, S)
    BY <1>1, <1>4, <2>1
  <2>3. 0 \in 0 .. N
    OBVIOUS
  <2> HIDE DEF Holds
  <2> QED BY <2>2, <2>3
<1>6. ASSUME NEW k \in 0 .. N - 1, k \in K PROVE k + 1 \in K
  <2>1. PICK T : Holds(k, T)
    BY <1>6
  <2>2. k + 1 \in 1 .. N /\ (k + 1) - 1 = k /\ k + 1 \in 0 .. N
    OBVIOUS
  <2>3. T \subseteq 0 .. N - 1 /\ f[k + 1] = ComputeNode(local, parent, Known(path, T), k)
    BY <1>4, <2>1, <2>2
  <2>4. PICK U : /\ T \subseteq U /\ U \subseteq 0 .. N - 1
                 /\ ComputeNode(local, parent, Known(path, T), k) = Known(path, U)
                 /\ k \in Ready(parent, N, T) => k \in U
    <3>1. T \subseteq 0 .. N - 1
      BY <2>3
    <3>2. KnowsMore(path, N, T, {k} \cap Ready(parent, N, T),
                    ComputeNode(local, parent, Known(path, T), k))
      <4> HIDE DEF Holds, K
      <4> QED BY <3>1, NodeComputed
    <3> QED BY <3>2 DEF KnowsMore
  <2>5. ASSUME NEW i \in Ready(parent, N, S), i < k + 1 PROVE i \in U
    <3>1. i \in 0 .. N - 1
      BY DEF Ready
    <3>2. CASE i = k
      <4>1. S \subseteq T
        BY <2>1
      <4>2. k \in Ready(parent, N, T)
        BY <2>5, <3>2, <4>1 DEF Ready
      <4> QED BY <2>4, <3>2, <4>2
    <3>3. CASE i < k
      BY <2>1, <2>4, <3>3
    <3> QED BY <2>5, <3>1, <3>2, <3>3
  <2>6. Holds(k + 1, U)
    BY <2>1, <2>3, <2>4, <2>5
  <2> HIDE DEF Holds
  <2> QED BY <2>2, <2>6
<1>7. N \in K
  <2>1. 0 \in Nat /\ N \in 0 .. N
    OBVIOUS
  <2> HIDE DEF K
  <2> QED BY <1>5, <1>6, <2>1, IntervalInduct
<1>8. PICK T : Holds(N, T)
  BY <1>7
<1>9. Ready(parent, N, S) \subseteq T
  <2>1. \A i \in Ready(parent, N, S) : i \in 0 .. N - 1 /\ i < N
    BY DEF Ready
  <2>2. \A i \in Ready(parent, N, S) : i < N => i \in T
    BY <1>8
  <2> QED BY <2>1, <2>2
<1>10. ComputePass(local, parent, x) = f[N]
  BY <1>2, <1>3, PassIs
<1> QED BY <1>1, <1>8, <1>9, <1>10 DEF KnowsMore

\* compute_world_rotations: what is known after each pass, and after the last.
LEMMA RotationsFollow ==
  ASSUME NEW local, NEW parent, NEW N \in Nat, NEW depth, DOMAIN parent = 0 .. N - 1,
         Ranked(parent, depth, N), NEW path, Down(local, parent, path)
  PROVE  \A n \in 0 .. N - 1 : WorldRotations(local, parent)[n] = path[n]
<1>1. PICK X : X = Worlds(path, N)
  OBVIOUS
<1>2. N = Cardinality(DOMAIN parent)
  <2>1. 0 \in Int /\ N - 1 \in Int /\ (0 > N - 1 => N = 0) /\ (N - 1) - 0 + 1 = N
    OBVIOUS
  <2>2. Cardinality(0 .. N - 1) = N
    BY <2>1, FS_Interval
  <2> QED BY <2>2
<1>3. PICK x : x = <<>>
  OBVIOUS
<1>4. x = Known(path, {}) /\ x \in X
  <2>1. x = Known(path, {})
    BY <1>3 DEF Known
  <2> QED BY <1>1, <2>1 DEF Worlds
<1>5. ASSUME NEW w \in X PROVE ComputePass(local, parent, w) \in X
  <2>1. PICK S \in SUBSET (0 .. N - 1) : w = Known(path, S)
    BY <1>1 DEF Worlds
  <2>2. S \subseteq 0 .. N - 1
    BY <2>1
  <2>3. KnowsMore(path, N, S, Ready(parent, N, S), ComputePass(local, parent, w))
    BY <2>1, <2>2, PassComputes
  <2> QED BY <1>1, <2>3 DEF Worlds, KnowsMore
<1>6. PICK step : step = [p \in Nat \X X |-> ComputePass(local, parent, p[2])]
  OBVIOUS
<1>7. /\ step \in [Nat \X X -> X]
      /\ \A k \in Nat, w \in X : step[<<k, w>>] = ComputePass(local, parent, w)
  BY <1>5, <1>6
<1>8. PICK g : PassesOf(local, parent, N, g)
  <2>1. PICK g : g = [k \in 0 .. N |-> IF k = 0 THEN x ELSE step[<<k, g[k - 1]>>]]
    <3>1. \E h : Steps(h, N, x, step)
      BY <1>4, <1>7, StepsExist
    <3> QED BY <3>1 DEF Steps
  <2> DEFINE T == {k \in 0 .. N : g[k] \in X}
  <2>2. 0 \in T
    BY <1>4, <2>1
  <2>3. ASSUME NEW k \in 0 .. N - 1, k \in T PROVE k + 1 \in T
    <3>1. g[k] \in X /\ k + 1 \in 0 .. N /\ k + 1 \in Nat /\ k + 1 # 0 /\ (k + 1) - 1 = k
      BY <2>3
    <3>2. g[k + 1] = step[<<k + 1, g[k]>>]
      BY <2>1, <3>1
    <3>3. PICK w \in X : w = g[k]
      BY <3>1
    <3>4. step[<<k + 1, w>>] \in X
      BY <1>7, <3>1
    <3> QED BY <3>1, <3>2, <3>3, <3>4
  <2>4. \A k \in 0 .. N : k \in T
    <3>1. 0 \in Nat
      OBVIOUS
    <3> HIDE DEF T
    <3> QED BY <2>2, <2>3, <3>1, IntervalInduct
  <2>5. ASSUME NEW k \in 0 .. N, k # 0
        PROVE  step[<<k, g[k - 1]>>] = ComputePass(local, parent, g[k - 1])
    <3>1. k \in Nat /\ k - 1 \in 0 .. N
      BY <2>5
    <3>2. PICK w \in X : w = g[k - 1]
      BY <2>4, <3>1
    <3> QED BY <1>7, <3>1, <3>2
  <2>6. g = [k \in 0 .. N |-> IF k = 0 THEN x ELSE ComputePass(local, parent, g[k - 1])]
    BY <2>1, <2>5
  <2> QED BY <1>3, <2>6 DEF PassesOf
<1>9. PICK f : PassesOf(local, parent, N, f) /\ f = (CHOOSE h : PassesOf(local, parent, N, h))
  BY <1>8
<1>10. f[0] = x /\ \A k \in 1 .. N : f[k] = ComputePass(local, parent, f[k - 1])
  BY <1>3, <1>9 DEF PassesOf
\* After k passes the nodes less deep than k are known.
<1> DEFINE Holds(k, T) == /\ T \subseteq 0 .. N - 1 /\ f[k] = Known(path, T)
                          /\ \A n \in 0 .. N - 1 : depth[n] < k => n \in T
           K == {k \in 0 .. N : \E T : Holds(k, T)}
<1>11. 0 \in K
  <2>1. \A n \in 0 .. N - 1 : ~(depth[n] < 0)
    BY DEF Ranked
  <2>2. Holds(0, {})
    BY <1>4, <1>10, <2>1
  <2> QED BY <2>2
<1>12. ASSUME NEW k \in 0 .. N - 1, k \in K PROVE k + 1 \in K
  <2>1. PICK T : Holds(k, T)
    BY <1>12
  <2>2. k + 1 \in 1 .. N /\ (k + 1) - 1 = k /\ k + 1 \in 0 .. N
    OBVIOUS
  <2>3. T \subseteq 0 .. N - 1 /\ f[k + 1] = ComputePass(local, parent, Known(path, T))
    BY <1>10, <2>1, <2>2
  <2>4. PICK U : /\ T \subseteq U /\ U \subseteq 0 .. N - 1 /\ Ready(parent, N, T) \subseteq U
                 /\ ComputePass(local, parent, Known(path, T)) = Known(path, U)
    <3>1. T \subseteq 0 .. N - 1
      BY <2>3
    <3>2. KnowsMore(path, N, T, Ready(parent, N, T), ComputePass(local, parent, Known(path, T)))
      <4> HIDE DEF Holds, K
      <4> QED BY <3>1, PassComputes
    <3> QED BY <3>2 DEF KnowsMore
  <2>5. ASSUME NEW n \in 0 .. N - 1, depth[n] < k + 1 PROVE n \in U
    <3>1. CASE parent[n] = NoNode
      BY <2>4, <3>1 DEF Ready
    <3>2. CASE parent[n] # NoNode
      <4>1. /\ parent[n] \in 0 .. N - 1 /\ depth[parent[n]] < depth[n]
            /\ depth[n] \in 0 .. N - 1 /\ depth[parent[n]] \in 0 .. N - 1
        BY <3>2 DEF Ranked
      <4>2. depth[parent[n]] < k
        BY <2>5, <4>1
      <4>3. parent[n] \in T
        BY <2>1, <4>1, <4>2
      <4> QED BY <2>4, <4>3 DEF Ready
    <3> QED BY <3>1, <3>2
  <2>6. Holds(k + 1, U)
    BY <2>3, <2>4, <2>5
  <2> HIDE DEF Holds
  <2> QED BY <2>2, <2>6
<1>13. N \in K
  <2>1. 0 \in Nat /\ N \in 0 .. N
    OBVIOUS
  <2> HIDE DEF K
  <2> QED BY <1>11, <1>12, <2>1, IntervalInduct
<1>14. PICK T : Holds(N, T)
  BY <1>13
<1>15. T = 0 .. N - 1 /\ f[N] = Known(path, 0 .. N - 1)
  <2>1. \A n \in 0 .. N - 1 : depth[n] \in 0 .. N - 1 /\ depth[n] < N
    BY DEF Ranked
  <2> QED BY <1>14, <2>1
<1>16. WorldRotations(local, parent)
         = [i \in 0 .. N - 1 |-> IF i \in DOMAIN f[N] THEN f[N][i] ELSE Identity]
  BY <1>2, <1>9, RotationsAre
<1> QED BY <1>15, <1>16 DEF Known

\* The rotations of compute_world_rotations in vrm/src/animation.rs, which the source's
\* bones have in the world at rest and at each key, are the products along their paths,
\* for trees of nodes in any order of their indices.
THEOREM SourceWorldSound ==
  ASSUME NEW local, NEW parent, NEW N \in Nat, NEW depth, DOMAIN parent = 0 .. N - 1,
         Ranked(parent, depth, N), NEW n \in 0 .. N - 1
  PROVE  WorldRotations(local, parent)[n] = PathRotation(local, parent, n)
<1>1. PICK path : Down(local, parent, path) /\ path = (CHOOSE f : Down(local, parent, f))
  BY DownExists
<1> QED BY <1>1, PathIsDown, RotationsFollow

-----------------------------------------------------------------------------
(* Rotations are a group *)

\* Products of rotations are rotations, and so are rotations seen from the other side.
LEMMA ProductType ==
  ASSUME NEW a \in Rotation, NEW b \in Rotation
  PROVE  Times(a, b) \in Rotation /\ Turned(a) \in Rotation
<1>1. a[1] \in 0 .. 6 /\ a[2] \in 0 .. 2 /\ b[1] \in 0 .. 6 /\ b[2] \in 0 .. 2
  BY DEF Rotation
<1>2. (a[2] + b[2]) % 3 \in 0 .. 2 /\ (-a[1]) % 7 \in 0 .. 6
  BY <1>1
<1>3. ASSUME NEW c \in Int PROVE (a[1] + c) % 7 \in 0 .. 6
  BY <1>1
<1>4. PICK c \in {1, 2, 4} : c = CASE a[2] = 0 -> 1 [] a[2] = 1 -> 2 [] a[2] = 2 -> 4
  BY <1>1
<1>5. c * b[1] \in Int
  BY <1>1
<1>6. (a[1] + c * b[1]) % 7 \in 0 .. 6
  BY <1>3, <1>5
<1> QED BY <1>1, <1>2, <1>4, <1>6 DEF Times, Turned, Rotation

\* Every rotation has an inverse.
LEMMA HasInverse ==
  ASSUME NEW a \in Rotation
  PROVE  Inv[a] \in Rotation /\ Times(a, Inv[a]) = Identity
<1>1. PICK x \in 0 .. 6 : x = a[1]
  BY DEF Rotation
<1>2. PICK y \in 0 .. 2 : y = a[2]
  BY DEF Rotation
<1> DEFINE c == CASE y = 0 -> 1 [] y = 1 -> 2 [] y = 2 -> 4
<1>3. PICK u \in 0 .. 6 : (x + c * u) % 7 = 0
  <2>1. CASE y = 0
    <3>1. \E u \in 0 .. 6 : (x + u) % 7 = 0
      <4>1. x = 0 \/ 7 - x \in 0 .. 6
        OBVIOUS
      <4>2. x # 0 => (x + (7 - x)) % 7 = 0
        OBVIOUS
      <4> QED BY <4>1, <4>2
    <3>2. c = 1
      BY <2>1
    <3> HIDE DEF c
    <3> QED BY <3>1, <3>2
  <2>2. CASE y = 1
    <3>1. \E u \in 0 .. 6 : (x + 2 * u) % 7 = 0
      <4>1. /\ (3 * x) % 7 \in 0 .. 6
            /\ (x + 2 * ((3 * x) % 7)) % 7 = 0
        OBVIOUS
      <4> QED BY <4>1
    <3>2. c = 2
      BY <2>2
    <3> HIDE DEF c
    <3> QED BY <3>1, <3>2
  <2>3. CASE y = 2
    <3>1. \E u \in 0 .. 6 : (x + 4 * u) % 7 = 0
      <4>1. /\ (5 * x) % 7 \in 0 .. 6
            /\ (x + 4 * ((5 * x) % 7)) % 7 = 0
        OBVIOUS
      <4> QED BY <4>1
    <3>2. c = 4
      BY <2>3
    <3> HIDE DEF c
    <3> QED BY <3>1, <3>2
  <2> HIDE DEF c
  <2> QED BY <2>1, <2>2, <2>3
<1>4. PICK v \in 0 .. 2 : (y + v) % 3 = 0
  <2>1. \E v \in 0 .. 2 : (y + v) % 3 = 0
    <3>1. (y + ((3 - y) % 3)) % 3 = 0 /\ (3 - y) % 3 \in 0 .. 2
      OBVIOUS
    <3> QED BY <3>1
  <2> QED BY <2>1
<1>5. <<u, v>> \in Rotation /\ Times(a, <<u, v>>) = Identity
  BY <1>1, <1>2, <1>3, <1>4 DEF Rotation, Times, Identity
<1> QED BY <1>5 DEF Inv

\* Turning back and forth.
LEMMA InverseUndoes ==
  ASSUME NEW a \in Rotation, NEW b \in Rotation
  PROVE  Times(a, Times(Inv[a], b)) = b
<1>1. PICK x \in 0 .. 6, y \in 0 .. 2 : a = <<x, y>>
  BY DEF Rotation
<1>2. PICK u \in 0 .. 6, v \in 0 .. 2 : Inv[a] = <<u, v>>
  BY HasInverse DEF Rotation
<1>3. PICK p \in 0 .. 6, q \in 0 .. 2 : b = <<p, q>>
  BY DEF Rotation
<1>4. Times(<<x, y>>, <<u, v>>) = <<0, 0>>
  BY <1>1, <1>2, HasInverse DEF Identity
<1>5. (y + v) % 3 = 0
  BY <1>4 DEF Times
<1>6. (y + ((v + q) % 3)) % 3 = q
  BY <1>5
<1>7. CASE y = 0
  <2>1. v = 0 /\ (x + u) % 7 = 0
    BY <1>4, <1>5, <1>7 DEF Times
  <2>2. (x + ((u + p) % 7)) % 7 = p
    BY <2>1
  <2> QED BY <1>1, <1>2, <1>3, <1>6, <1>7, <2>1, <2>2 DEF Times
<1>8. CASE y = 1
  <2>1. v = 2 /\ (x + 2 * u) % 7 = 0
    BY <1>4, <1>5, <1>8 DEF Times
  <2>2. (x + 2 * ((u + 4 * p) % 7)) % 7 = p
    BY <2>1
  <2> QED BY <1>1, <1>2, <1>3, <1>6, <1>8, <2>1, <2>2 DEF Times
<1>9. CASE y = 2
  <2>1. v = 1 /\ (x + 4 * u) % 7 = 0
    BY <1>4, <1>5, <1>9 DEF Times
  <2>2. (x + 4 * ((u + 2 * p) % 7)) % 7 = p
    BY <2>1
  <2> QED BY <1>1, <1>2, <1>3, <1>6, <1>9, <2>1, <2>2 DEF Times
<1> QED BY <1>7, <1>8, <1>9

-----------------------------------------------------------------------------
(* The clip *)

\* What holds of a node when it holds of its parent, and of the roots, holds of all.
LEMMA RankInduct ==
  ASSUME NEW parent, NEW N \in Nat, NEW depth, Ranked(parent, depth, N), NEW S,
         \A n \in DOMAIN parent : parent[n] = NoNode \/ parent[n] \in S => n \in S
  PROVE  DOMAIN parent \subseteq S
<1> DEFINE missing == DOMAIN parent \ S
           depths == {depth[n] : n \in missing}
<1>1. SUFFICES ASSUME missing # {} PROVE FALSE
  OBVIOUS
<1>2. depths \subseteq Nat /\ depths # {}
  <2>1. \A n \in missing : depth[n] \in Nat
    BY DEF Ranked
  <2> QED BY <1>1, <2>1
<1>3. PICK d \in depths : \A e \in depths : d <= e
  <2> HIDE DEF depths
  <2> QED BY <1>2, HasLeast
<1>4. PICK n \in missing : depth[n] = d
  OBVIOUS
<1>5. parent[n] # NoNode /\ parent[n] \in missing /\ depth[parent[n]] < depth[n]
  BY DEF Ranked
<1>6. d <= depth[parent[n]] /\ d \in Nat /\ depth[parent[n]] \in Nat
  BY <1>2, <1>3, <1>5
<1> QED BY <1>4, <1>5, <1>6

\* Rotations down a tree are all of one set if the local ones are.
LEMMA DownTyped ==
  ASSUME NEW local, NEW parent, NEW N \in Nat, NEW depth, Ranked(parent, depth, N),
         \A n \in DOMAIN parent : local[n] \in Rotation, NEW f, Down(local, parent, f)
  PROVE  \A n \in DOMAIN parent : f[n] \in Rotation
<1> DEFINE S == {n \in DOMAIN parent : f[n] \in Rotation}
<1>1. ASSUME NEW n \in DOMAIN parent, parent[n] = NoNode \/ parent[n] \in S
      PROVE  n \in S
  <2>1. f[n] = IF parent[n] = NoNode THEN local[n] ELSE Times(f[parent[n]], local[n])
    BY DEF Down
  <2>2. CASE parent[n] = NoNode
    BY <2>1, <2>2
  <2>3. CASE parent[n] # NoNode
    <3>1. f[parent[n]] \in Rotation
      BY <1>1, <2>3
    <3>2. Times(f[parent[n]], local[n]) \in Rotation
      BY <3>1, ProductType
    <3> QED BY <2>1, <2>3, <3>2
  <2> QED BY <2>2, <2>3
<1>2. DOMAIN parent \subseteq S
  <2> HIDE DEF S
  <2> QED BY <1>1, RankInduct
<1> QED BY <1>2

\* There is one such function only.
LEMMA DownUnique ==
  ASSUME NEW local, NEW parent, NEW N \in Nat, NEW depth, Ranked(parent, depth, N),
         NEW f, Down(local, parent, f), NEW g, Down(local, parent, g)
  PROVE  \A n \in DOMAIN parent : f[n] = g[n]
<1> DEFINE S == {n \in DOMAIN parent : f[n] = g[n]}
<1>1. ASSUME NEW n \in DOMAIN parent, parent[n] = NoNode \/ parent[n] \in S
      PROVE  n \in S
  <2>1. /\ f[n] = IF parent[n] = NoNode THEN local[n] ELSE Times(f[parent[n]], local[n])
        /\ g[n] = IF parent[n] = NoNode THEN local[n] ELSE Times(g[parent[n]], local[n])
    BY DEF Down
  <2> QED BY <1>1, <2>1
<1>2. DOMAIN parent \subseteq S
  <2> HIDE DEF S
  <2> QED BY <1>1, RankInduct
<1> QED BY <1>2

\* Turns in the world, each taken relative to the one above, multiply to themselves.
LEMMA DeltasRecompose ==
  ASSUME NEW up, NEW N \in Nat, NEW rank, Ranked(up, rank, N), NEW delta,
         \A n \in DOMAIN up : delta[n] \in Rotation, NEW local,
         \A n \in DOMAIN up :
           local[n] = IF up[n] = NoNode THEN delta[n] ELSE LocalDelta(delta, n, up[n])
  PROVE  \A n \in DOMAIN up : PathRotation(local, up, n) = delta[n]
<1>1. PICK f : Down(local, up, f) /\ f = (CHOOSE h : Down(local, up, h))
  BY DownExists
<1>2. PICK g : g = [n \in DOMAIN up |-> delta[n]]
  OBVIOUS
<1>3. ASSUME NEW n \in DOMAIN up
      PROVE  g[n] = IF up[n] = NoNode THEN local[n] ELSE Times(g[up[n]], local[n])
  <2>1. CASE up[n] = NoNode
    BY <1>2, <2>1
  <2>2. CASE up[n] # NoNode
    <3>1. up[n] \in DOMAIN up
      BY <2>2 DEF Ranked
    <3>2. local[n] = Times(Inv[delta[up[n]]], delta[n])
      BY <2>2 DEF LocalDelta
    <3>3. Times(delta[up[n]], Times(Inv[delta[up[n]]], delta[n])) = delta[n]
      BY <3>1, InverseUndoes
    <3> QED BY <1>2, <2>2, <3>1, <3>2, <3>3
  <2> QED BY <2>1, <2>2
<1>4. Down(local, up, g)
  BY <1>2, <1>3 DEF Down
<1>5. \A n \in DOMAIN up : f[n] = g[n]
  BY <1>1, <1>4, DownUnique
<1> QED BY <1>1, <1>2, <1>5, PathIsDown

\* The node of the bone above, in VRM's hierarchy.
UpBone(sk) ==
  [n \in Driven(sk) |-> IF AboveBone(sk, n) = {} THEN NoNode ELSE Max(AboveBone(sk, n))]

\* A skeleton of N nodes that make up trees, in any order, with keys in every channel and
\* one node for a bone.
SoundSkeleton(sk, N, depth) ==
  /\ DOMAIN sk.rest = 0 .. N - 1 /\ DOMAIN sk.parent = 0 .. N - 1
  /\ Ranked(sk.parent, depth, N)
  /\ \A n \in 0 .. N - 1 : sk.rest[n] \in Rotation
  /\ DOMAIN sk.channels \subseteq 0 .. N - 1
  /\ \A n \in DOMAIN sk.channels :
       sk.channels[n].times # <<>> /\ sk.channels[n].rotations \in Seq(Rotation)
  /\ \A n, m \in Driven(sk) : BoneOf(sk, n) = BoneOf(sk, m) => n = m

LEMMA MaxOfOne == \A m \in Nat : Max({m}) = m
BY DEF Max

\* The nodes with a channel in the clip.
Kept(sk) == {n \in Driven(sk) : sk.channels[n].times # <<>>}

\* The channel of a bone that one node drives.
LEMMA ClipAt ==
  ASSUME NEW sk, NEW b, NEW m \in Nat, m \in Kept(sk), BoneOf(sk, m) = b,
         \A x \in Kept(sk) : BoneOf(sk, x) = b => x = m
  PROVE  RetargetToVrm(sk).channels[b].rotations
           = [k \in 1 .. Longest(sk.channels) |-> LocalAt(sk, k, m)]
<1> DEFINE of(c) == Max({n \in Kept(sk) : BoneOf(sk, n) = c})
           channel(c) == [times |-> sk.channels[of(c)].times,
                          rotations |-> [k \in 1 .. Longest(sk.channels) |->
                                           LocalAt(sk, k, of(c))]]
<1>1. PICK bones : bones = {BoneOf(sk, n) : n \in Kept(sk)}
  OBVIOUS
<1>2. RetargetToVrm(sk).channels = [c \in bones |-> channel(c)]
  BY <1>1 DEF RetargetToVrm, Kept
<1>3. of(b) = m
  <2>1. {n \in Kept(sk) : BoneOf(sk, n) = b} = {m}
    OBVIOUS
  <2> QED BY <2>1, MaxOfOne
<1>4. b \in bones
  BY <1>1
<1> HIDE DEF of
<1>5. PICK c : c = of(b)
  OBVIOUS
<1>6. channel(b).rotations = [k \in 1 .. Longest(sk.channels) |-> LocalAt(sk, k, c)]
  BY <1>5
<1> HIDE DEF channel
<1> QED BY <1>2, <1>3, <1>4, <1>5, <1>6

\* A node of a sound skeleton turns, at any key, by a rotation.
LEMMA TurnsAreRotations ==
  ASSUME NEW sk, NEW N \in Nat, NEW depth, SoundSkeleton(sk, N, depth), NEW k \in Nat \ {0},
         NEW n \in Driven(sk)
  PROVE  /\ TurnAt(sk, k, n) \in Rotation
         /\ TurnAt(sk, k, n) = Turned(Times(PathRotation(PoseAt(sk, k), sk.parent, n),
                                            Inv[PathRotation(sk.rest, sk.parent, n)]))
<1>1. PICK parent : parent = sk.parent
  OBVIOUS
<1>2. PICK rest : rest = sk.rest
  OBVIOUS
<1>3. PICK pose : pose = PoseAt(sk, k)
  OBVIOUS
<1>4. /\ DOMAIN parent = 0 .. N - 1 /\ Ranked(parent, depth, N) /\ n \in 0 .. N - 1
      /\ \A m \in 0 .. N - 1 : rest[m] \in Rotation
  BY <1>1, <1>2 DEF SoundSkeleton, Driven
<1>5. \A m \in 0 .. N - 1 : pose[m] \in Rotation
  <2>1. ASSUME NEW m \in DOMAIN sk.channels, k <= Len(sk.channels[m].rotations)
        PROVE  sk.channels[m].rotations[k] \in Rotation
    <3>1. PICK s : s = sk.channels[m].rotations
      OBVIOUS
    <3>2. s \in Seq(Rotation) /\ k \in 1 .. Len(s)
      BY <2>1, <3>1 DEF SoundSkeleton
    <3>3. s[k] \in Rotation
      BY <3>2
    <3> QED BY <3>1, <3>3
  <2> QED BY <1>3, <2>1 DEF PoseAt, SoundSkeleton
<1>6. ASSUME NEW local, \A m \in 0 .. N - 1 : local[m] \in Rotation
      PROVE  /\ WorldRotations(local, parent)[n] = PathRotation(local, parent, n)
             /\ PathRotation(local, parent, n) \in Rotation
  <2>1. PICK f : Down(local, parent, f) /\ f = (CHOOSE h : Down(local, parent, h))
    BY <1>4, DownExists
  <2>2. f[n] \in Rotation
    BY <1>4, <1>6, <2>1, DownTyped
  <2>3. PathRotation(local, parent, n) = f[n]
    BY <2>1, PathIsDown
  <2>4. WorldRotations(local, parent)[n] = PathRotation(local, parent, n)
    BY <1>4, SourceWorldSound
  <2> QED BY <2>2, <2>3, <2>4
<1>7. PICK a \in Rotation : /\ WorldRotations(pose, parent)[n] = a
                            /\ PathRotation(pose, parent, n) = a
  BY <1>5, <1>6
<1>8. PICK b \in Rotation : /\ WorldRotations(rest, parent)[n] = b
                            /\ PathRotation(rest, parent, n) = b
  BY <1>4, <1>6
<1>9. TurnAt(sk, k, n) = Turned(Times(a, Inv[b]))
  BY <1>1, <1>2, <1>3, <1>7, <1>8 DEF TurnAt
<1>10. Turned(Times(a, Inv[b])) \in Rotation
  <2>1. PICK c \in Rotation : c = Inv[b]
    BY HasInverse
  <2>2. PICK t \in Rotation : t = Times(a, c)
    BY ProductType
  <2>3. Turned(t) \in Rotation
    BY ProductType
  <2> QED BY <2>1, <2>2, <2>3
<1> QED BY <1>1, <1>2, <1>3, <1>7, <1>8, <1>9, <1>10

\* The clip that retarget_to_vrm in vrm/src/animation.rs makes of a source: down the
\* hierarchy of VRM, its rotations at a key multiply, for every bone, to the turn of the
\* source's bone in the world from its rest, seen from the other side.
THEOREM RetargetSound ==
  ASSUME NEW sk, NEW N \in Nat, NEW depth, SoundSkeleton(sk, N, depth),
         NEW M \in Nat, NEW rank, Ranked(UpBone(sk), rank, M),
         NEW k \in 1 .. Longest(sk.channels), NEW n \in Driven(sk)
  PROVE  PathRotation([m \in Driven(sk) |-> RetargetToVrm(sk).channels[BoneOf(sk, m)].rotations[k]],
                      UpBone(sk), n)
           = Turned(Times(PathRotation(PoseAt(sk, k), sk.parent, n),
                          Inv[PathRotation(sk.rest, sk.parent, n)]))
<1>1. PICK D : D = Driven(sk)
  OBVIOUS
<1>2. PICK up : up = UpBone(sk)
  OBVIOUS
<1>3. PICK delta : delta = [m \in D |-> TurnAt(sk, k, m)]
  OBVIOUS
<1>4. PICK local : local = [m \in D |-> RetargetToVrm(sk).channels[BoneOf(sk, m)].rotations[k]]
  OBVIOUS
<1>5. DOMAIN up = D /\ n \in D /\ Ranked(up, rank, M) /\ k \in Nat \ {0}
  BY <1>1, <1>2 DEF UpBone
<1>6. \A m \in D : delta[m] \in Rotation
  BY <1>1, <1>3, <1>5, TurnsAreRotations
<1>7. ASSUME NEW m \in D PROVE local[m] = LocalAt(sk, k, m)
  <2>1. PICK b : b = BoneOf(sk, m)
    OBVIOUS
  <2>2. m \in Nat /\ m \in Kept(sk)
    BY <1>1 DEF SoundSkeleton, Driven, Kept
  <2>3. \A x \in Kept(sk) : BoneOf(sk, x) = b => x = m
    BY <1>1, <2>1 DEF SoundSkeleton, Kept
  <2>4. RetargetToVrm(sk).channels[b].rotations
          = [i \in 1 .. Longest(sk.channels) |-> LocalAt(sk, i, m)]
    BY <2>1, <2>2, <2>3, ClipAt
  <2> QED BY <1>4, <2>1, <2>4
<1>8. ASSUME NEW m \in D
      PROVE  local[m] = IF up[m] = NoNode THEN delta[m] ELSE LocalDelta(delta, m, up[m])
  <2>1. up[m] = IF AboveBone(sk, m) = {} THEN NoNode ELSE Max(AboveBone(sk, m))
    BY <1>1, <1>2 DEF UpBone
  <2>2. CASE AboveBone(sk, m) = {}
    <3>1. LocalAt(sk, k, m) = delta[m]
      BY <1>3, <2>2 DEF LocalAt
    <3> QED BY <1>7, <2>1, <2>2, <3>1
  <2>3. CASE AboveBone(sk, m) # {}
    <3>1. PICK x : x = Max(AboveBone(sk, m))
      OBVIOUS
    <3>2. x \in AboveBone(sk, m)
      <4>1. PICK y : y \in AboveBone(sk, m)
        BY <2>3
      <4>2. AboveBone(sk, m) = {y} /\ y \in Nat
        BY <4>1 DEF AboveBone, SoundSkeleton, Driven
      <4> QED BY <3>1, <4>2, MaxOfOne
    <3>3. x \in 0 .. N - 1
      BY <3>2 DEF AboveBone, Driven, SoundSkeleton
    <3>4. x # NoNode
      BY <3>3 DEF NoNode
    <3>5. up[m] = x
      BY <2>1, <2>3, <3>1
    <3>6. LocalAt(sk, k, m) = LocalDelta(delta, m, x)
      BY <1>1, <1>3, <2>3, <3>1 DEF LocalAt
    <3> QED BY <1>7, <3>4, <3>5, <3>6
  <2> QED BY <2>2, <2>3
<1>9. PathRotation(local, up, n) = delta[n]
  BY <1>5, <1>6, <1>8, DeltasRecompose
<1>10. delta[n] = Turned(Times(PathRotation(PoseAt(sk, k), sk.parent, n),
                               Inv[PathRotation(sk.rest, sk.parent, n)]))
  BY <1>1, <1>3, <1>5, TurnsAreRotations
<1> QED BY <1>1, <1>2, <1>4, <1>9, <1>10

================================================================================
