--------------------------- MODULE UpdateFrameProofs ---------------------------
(***************************************************************************)
(* The steps of update_frame that bring what is shown: the poses           *)
(* (AppTracking) and the video behind them (VideoSession).                 *)
(*                                                                         *)
(* The tracking pipeline keeps its frames in order, and the bones agree    *)
(* with what feeds them, for any parts and any numbering of frames.        *)
(*                                                                         *)
(* That the numbers in flight follow each other is not inductive: a failed *)
(* detection between two others would leave a gap. None can be there,      *)
(* because update_frame sends a frame only when it empties the result      *)
(* channel, so the pipeline is never full at all its three places. What    *)
(* the bones show is not inductive either: the keys change the rig and the *)
(* animation first, and mark the rig dirty until a frame applies it; a     *)
(* part that has lost its source is back in the bind pose by then.         *)
(*                                                                         *)
(* The sample table is what its boxes say. The pass that builds it carries *)
(* sums: the offset in the chunk, the durations so far, and what is left   *)
(* of the run. Its slots are the chunks, each repeated for its samples, so *)
(* that the place of a sample among them tells its chunk; the run it is in *)
(* is the one that the durations before it have reached.                   *)
(*                                                                         *)
(* A decoder that has just been created is given a keyframe first, for any *)
(* files that begin with one, any backend, and any order of loops, seeks   *)
(* and failures. The invariant is that of a decoder which has nothing yet: *)
(* the demuxer was set back with it, or is behind the last sample, since   *)
(* decode_frame reads on to a picture, which needs a reference, or to the  *)
(* end. For the same reason the next picture is the first that can be      *)
(* decoded.                                                                *)
(*                                                                         *)
(* The picture shown is that of its time. For a video it is the one        *)
(* decoded last; for a GIF, the one whose delays are over and whose own is *)
(* not, since a tick takes from the time that is over what a picture was   *)
(* shown for, and no more.                                                 *)
(***************************************************************************)
EXTENDS AppTracking, VideoSession, Induction, SequenceTheorems, TLAPS

-----------------------------------------------------------------------------
(* The poses *)

\* The number after n.
Following(n) == (n + 1) % Ids

\* The numbers in flight follow each other, and the next one follows the last.
InOrder ==
  /\ ~(results # <<>> /\ work # NoWork /\ frames # <<>>)
  /\ frames # <<>> => nextId = Following(frames[1])
  /\ work # NoWork => (IF frames = <<>> THEN nextId ELSE frames[1]) = Following(work.id)
  /\ results # <<>> /\ work # NoWork => work.id = Following(results[1].id)
  /\ results # <<>> /\ frames # <<>> => frames[1] = Following(results[1].id)

\* The bones of part p have the pose of its sources.
Follows(p) ==
  bone[p] = CASE p \in rig /\ idle = "on" -> "blend"
              [] p \in rig /\ idle # "on" -> "track"
              [] p \notin rig /\ idle = "on" -> "idle"
              [] OTHER -> "bind"

\* A part without a source is in the bind pose even before a frame shows it.
PoseInv ==
  /\ \A p \in RigParts : p \notin rig /\ idle # "on" => bone[p] = "bind"
  /\ ~rigDirty => \A p \in RigParts : Follows(p)
  /\ shown => ~rigDirty

TrackingInv == TypeOK /\ InOrder /\ PoseInv /\ BlinkFollowsMode

-----------------------------------------------------------------------------
(* The numbers *)

\* The number after a is after a, also where the count starts over.
LEMMA FollowingIsAfter ==
  ASSUME NEW a \in FrameId
  PROVE  After(a, Following(a)) /\ Following(a) \in FrameId
<1>1. CASE a + 1 < Ids
  <2>1. (a + 1) % Ids = a + 1
    BY <1>1, AppTrackingAssumption DEF FrameId
  <2>2. 1 % Ids = 1
    BY AppTrackingAssumption
  <2>3. Ids \div 2 >= 1
    BY AppTrackingAssumption
  <2> QED BY <1>1, <2>1, <2>2, <2>3, AppTrackingAssumption DEF FrameId, After, Following
<1>2. CASE a + 1 = Ids
  <2>1. (a + 1) % Ids = 0
    BY <1>2, AppTrackingAssumption DEF FrameId
  <2>2. (0 - a) % Ids = 1
    BY <1>2, AppTrackingAssumption DEF FrameId
  <2>3. Ids \div 2 >= 1
    BY AppTrackingAssumption
  <2> QED BY <2>1, <2>2, <2>3, AppTrackingAssumption DEF FrameId, After, Following
<1> QED BY <1>1, <1>2, AppTrackingAssumption DEF FrameId

\* A channel holds one thing or none.
LEMMA OneOrNone ==
  ASSUME NEW S, NEW q, q = <<>> \/ \E x \in S : q = <<x>>
  PROVE  q \in Seq(S) /\ Len(q) \in {0, 1} /\ (Len(q) = 0 <=> q = <<>>)
<1>1. CASE q = <<>>
  BY <1>1
<1>2. ASSUME NEW x \in S, q = <<x>>
      PROVE  q \in Seq(S) /\ Len(q) = 1 /\ q # <<>>
  <2>1. <<x>> \in Seq(S) /\ Len(<<x>>) = 1
    OBVIOUS
  <2>2. Len(<<>>) = 0
    OBVIOUS
  <2> QED BY <1>2, <2>1, <2>2, Zenon
<1>3. CASE \E x \in S : q = <<x>>
  <2>1. q \in Seq(S) /\ Len(q) = 1 /\ q # <<>>
    BY <1>2, <1>3
  <2> QED BY <2>1
<1> QED BY <1>1, <1>3

-----------------------------------------------------------------------------
(* The types *)

\* The first state has the types.
LEMMA InitTypes == Init => TypeOK
<1> SUFFICES ASSUME Init PROVE TypeOK
  OBVIOUS
<1>1. frames = <<>> /\ results = <<>> /\ work = NoWork /\ nextId \in FrameId
  BY AppTrackingAssumption DEF Init, FrameId
<1>2. last \subseteq Parts /\ rig \subseteq RigParts
  BY DEF Init
<1>3. bone \in [RigParts -> Sources]
  BY DEF Init, BindPose, Sources
<1>4. /\ alive \in BOOLEAN /\ lostNewer \in BOOLEAN /\ faceOnly \in BOOLEAN /\ running \in BOOLEAN
      /\ tracking \in BOOLEAN /\ took \in BOOLEAN /\ rigDirty \in BOOLEAN /\ shown \in BOOLEAN
  BY DEF Init
<1>5. /\ idle \in {"none", "on", "off"} /\ blinkMode \in {"Tracking", "Auto"}
      /\ blink \in {"rest", "auto", "track"}
  BY DEF Init
<1> QED BY <1>1, <1>2, <1>3, <1>4, <1>5 DEF TypeOK

\* Every step keeps the types.
LEMMA StepTypes ==
  ASSUME TypeOK, [Next]_vars
  PROVE  TypeOK'
<1> USE DEF TypeOK
<1>1. CASE UpdateFrame
  <2>1. frames' \in {<<>>} \cup {<<n>> : n \in FrameId} /\ nextId' \in FrameId
    BY <1>1, FollowingIsAfter DEF UpdateFrame, SendFrame, CaptureFrame, Following
  <2>2. /\ results' \in {<<>>} \cup {<<r>> : r \in [id : FrameId, parts : SUBSET Parts]}
        /\ lostNewer' \in BOOLEAN /\ took' \in BOOLEAN
    BY <1>1 DEF UpdateFrame, RecvResult
  <2>3. last' \subseteq Parts
    <3>1. ASSUME NEW r \in [id : FrameId, parts : SUBSET Parts], results = <<r>>
          PROVE  Head(results).parts \subseteq Parts
      BY <3>1
    <3> QED BY <1>1, <3>1 DEF UpdateFrame, RecvResult
  <2>4. rig' \subseteq RigParts
    BY <1>1, <2>3 DEF UpdateFrame, Solved, RigParts
  <2>5. bone' \in [RigParts -> Sources]
    BY <1>1, <2>4 DEF UpdateFrame, ApplyRig, PoseOf, Sources
  <2>6. rigDirty' \in BOOLEAN /\ blink' \in {"rest", "auto", "track"}
    BY <1>1 DEF UpdateFrame, ApplyRig
  <2> QED BY <1>1, <2>1, <2>2, <2>3, <2>4, <2>5, <2>6 DEF UpdateFrame, workerVars, modeVars
<1>2. CASE TakeFrame
  <2>1. PICK n \in FrameId : frames = <<n>>
    BY <1>2 DEF TakeFrame
  <2>2. /\ work' = [id |-> n, faceOnly |-> faceOnly] /\ frames' = <<>>
        /\ UNCHANGED <<nextId, results, lostNewer, alive, poseVars, modeVars, last, took, shown>>
    BY <1>2, <2>1 DEF TakeFrame
  <2> QED BY <2>2 DEF poseVars, modeVars
<1>3. CASE DetectOk
  <2>1. results' \in {<<>>} \cup {<<r>> : r \in [id : FrameId, parts : SUBSET Parts]}
    BY <1>3, AppTrackingAssumption DEF DetectOk, Found
  <2>2. lostNewer' \in BOOLEAN
    BY <1>3 DEF DetectOk
  <2> QED BY <1>3, <2>1, <2>2 DEF DetectOk, poseVars, modeVars
<1>4. CASE DetectFails
  BY <1>4 DEF DetectFails, channelVars, poseVars, modeVars
<1>5. CASE WorkerExits
  BY ZenonT(30), <1>5 DEF WorkerExits, channelVars, poseVars, modeVars
<1>6. CASE KeyT
  <2>1. tracking' \in BOOLEAN /\ shown' \in BOOLEAN
    BY <1>6 DEF KeyT
  <2>2. rig' \subseteq RigParts /\ bone' \in [RigParts -> Sources] /\ rigDirty' \in BOOLEAN
    BY <1>6 DEF KeyT, BindPose, Sources
  <2>3. UNCHANGED <<frames, nextId, work, alive, results, lostNewer, faceOnly, running, last, took,
                    idle, blinkMode, blink>>
    BY <1>6 DEF KeyT, workerVars, channelVars
  <2> QED BY <2>1, <2>2, <2>3
<1>7. CASE KeyI
  <2>1. idle' \in {"none", "on", "off"} /\ shown' \in BOOLEAN /\ rigDirty' \in BOOLEAN
    BY <1>7 DEF KeyI
  <2>2. bone' \in [RigParts -> Sources]
    BY <1>7 DEF KeyI, BindPose, Sources
  <2>3. UNCHANGED <<frames, nextId, work, alive, results, lostNewer, faceOnly, running, tracking,
                    last, took, rig, blinkMode, blink>>
    BY <1>7 DEF KeyI, workerVars, channelVars
  <2> QED BY <2>1, <2>2, <2>3
<1>8. CASE KeyB
  <2>1. blinkMode' \in {"Tracking", "Auto"} /\ shown' \in BOOLEAN
    BY <1>8 DEF KeyB
  <2>2. UNCHANGED <<frames, nextId, work, alive, results, lostNewer, faceOnly, running, tracking,
                    last, took, rig, rigDirty, bone, idle, blink>>
    BY <1>8 DEF KeyB, workerVars, channelVars, poseVars
  <2> QED BY <2>1, <2>2
<1>9. CASE SetFaceOnly
  <2>1. faceOnly' \in BOOLEAN
    BY <1>9 DEF SetFaceOnly
  <2>2. UNCHANGED <<frames, nextId, work, alive, results, lostNewer, running, tracking,
                    last, took, rig, rigDirty, bone, idle, blinkMode, blink, shown>>
    BY <1>9 DEF SetFaceOnly, workerVars, channelVars, poseVars
  <2> QED BY <2>1, <2>2
<1>10. CASE Close
  <2>1. running' \in BOOLEAN /\ results' = <<>> /\ lostNewer' \in BOOLEAN
    BY <1>10 DEF Close
  <2>2. UNCHANGED <<frames, nextId, work, alive, faceOnly, tracking, last, took, rig, rigDirty,
                    bone, idle, blinkMode, blink, shown>>
    BY <1>10 DEF Close, workerVars, poseVars
  <2> QED BY <2>1, <2>2
<1>11. CASE UNCHANGED vars
  BY <1>11 DEF vars, workerVars, channelVars, poseVars, modeVars
<1> QED BY <1>1, <1>2, <1>3, <1>4, <1>5, <1>6, <1>7, <1>8, <1>9, <1>10, <1>11
        DEF Next, Worker, Keys

-----------------------------------------------------------------------------
(* The numbers in flight *)

\* Every step keeps the numbers in flight in order: a frame is numbered when it is
\* sent, and sent only after the results before it were taken.
LEMMA StepOrders ==
  ASSUME TypeOK, InOrder, [Next]_vars
  PROVE  InOrder'
<1>1. /\ frames = <<>> \/ \E n \in FrameId : frames = <<n>>
      /\ results = <<>> \/ \E r : results = <<r>>
  BY DEF TypeOK
<1>2. CASE UpdateFrame
  <2>1. results' = <<>> /\ work' = work
    BY <1>2 DEF UpdateFrame, RecvResult, workerVars
  <2>2. CASE frames' = <<nextId>> /\ nextId' = Following(nextId) /\ frames = <<>>
    BY <2>1, <2>2 DEF InOrder
  <2>3. CASE UNCHANGED <<frames, nextId>>
    BY <2>1, <2>3 DEF InOrder
  <2> QED BY <1>2, <2>2, <2>3 DEF UpdateFrame, SendFrame, CaptureFrame, Following
<1>3. CASE TakeFrame
  <2>1. PICK n \in FrameId : frames = <<n>>
    BY <1>1, <1>3 DEF TakeFrame
  <2>2. /\ work = NoWork /\ work' = [id |-> n, faceOnly |-> faceOnly] /\ frames' = <<>>
        /\ UNCHANGED <<nextId, results>>
    BY <1>3, <2>1 DEF TakeFrame
  <2>3. work'.id = n /\ frames[1] = n
    BY <2>1, <2>2
  <2> QED BY <2>1, <2>2, <2>3 DEF InOrder
<1>4. CASE DetectOk
  <2>1. work # NoWork /\ work' = NoWork /\ UNCHANGED <<frames, nextId>>
    BY <1>4 DEF DetectOk
  <2>2. results' = results \/ \E found : results' = <<[id |-> work.id, parts |-> found]>>
    BY <1>4 DEF DetectOk
  <2>3. CASE results' = results
    BY <2>1, <2>3 DEF InOrder
  <2>4. CASE \E found : results' = <<[id |-> work.id, parts |-> found]>>
    <3>1. results'[1].id = work.id
      BY <2>4
    <3> QED BY <2>1, <3>1 DEF InOrder
  <2> QED BY <2>2, <2>3, <2>4
<1>5. CASE DetectFails
  BY <1>5 DEF DetectFails, channelVars, InOrder
<1>6. CASE Close
  BY <1>6 DEF Close, workerVars, InOrder
<1>7. CASE WorkerExits \/ KeyT \/ KeyI \/ KeyB \/ SetFaceOnly \/ UNCHANGED vars
  <2>1. UNCHANGED <<frames, nextId, work, results>>
    BY <1>7 DEF WorkerExits, KeyT, KeyI, KeyB, SetFaceOnly, vars, workerVars, channelVars
  <2> QED BY <2>1 DEF InOrder
<1> QED BY <1>2, <1>3, <1>4, <1>5, <1>6, <1>7 DEF Next, Worker, Keys

-----------------------------------------------------------------------------
(* The bones and the eyes *)

\* Every step keeps the poses: a frame applies the rig it has just changed, and
\* a key that takes a source away restores the bind pose or marks the rig dirty.
LEMMA StepPoses ==
  ASSUME TypeOK, PoseInv, [Next]_vars
  PROVE  PoseInv'
<1> DEFINE Feeding == <<rig, idle, bone, rigDirty, shown>>
<1>1. CASE UNCHANGED Feeding
  BY <1>1 DEF PoseInv, Follows
<1>2. CASE UpdateFrame
  <2>1. rig' = rig \cup Solved /\ idle' = idle
    BY <1>2 DEF UpdateFrame, modeVars
  <2>2. CASE Applies
    <3>1. \A p \in RigParts : bone'[p] = PoseOf(p)
      BY <1>2, <2>2 DEF UpdateFrame, ApplyRig
    <3>2. \A p \in RigParts : Follows(p)'
      BY <2>1, <3>1 DEF PoseOf, Follows, PoseInv
    <3>3. \A p \in RigParts : p \notin rig' /\ idle' # "on" => bone'[p] = "bind"
      BY <3>2 DEF Follows
    <3> QED BY <1>2, <2>2, <3>2, <3>3 DEF PoseInv, UpdateFrame, ApplyRig
  <2>3. CASE ~Applies
    <3>1. ~rigDirty /\ rig' = rig /\ UNCHANGED <<bone, rigDirty>>
      BY <1>2, <2>1, <2>3 DEF UpdateFrame, ApplyRig, Applies
    <3> QED BY <2>1, <3>1 DEF PoseInv, Follows
  <2> QED BY <2>2, <2>3
<1>3. CASE KeyT
  <2>1. shown' = FALSE /\ idle' = idle
    BY <1>3 DEF KeyT
  <2>2. CASE tracking
    BY <1>3, <2>1, <2>2 DEF KeyT, BindPose, PoseInv
  <2>3. CASE ~tracking
    BY <1>3, <2>1, <2>3 DEF KeyT, PoseInv, Follows
  <2> QED BY <2>2, <2>3
<1>4. CASE KeyI
  BY <1>4 DEF KeyI, BindPose, PoseInv, TypeOK
<1>5. CASE KeyB
  BY <1>5 DEF KeyB, poseVars, PoseInv, Follows
<1> QED BY <1>1, <1>2, <1>3, <1>4, <1>5
        DEF Next, Worker, Keys, TakeFrame, DetectOk, DetectFails, WorkerExits, SetFaceOnly, Close,
            vars, poseVars, modeVars

\* The rig's blink is written by the branch of the mode in force.
LEMMA StepBlinks ==
  ASSUME BlinkFollowsMode, [Next]_vars
  PROVE  BlinkFollowsMode'
<1>1. CASE UpdateFrame
  <2>1. rig' = rig \cup Solved /\ blinkMode' = blinkMode
    BY <1>1 DEF UpdateFrame, modeVars
  <2>2. "face" \in last' => "face" \in Solved
    BY DEF Solved, Mirror
  <2>3. CASE Applies
    BY <1>1, <2>1, <2>2, <2>3 DEF UpdateFrame, ApplyRig, BlinkFollowsMode
  <2>4. CASE ~Applies
    BY <2>1, <2>2, <2>4 DEF Applies, BlinkFollowsMode
  <2> QED BY <2>3, <2>4
<1>2. CASE KeyT \/ KeyI \/ KeyB
  BY <1>2 DEF KeyT, KeyI, KeyB, BlinkFollowsMode
<1>3. CASE UNCHANGED <<shown, blinkMode, blink, last>>
  BY <1>3 DEF BlinkFollowsMode
<1> QED BY <1>1, <1>2, <1>3
        DEF Next, Worker, Keys, TakeFrame, DetectOk, DetectFails, WorkerExits, SetFaceOnly, Close,
            vars, poseVars, modeVars

-----------------------------------------------------------------------------
\* The types, the order of the numbers, the bones and the eyes hold of every
\* behaviour of the pipeline.
THEOREM TrackingInvariance == Spec => []TrackingInv
<1>1. Init => TrackingInv
  <2> SUFFICES ASSUME Init PROVE TrackingInv
    OBVIOUS
  <2>1. InOrder
    BY DEF Init, InOrder
  <2>2. PoseInv /\ BlinkFollowsMode
    BY DEF Init, PoseInv, BindPose, BlinkFollowsMode
  <2> QED BY <2>1, <2>2, InitTypes DEF TrackingInv
<1>2. TrackingInv /\ [Next]_vars => TrackingInv'
  BY StepTypes, StepOrders, StepPoses, StepBlinks DEF TrackingInv
<1> QED BY <1>1, <1>2, PTL DEF Spec

\* Whatever keys came and whatever results were lost, what a frame shows has no
\* trace of a source that is gone.
THEOREM PoseSound == Spec => []PoseMatchesSources
<1>1. TrackingInv => PoseMatchesSources
  BY DEF TrackingInv, PoseInv, PoseMatchesSources, Follows
<1> QED BY <1>1, TrackingInvariance, PTL

\* The eyes follow the blink mode on the very frame after it changed.
THEOREM BlinkSound == Spec => []BlinkFollowsMode
<1>1. TrackingInv => BlinkFollowsMode
  BY DEF TrackingInv
<1> QED BY <1>1, TrackingInvariance, PTL

\* Results reach the app in the order of their frames, however the numbers
\* start over.
THEOREM OrderSound == Spec => []ResultsInOrder
<1>1. TrackingInv => ResultsInOrder
  <2> SUFFICES ASSUME TrackingInv PROVE ResultsInOrder
    OBVIOUS
  <2> DEFINE R == [i \in DOMAIN results |-> results[i].id]
             W == IF work = NoWork THEN <<>> ELSE <<work.id>>
             n1 == Len(R)
             n2 == Len(W)
  <2>1. /\ R \in Seq(FrameId) /\ n1 \in {0, 1}
        /\ n1 = 0 <=> results = <<>>
        /\ results # <<>> => R[1] = results[1].id
    <3>1. CASE results = <<>>
      <4>1. R = <<>>
        BY <3>1
      <4> QED BY <3>1, <4>1
    <3>2. ASSUME NEW r \in [id : FrameId, parts : SUBSET Parts], results = <<r>>
          PROVE  R = <<r.id>> /\ r.id \in FrameId /\ results # <<>> /\ results[1] = r
      BY <3>2
    <3>3. results = <<>> \/ \E r \in [id : FrameId, parts : SUBSET Parts] : results = <<r>>
      BY DEF TrackingInv, TypeOK
    <3> HIDE DEF R
    <3>4. R = <<>> \/ \E n \in FrameId : R = <<n>>
      BY <3>1, <3>2, <3>3
    <3>5. /\ R = <<>> <=> results = <<>>
          /\ results # <<>> => R[1] = results[1].id
      BY <3>1, <3>2, <3>3
    <3> QED BY <3>4, <3>5, OneOrNone
  <2>2. /\ W \in Seq(FrameId) /\ n2 \in {0, 1}
        /\ n2 = 0 <=> work = NoWork
        /\ work # NoWork => W[1] = work.id
    BY DEF TrackingInv, TypeOK
  <2>3. frames \in Seq(FrameId) /\ Len(frames) \in {0, 1} /\ (Len(frames) = 0 <=> frames = <<>>)
    <3>1. frames = <<>> \/ \E n \in FrameId : frames = <<n>>
      BY DEF TrackingInv, TypeOK
    <3> QED BY <3>1, OneOrNone
  <2>4. InFlight = R \o W \o frames
    BY DEF InFlight
  <2> HIDE DEF R, W
  <2>5. /\ R \o W \in Seq(FrameId) /\ Len(R \o W) = n1 + n2
        /\ \A i \in 1 .. n1 + n2 : (R \o W)[i] = IF i <= n1 THEN R[i] ELSE W[i - n1]
    BY <2>1, <2>2, ConcatProperties
  <2>6. /\ Len(InFlight) = n1 + n2 + Len(frames)
        /\ \A i \in 1 .. n1 + n2 + Len(frames) :
             InFlight[i] = IF i <= n1 + n2 THEN (R \o W)[i] ELSE frames[i - (n1 + n2)]
    BY <2>3, <2>4, <2>5, ConcatProperties
  <2>7. \A i \in 1 .. Len(InFlight) : InFlight[i] \in FrameId
    BY <2>3, <2>4, <2>5, ConcatProperties
  <2>8. ASSUME NEW n \in 1 .. Len(InFlight) - 1
        PROVE  InFlight[n + 1] = Following(InFlight[n])
    <3>1. n \in 1 .. n1 + n2 + Len(frames) /\ n + 1 \in 1 .. n1 + n2 + Len(frames)
      BY <2>1, <2>2, <2>3, <2>6
    <3>2. CASE n1 = 0
      BY <2>1, <2>2, <2>3, <2>5, <2>6, <3>1, <3>2 DEF TrackingInv, InOrder
    <3>3. CASE n1 = 1 /\ n2 = 0
      BY <2>1, <2>2, <2>3, <2>5, <2>6, <3>1, <3>3 DEF TrackingInv, InOrder
    <3>4. CASE n1 = 1 /\ n2 = 1
      BY <2>1, <2>2, <2>3, <2>5, <2>6, <3>1, <3>4 DEF TrackingInv, InOrder
    <3> QED BY <2>1, <2>2, <3>2, <3>3, <3>4
  <2>9. \A n \in 1 .. Len(InFlight) - 1 : After(InFlight[n], InFlight[n + 1])
    <3>1. Len(InFlight) \in Nat
      BY <2>1, <2>2, <2>3, <2>6
    <3> QED BY <2>7, <2>8, <3>1, FollowingIsAfter
  <2> QED BY <2>9 DEF ResultsInOrder
<1> QED BY <1>1, TrackingInvariance, PTL

-----------------------------------------------------------------------------
(* Sums *)

\* The sums of s, one element after the other.
LEMMA SumsAdd ==
  ASSUME NEW N \in Nat, NEW s, \A k \in 1 .. N : s[k] \in Nat
  PROVE  /\ SumUpTo(s, 0) = 0
         /\ \A n \in 0 .. N : SumUpTo(s, n) \in Nat
         /\ \A n \in 1 .. N : SumUpTo(s, n) = SumUpTo(s, n - 1) + s[n]
<1> DEFINE step == [p \in Nat \X Nat |-> IF p[1] \in 1 .. N THEN p[2] + s[p[1]] ELSE p[2]]
<1>1. step \in [Nat \X Nat -> Nat]
  OBVIOUS
<1>2. PICK f \in [0 .. N -> Nat] : RecursFrom(f, 0, N, 0, step)
  <2> HIDE DEF step
  <2> QED BY <1>1, IntervalRecursion
<1>3. f[0] = 0 /\ \A k \in 0 .. N - 1 : f[k + 1] = f[k] + s[k + 1]
  <2>1. f[0] = 0
    BY <1>2 DEF RecursFrom
  <2>2. ASSUME NEW k \in 0 .. N - 1 PROVE f[k + 1] = f[k] + s[k + 1]
    <3>1. f[k + 1] = step[<<k + 1, f[k]>>]
      BY <1>2 DEF RecursFrom
    <3>2. k + 1 \in Nat /\ f[k] \in Nat /\ k + 1 \in 1 .. N
      OBVIOUS
    <3> QED BY <3>1, <3>2
  <2> QED BY <2>1, <2>2
<1> DEFINE Is(n, g) == g = [k \in 0 .. n |-> IF k = 0 THEN 0 ELSE g[k - 1] + s[k]]
<1>4. ASSUME NEW n \in 0 .. N PROVE SumUpTo(s, n) = f[n]
  <2>1. SumUpTo(s, n) = (CHOOSE g : Is(n, g))[n]
    BY DEF SumUpTo
  <2> DEFINE h == [k \in 0 .. n |-> f[k]]
  <2>2. Is(n, h)
    <3>1. ASSUME NEW k \in 0 .. n PROVE h[k] = IF k = 0 THEN 0 ELSE h[k - 1] + s[k]
      <4>1. CASE k = 0
        BY <4>1, <1>3
      <4>2. CASE k # 0
        <5>1. k - 1 \in 0 .. N - 1 /\ k - 1 \in 0 .. n /\ (k - 1) + 1 = k
          BY <4>2
        <5>2. f[(k - 1) + 1] = f[k - 1] + s[(k - 1) + 1]
          BY <5>1, <1>3
        <5> QED BY <4>2, <5>1, <5>2
      <4> QED BY <4>1, <4>2
    <3> QED BY <3>1
  <2>3. PICK g : g = CHOOSE e : Is(n, e)
    OBVIOUS
  <2>4. Is(n, g)
    <3> HIDE DEF h, Is
    <3> QED BY <2>2, <2>3
  <2> DEFINE S == {k \in 0 .. n : g[k] = f[k]}
  <2>5. 0 \in S
    BY <2>4, <1>3
  <2>6. ASSUME NEW k \in 0 .. n - 1, k \in S PROVE k + 1 \in S
    <3>1. k + 1 \in 0 .. n /\ k + 1 # 0 /\ (k + 1) - 1 = k /\ k \in 0 .. N - 1
      BY <2>6
    <3>2. g[k + 1] = g[k] + s[k + 1]
      BY <2>4, <3>1
    <3> QED BY <2>6, <3>1, <3>2, <1>3
  <2>7. \A k \in 0 .. n : k \in S
    <3>1. 0 \in Nat /\ n \in Nat
      OBVIOUS
    <3> HIDE DEF S
    <3> QED BY <2>5, <2>6, <3>1, IntervalInduct
  <2>8. g[n] = f[n]
    BY <2>7
  <2> QED BY <2>1, <2>3, <2>8
<1>5. ASSUME NEW n \in 1 .. N PROVE SumUpTo(s, n) = SumUpTo(s, n - 1) + s[n]
  <2>1. n - 1 \in 0 .. N - 1 /\ n - 1 \in 0 .. N /\ n \in 0 .. N /\ (n - 1) + 1 = n
    OBVIOUS
  <2>2. f[(n - 1) + 1] = f[n - 1] + s[(n - 1) + 1]
    BY <2>1, <1>3
  <2> QED BY <2>1, <2>2, <1>4
<1>6. 0 \in 0 .. N /\ \A n \in 0 .. N : f[n] \in Nat
  OBVIOUS
<1> QED BY <1>3, <1>4, <1>5, <1>6

\* A longer sum is at least as large.
LEMMA SumsGrow ==
  ASSUME NEW N \in Nat, NEW s, \A k \in 1 .. N : s[k] \in Nat, NEW m \in 0 .. N, NEW n \in m .. N
  PROVE  SumUpTo(s, m) <= SumUpTo(s, n)
<1> DEFINE S == {k \in m .. N : SumUpTo(s, m) <= SumUpTo(s, k)}
<1>1. \A k \in 0 .. N : SumUpTo(s, k) \in Nat
  BY SumsAdd
<1>2. m \in S
  BY <1>1
<1>3. ASSUME NEW k \in m .. N - 1, k \in S PROVE k + 1 \in S
  <2>1. k + 1 \in 1 .. N /\ (k + 1) - 1 = k /\ k \in 0 .. N /\ k + 1 \in m .. N
    OBVIOUS
  <2>2. SumUpTo(s, k + 1) = SumUpTo(s, k) + s[k + 1] /\ s[k + 1] \in Nat
    BY <2>1, SumsAdd
  <2>3. SumUpTo(s, m) \in Nat /\ SumUpTo(s, k) \in Nat
    BY <1>1, <2>1
  <2> QED BY <1>3, <2>1, <2>2, <2>3
<1>4. \A k \in m .. N : k \in S
  <2> HIDE DEF S
  <2> QED BY <1>2, <1>3, IntervalInduct
<1> QED BY <1>4

-----------------------------------------------------------------------------
(* The time of day in turns of T *)

\* Every number is some turns and what is left.
LEMMA Turned ==
  ASSUME NEW T \in Nat \ {0}, NEW a \in Nat
  PROVE  \E q \in Nat : a = q * T + (a % T)
<1> DEFINE S == {b \in Nat : \E q, r \in Nat : b = q * T + r /\ r < T}
<1>1. 0 \in S
  <2>1. 0 = 0 * T + 0 /\ 0 < T
    OBVIOUS
  <2> QED BY <2>1
<1>2. ASSUME NEW b \in Nat, b \in S PROVE b + 1 \in S
  <2>1. PICK q \in Nat, r \in Nat : b = q * T + r /\ r < T
    BY <1>2
  <2>2. CASE r + 1 < T
    <3>1. b + 1 = q * T + (r + 1)
      BY <2>1
    <3> QED BY <2>2, <3>1
  <2>3. CASE ~(r + 1 < T)
    <3>1. r + 1 = T
      BY <2>1, <2>3
    <3>2. (q + 1) * T = q * T + T
      OBVIOUS
    <3>3. b + 1 = (q + 1) * T + 0
      BY <2>1, <3>1, <3>2
    <3>4. q + 1 \in Nat /\ 0 \in Nat /\ 0 < T /\ b + 1 \in Nat
      OBVIOUS
    <3> QED BY <3>3, <3>4
  <2> QED BY <2>2, <2>3
<1>3. \A b \in Nat : b \in S
  <2> HIDE DEF S
  <2> QED BY <1>1, <1>2, NatInduct
<1>4. PICK q \in Nat, r \in Nat : a = q * T + r /\ r < T
  BY <1>3
<1>5. a % T = r
  BY <1>4
<1> QED BY <1>4, <1>5

\* What is left of a number is told by any way of writing it.
LEMMA Remainder ==
  ASSUME NEW T \in Nat \ {0}, NEW a \in Nat, NEW q \in Nat, NEW r \in 0 .. T - 1,
         a = q * T + r
  PROVE  a % T = r
OBVIOUS

\* Time goes on from what is left, and a whole turn leaves nothing.
LEMMA TurnOn ==
  ASSUME NEW T \in Nat \ {0}, NEW a \in Nat, NEW d \in Nat
  PROVE  ((a % T) + d) % T = (a + d) % T /\ (T + a) % T = a % T
<1>1. PICK q \in Nat : a = q * T + (a % T)
  BY Turned
<1>2. PICK r \in 0 .. T - 1 : r = a % T
  OBVIOUS
<1>3. PICK b \in Nat : b = r + d
  OBVIOUS
<1>4. PICK p \in Nat : b = p * T + (b % T)
  BY Turned
<1>5. PICK e \in 0 .. T - 1 : e = b % T
  OBVIOUS
<1>6. PICK u \in Nat, v \in Nat : u = q * T /\ v = p * T
  OBVIOUS
<1>7. a = u + r /\ b = v + e
  BY <1>1, <1>2, <1>4, <1>5, <1>6
<1>8. a + d = (u + v) + e /\ T + a = (u + T) + r
  BY <1>3, <1>7
<1>9. PICK n \in Nat : n = q + p
  OBVIOUS
<1>10. n * T = u + v
  <2>1. (q + p) * T = q * T + p * T
    OBVIOUS
  <2> QED BY <2>1, <1>6, <1>9
<1>11. (a + d) % T = e
  <2>1. a + d \in Nat /\ a + d = n * T + e
    BY <1>8, <1>10
  <2> QED BY <2>1, Remainder
<1>12. (T + a) % T = r
  <2>1. PICK m \in Nat : m = q + 1
    OBVIOUS
  <2>2. (q + 1) * T = q * T + T
    OBVIOUS
  <2>3. T + a \in Nat /\ T + a = m * T + r
    BY <1>6, <1>8, <2>1, <2>2
  <2> QED BY <2>3, Remainder
<1> QED BY <1>2, <1>3, <1>5, <1>11, <1>12

-----------------------------------------------------------------------------
(* The chunks of a file *)

\* The entry of stsc in force at chunk i is the last that begins at it or before.
LEMMA EntryOfChunk ==
  ASSUME NEW f, WellFormed(f), NEW i \in 1 .. Len(f.stco)
  PROVE  /\ SamplesPerChunk(f, i) \in Nat
         /\ SamplesPerChunk(f, i) =
              IF f.stsc = <<>> THEN 0
              ELSE (CHOOSE e \in ToSet(f.stsc) :
                      /\ e.first <= i
                      /\ \A g \in ToSet(f.stsc) : g.first <= i => g.first <= e.first).per
<1>10. PICK R : R = [first : Nat \ {0}, per : Nat]
  OBVIOUS
<1>1. PICK s \in Seq(R) : s = f.stsc
  BY <1>10 DEF WellFormed
<1>2. PICK n \in Nat : n = Len(s) /\ DOMAIN s = 1 .. n /\ (n = 0 <=> s = <<>>)
  <2>1. Len(s) \in Nat /\ DOMAIN s = 1 .. Len(s)
    OBVIOUS
  <2>2. Len(s) = 0 <=> s = <<>>
    BY EmptySeq
  <2> QED BY <2>1, <2>2
<1>3. \A k \in 1 .. n : s[k].first \in Nat /\ s[k].per \in Nat
  <2>1. \A k \in 1 .. n : s[k] \in R
    BY <1>2
  <2> QED BY <1>10, <2>1
<1>4. i \in Nat /\ 1 <= i
  BY DEF WellFormed
<1>5. /\ n > 0 => s[1].first = 1
      /\ \A k \in 1 .. n - 1 : s[k].first < s[k + 1].first
  <2>1. n > 0 => s[1].first = 1
    <3>1. n > 0 => 1 \in 1 .. n
      OBVIOUS
    <3> QED BY <1>1, <1>2, <3>1 DEF WellFormed
  <2>2. ASSUME NEW k \in 1 .. n - 1 PROVE s[k].first < s[k + 1].first
    <3>1. k + 1 \in 1 .. n /\ k + 1 # 1 /\ (k + 1) - 1 = k
      OBVIOUS
    <3> QED BY <1>1, <1>2, <3>1 DEF WellFormed
  <2> QED BY <2>1, <2>2
<1>6. ASSUME NEW a \in 1 .. n, NEW b \in a .. n PROVE a < b => s[a].first < s[b].first
  <2> DEFINE S == {k \in a .. n : a < k => s[a].first < s[k].first}
  <2>1. a \in S
    OBVIOUS
  <2>2. ASSUME NEW k \in a .. n - 1, k \in S PROVE k + 1 \in S
    <3>1. k \in 1 .. n - 1 /\ k \in 1 .. n /\ k + 1 \in 1 .. n /\ k + 1 \in a .. n
          /\ (a = k \/ a < k)
      OBVIOUS
    <3>2. s[k].first < s[k + 1].first /\ (a < k => s[a].first < s[k].first)
      BY <1>5, <2>2, <3>1
    <3>3. s[a].first \in Nat /\ s[k].first \in Nat /\ s[k + 1].first \in Nat
      BY <1>3, <3>1
    <3> QED BY <3>1, <3>2, <3>3
  <2>3. \A k \in a .. n : k \in S
    <3>1. a \in Nat /\ n \in Nat
      OBVIOUS
    <3> HIDE DEF S
    <3> QED BY <2>1, <2>2, <3>1, IntervalInduct
  <2> QED BY <2>3
<1> DEFINE applies == {k \in 1 .. n : \A m \in 1 .. k : s[m].first <= i}
<1>7. SamplesPerChunk(f, i) = IF applies = {} THEN 0 ELSE s[Cardinality(applies)].per
  BY <1>1, <1>2 DEF SamplesPerChunk
<1>8. CASE n = 0
  <2>1. applies = {}
    BY <1>8
  <2> QED BY <1>1, <1>2, <1>7, <1>8, <2>1
<1>9. CASE n # 0
  <2>1. applies # {} /\ applies \subseteq 0 .. n
    <3>1. 1 \in 1 .. n /\ \A m \in 1 .. 1 : m = 1
      BY <1>9
    <3>2. 1 \in applies
      BY <1>4, <1>5, <1>9, <3>1
    <3>3. applies \subseteq 1 .. n /\ 1 .. n \subseteq 0 .. n
      OBVIOUS
    <3> HIDE DEF applies
    <3> QED BY <3>2, <3>3
  <2>2. PICK final \in applies : \A m \in applies : m <= final
    <3> HIDE DEF applies
    <3> QED BY <2>1, HasGreatest
  <2>3. final \in 1 .. n /\ final \in Nat /\ \A m \in 1 .. final : s[m].first <= i
    OBVIOUS
  <2>4. applies = 1 .. final
    <3>1. ASSUME NEW k \in 1 .. final PROVE k \in applies
      <4>1. k \in 1 .. n /\ \A m \in 1 .. k : m \in 1 .. final
        BY <2>3
      <4> QED BY <2>3, <4>1
    <3>2. ASSUME NEW k \in applies PROVE k \in 1 .. final
      <4>1. k \in 1 .. n
        OBVIOUS
      <4>2. k <= final
        BY <2>2
      <4> QED BY <2>3, <4>1, <4>2
    <3> HIDE DEF applies
    <3> QED BY <3>1, <3>2
  <2>5. SamplesPerChunk(f, i) = s[final].per
    <3>1. Cardinality(1 .. final) = final
      BY <2>3, FS_Interval
    <3> HIDE DEF applies
    <3> QED BY <1>7, <2>1, <2>4, <3>1
  <2>6. ASSUME NEW m \in 1 .. n, s[m].first <= i PROVE m <= final
    <3>1. SUFFICES ASSUME ~(m <= final) PROVE m \in applies
      BY <2>2
    <3>2. ASSUME NEW k \in 1 .. m PROVE s[k].first <= i
      <4>1. k \in 1 .. n /\ m \in k .. n /\ (k = m \/ k < m)
        OBVIOUS
      <4>2. s[k].first \in Nat /\ s[m].first \in Nat /\ (k < m => s[k].first < s[m].first)
        BY <1>3, <1>6, <4>1
      <4> QED BY <1>4, <2>6, <4>1, <4>2
    <3> QED BY <3>2
  <2> DEFINE Latest(e) == /\ e.first <= i
                        /\ \A g \in ToSet(s) : g.first <= i => g.first <= e.first
  <2>7. ToSet(s) = {s[k] : k \in 1 .. n}
    BY <1>2 DEF ToSet
  <2>8. s[final] \in ToSet(s) /\ Latest(s[final])
    <3>1. ASSUME NEW k \in 1 .. n, s[k].first <= i PROVE s[k].first <= s[final].first
      <4>1. k <= final /\ (k = final \/ k < final) /\ final \in k .. n
        BY <2>3, <2>6, <3>1
      <4>2. s[k].first \in Nat /\ s[final].first \in Nat /\ (k < final => s[k].first < s[final].first)
        BY <1>3, <1>6, <2>3, <4>1
      <4> QED BY <4>1, <4>2
    <3>2. s[final].first <= i
      <4>1. final \in 1 .. final
        BY <2>3
      <4> QED BY <2>3, <4>1
    <3> QED BY <2>3, <2>7, <3>1, <3>2
  <2>9. ASSUME NEW e \in ToSet(s), Latest(e) PROVE e = s[final]
    <3>1. PICK k \in 1 .. n : e = s[k]
      BY <2>7
    <3>2. s[final].first <= s[k].first /\ s[k].first <= i
      BY <2>8, <2>9, <3>1
    <3>3. k <= final
      BY <2>6, <3>2
    <3>4. s[k].first \in Nat /\ s[final].first \in Nat /\ (k < final => s[k].first < s[final].first)
      <4>1. final \in k .. n
        BY <2>3, <3>3
      <4> QED BY <1>3, <1>6, <2>3, <4>1
    <3>5. k = final
      BY <2>3, <3>2, <3>3, <3>4
    <3> QED BY <3>1, <3>5
  <2>10. (CHOOSE e \in ToSet(s) : Latest(e)) = s[final]
    <3> HIDE DEF Latest
    <3> QED BY <2>8, <2>9
  <2>11. s # <<>> /\ s[final].per \in Nat
    BY <1>2, <1>3, <1>9, <2>3
  <2>12. (CHOOSE e \in ToSet(s) :
            /\ e.first <= i
            /\ \A g \in ToSet(s) : g.first <= i => g.first <= e.first) = s[final]
    BY <2>10
  <2> QED BY <1>1, <2>5, <2>11, <2>12
<1> QED BY <1>8, <1>9

\* The samples of the first c chunks, and the chunk of every slot.
LEMMA ChunksHold ==
  ASSUME NEW f, WellFormed(f)
  PROVE  /\ Len(f.stco) \in Nat
         /\ HeldUpTo(f, 0) = 0
         /\ \A c \in 0 .. Len(f.stco) : HeldUpTo(f, c) \in Nat
         /\ \A c \in 1 .. Len(f.stco) :
              HeldUpTo(f, c) = HeldUpTo(f, c - 1) + SamplesPerChunk(f, c)
         /\ \A c \in 0 .. Len(f.stco), d \in 0 .. Len(f.stco) :
              c <= d => HeldUpTo(f, c) <= HeldUpTo(f, d)
<1>1. PICK N \in Nat : N = Len(f.stco) /\ DOMAIN f.stco = 1 .. N
  BY DEF WellFormed
<1> DEFINE entry(i) == CHOOSE e \in ToSet(f.stsc) :
                         /\ e.first <= i
                         /\ \A g \in ToSet(f.stsc) : g.first <= i => g.first <= e.first
           s == [i \in DOMAIN f.stco |-> IF f.stsc = <<>> THEN 0 ELSE entry(i).per]
<1>2. \A c \in Nat : HeldUpTo(f, c) = SumUpTo(s, c)
  BY DEF HeldUpTo
<1>3. \A i \in 1 .. N : s[i] = SamplesPerChunk(f, i) /\ s[i] \in Nat
  <2>1. ASSUME NEW i \in 1 .. N PROVE s[i] = SamplesPerChunk(f, i) /\ s[i] \in Nat
    <3>1. i \in 1 .. Len(f.stco)
      BY <1>1
    <3>2. SamplesPerChunk(f, i) \in Nat
          /\ SamplesPerChunk(f, i) = IF f.stsc = <<>> THEN 0 ELSE entry(i).per
      BY <3>1, EntryOfChunk
    <3>3. s[i] = IF f.stsc = <<>> THEN 0 ELSE entry(i).per
      <4> HIDE DEF entry
      <4> QED BY <1>1
    <3> HIDE DEF s, entry
    <3> QED BY <3>2, <3>3
  <2> QED BY <2>1
<1> HIDE DEF s, entry
<1>4. \A k \in 1 .. N : s[k] \in Nat
  BY <1>3
<1>5. /\ SumUpTo(s, 0) = 0
      /\ \A n \in 0 .. N : SumUpTo(s, n) \in Nat
      /\ \A n \in 1 .. N : SumUpTo(s, n) = SumUpTo(s, n - 1) + s[n]
  BY <1>4, SumsAdd
<1>6. \A n \in 0 .. N : HeldUpTo(f, n) = SumUpTo(s, n)
  BY <1>2
<1>7. ASSUME NEW c \in 1 .. N PROVE HeldUpTo(f, c) = HeldUpTo(f, c - 1) + SamplesPerChunk(f, c)
  <2>1. c - 1 \in 0 .. N /\ c \in 0 .. N
    OBVIOUS
  <2> QED BY <2>1, <1>3, <1>5, <1>6
<1>8. ASSUME NEW c \in 0 .. N, NEW d \in 0 .. N, c <= d PROVE HeldUpTo(f, c) <= HeldUpTo(f, d)
  <2>1. d \in c .. N
    BY <1>8
  <2>2. SumUpTo(s, c) <= SumUpTo(s, d)
    BY <2>1, <1>4, SumsGrow
  <2> QED BY <2>2, <1>6
<1>9. 0 \in 0 .. N
  OBVIOUS
<1> QED BY <1>1, <1>5, <1>6, <1>7, <1>8, <1>9

\* Slot k is of the chunk that the counts of the chunks before it leave it to.
LEMMA SlotsOfChunks ==
  ASSUME NEW f, WellFormed(f)
  PROVE  /\ Len(Slots(f)) = HeldUpTo(f, Len(f.stco)) /\ Slots(f) \in Seq(1 .. Len(f.stco))
         /\ \A k \in 1 .. Len(Slots(f)) :
              /\ Slots(f)[k] \in 1 .. Len(f.stco)
              /\ HeldUpTo(f, Slots(f)[k] - 1) < k /\ k <= HeldUpTo(f, Slots(f)[k])
         /\ \A k \in 1 .. Len(Slots(f)), c \in 1 .. Len(f.stco) :
              HeldUpTo(f, c - 1) < k /\ k <= HeldUpTo(f, c) => Slots(f)[k] = c
<1>1. PICK N \in Nat : N = Len(f.stco)
  BY ChunksHold
<1>2. PICK held : held = [c \in 0 .. N |-> HeldUpTo(f, c)]
  OBVIOUS
<1>3. /\ \A c \in 0 .. N : held[c] = HeldUpTo(f, c) /\ held[c] \in Nat
      /\ held[0] = 0
      /\ \A c \in 1 .. N : held[c] = held[c - 1] + SamplesPerChunk(f, c)
      /\ \A c \in 0 .. N, d \in 0 .. N : c <= d => held[c] <= held[d]
  <2>1. \A c \in 0 .. N : held[c] = HeldUpTo(f, c)
    BY <1>2
  <2>2. 0 \in 0 .. N /\ \A c \in 1 .. N : c \in 0 .. N /\ c - 1 \in 0 .. N
    OBVIOUS
  <2>3. \A c \in 0 .. N : HeldUpTo(f, c) \in Nat
    BY <1>1, ChunksHold
  <2>4. HeldUpTo(f, 0) = 0
    BY <1>1, ChunksHold
  <2>5. \A c \in 1 .. N : HeldUpTo(f, c) = HeldUpTo(f, c - 1) + SamplesPerChunk(f, c)
    BY <1>1, ChunksHold
  <2>6. \A c \in 0 .. N, d \in 0 .. N : c <= d => HeldUpTo(f, c) <= HeldUpTo(f, d)
    BY <1>1, ChunksHold
  <2> QED BY <2>1, <2>2, <2>3, <2>4, <2>5, <2>6
<1> DEFINE piece(i) == [n \in 1 .. SamplesPerChunk(f, i) |-> i]
           pieces == [i \in 1 .. N |-> piece(i)]
<1>4. Slots(f) = FlattenSeq(pieces)
  BY <1>1 DEF Slots
<1>5. ASSUME NEW i \in 1 .. N
      PROVE  /\ piece(i) \in Seq(1 .. N) /\ Len(piece(i)) = SamplesPerChunk(f, i)
             /\ SamplesPerChunk(f, i) \in Nat
             /\ \A k \in 1 .. SamplesPerChunk(f, i) : piece(i)[k] = i
  <2>1. PICK p \in Nat : p = SamplesPerChunk(f, i)
    BY <1>1, EntryOfChunk
  <2> QED BY <2>1
<1>6. /\ pieces \in Seq(Seq(1 .. N)) /\ Len(pieces) = N
      /\ \A i \in 1 .. N : pieces[i] = piece(i)
  <2>1. \A i \in 1 .. N : pieces[i] = piece(i) /\ piece(i) \in Seq(1 .. N)
    BY <1>5
  <2> HIDE DEF piece
  <2>2. pieces \in [1 .. N -> Seq(1 .. N)]
    BY <2>1
  <2>3. \A Y : [1 .. N -> Y] \subseteq Seq(Y)
    OBVIOUS
  <2>4. pieces \in Seq(Seq(1 .. N)) /\ DOMAIN pieces = 1 .. N
    BY <2>2, <2>3
  <2>5. Len(pieces) = N
    BY <2>4
  <2> QED BY <2>1, <2>4, <2>5
<1> HIDE DEF pieces
<1>7. /\ \A i \in 1 .. N : Len(pieces[i]) = SamplesPerChunk(f, i)
      /\ \A i \in 1 .. N, k \in Nat : k \in 1 .. SamplesPerChunk(f, i) => pieces[i][k] = i
  BY <1>5, <1>6
<1> HIDE DEF piece
<1>8. PICK slots \in Seq(1 .. N) : slots = Slots(f)
  BY <1>4, <1>6, Flattened
<1>9. PICK pos : Laid(pieces, slots, pos)
  BY <1>4, <1>6, <1>8, Flattened
<1>10. /\ pos \in [0 .. N -> Nat] /\ pos[0] = 0
       /\ \A c \in 1 .. N : pos[c] = pos[c - 1] + SamplesPerChunk(f, c)
       /\ Len(slots) = pos[N]
       /\ \A c \in 1 .. N, k \in Nat :
            k \in 1 .. SamplesPerChunk(f, c) => slots[pos[c - 1] + k] = c
  <2>1. /\ pos \in [0 .. N -> Nat] /\ pos[0] = 0 /\ Len(slots) = pos[N]
        /\ \A c \in 1 .. N : pos[c] = pos[c - 1] + Len(pieces[c])
        /\ \A c \in 1 .. N, k \in Nat :
             k \in 1 .. Len(pieces[c]) => slots[pos[c - 1] + k] = pieces[c][k]
    BY <1>6, <1>9 DEF Laid
  <2> QED BY <2>1, <1>7
<1>11. \A c \in 0 .. N : pos[c] = held[c]
  <2> DEFINE S == {c \in 0 .. N : pos[c] = held[c]}
  <2>1. 0 \in S
    BY <1>3, <1>10
  <2>2. ASSUME NEW c \in 0 .. N - 1, c \in S PROVE c + 1 \in S
    <3>1. c + 1 \in 1 .. N /\ c + 1 \in 0 .. N /\ (c + 1) - 1 = c
      OBVIOUS
    <3>2. pos[c + 1] = pos[c] + SamplesPerChunk(f, c + 1)
          /\ held[c + 1] = held[c] + SamplesPerChunk(f, c + 1)
      BY <1>3, <1>10, <3>1
    <3> QED BY <2>2, <3>1, <3>2
  <2>3. 0 \in Nat /\ N \in Nat
    OBVIOUS
  <2>4. \A c \in 0 .. N : c \in S
    <3> HIDE DEF S
    <3> QED BY <2>1, <2>2, <2>3, IntervalInduct
  <2> QED BY <2>4
<1>12. ASSUME NEW c \in 1 .. N, NEW k \in Nat, held[c - 1] < k, k <= held[c]
       PROVE  slots[k] = c
  <2>1. c - 1 \in 0 .. N /\ c \in 0 .. N
    OBVIOUS
  <2>2. PICK a \in Nat, p \in Nat : a = held[c - 1] /\ p = SamplesPerChunk(f, c) /\ held[c] = a + p
    BY <2>1, <1>3, <1>5
  <2>3. PICK j \in Nat : j = k - a
    BY <2>2, <1>12
  <2>4. j \in 1 .. p /\ a + j = k
    BY SMTT(20), <2>2, <2>3, <1>12
  <2>5. slots[pos[c - 1] + j] = c
    BY <1>10, <2>2, <2>4
  <2> QED BY <2>1, <2>2, <2>4, <2>5, <1>11
<1>13. Len(slots) = held[N] /\ held[N] \in Nat
  <2>1. N \in 0 .. N
    OBVIOUS
  <2> QED BY <2>1, <1>3, <1>10, <1>11
<1>14. ASSUME NEW k \in 1 .. held[N]
       PROVE  /\ slots[k] \in 1 .. N
              /\ held[slots[k] - 1] < k /\ k <= held[slots[k]]
  <2> DEFINE T == {c \in 0 .. N : k <= held[c]}
  <2>1. T \subseteq Nat /\ T # {}
    <3>1. N \in T
      BY <1>13
    <3> QED BY <3>1
  <2>2. PICK c \in T : \A d \in T : c <= d
    <3> HIDE DEF T
    <3> QED BY <2>1, HasLeast
  <2>3. c \in 0 .. N /\ k <= held[c] /\ k \in Nat /\ 0 < k
    BY <1>13
  <2>4. c # 0 /\ c \in 1 .. N /\ c - 1 \in 0 .. N /\ c - 1 \notin T
    <3>1. c # 0
      BY <2>3, <1>3
    <3> QED BY <3>1, <2>2, <2>3
  <2>5. held[c - 1] < k
    BY <2>3, <2>4, <1>3
  <2>6. slots[k] = c
    BY <2>3, <2>4, <2>5, <1>12
  <2> QED BY <2>3, <2>4, <2>5, <2>6
<1>15. \A c \in 1 .. N : c \in 0 .. N /\ c - 1 \in 0 .. N
  OBVIOUS
<1>16. \A c \in 1 .. N : held[c] = HeldUpTo(f, c) /\ held[c - 1] = HeldUpTo(f, c - 1)
  BY <1>3, <1>15
<1>17. Len(slots) = HeldUpTo(f, N) /\ 1 .. Len(slots) = 1 .. held[N]
  <2>1. N \in 0 .. N
    OBVIOUS
  <2> QED BY <2>1, <1>3, <1>13
<1>18. \A k \in 1 .. Len(slots) :
         /\ slots[k] \in 1 .. N
         /\ HeldUpTo(f, slots[k] - 1) < k /\ k <= HeldUpTo(f, slots[k])
  BY <1>14, <1>16, <1>17
<1>19. \A k \in 1 .. Len(slots), c \in 1 .. N :
         HeldUpTo(f, c - 1) < k /\ k <= HeldUpTo(f, c) => slots[k] = c
  <2>1. \A k \in 1 .. Len(slots) : k \in Nat
    BY <1>13
  <2> QED BY <1>12, <1>16, <2>1
<1> QED BY <1>1, <1>8, <1>17, <1>18, <1>19
-----------------------------------------------------------------------------
(* The durations of a file *)

\* The samples of the first r runs of durations.
CountsUpTo(f, r) == SumUpTo([n \in DOMAIN f.stts |-> f.stts[n].count], r)

\* The runs are as long as they say, and sample k is in the run that reaches it.
LEMMA RunsReach ==
  ASSUME NEW f, WellFormed(f)
  PROVE  /\ Len(f.stts) \in Nat /\ (Len(f.stts) = 0 <=> f.stts = <<>>)
         /\ \A r \in 1 .. Len(f.stts) : f.stts[r].count \in Nat \ {0} /\ f.stts[r].delta \in Nat
         /\ CountsUpTo(f, 0) = 0
         /\ \A r \in 0 .. Len(f.stts) : CountsUpTo(f, r) \in Nat
         /\ \A r \in 1 .. Len(f.stts) : CountsUpTo(f, r) = CountsUpTo(f, r - 1) + f.stts[r].count
         /\ \A k \in Nat, r \in 1 .. Len(f.stts) :
              CountsUpTo(f, r - 1) < k /\ k <= CountsUpTo(f, r) => RunOf(f, k) = r
         /\ \A k \in Nat : CountsUpTo(f, Len(f.stts)) < k => RunOf(f, k) = Len(f.stts)
         /\ \A k \in Nat : Len(f.stts) > 0 => RunOf(f, k) \in 1 .. Len(f.stts)
<1>1. PICK E : E = [count : Nat \ {0}, delta : Nat]
  OBVIOUS
<1>2. PICK s \in Seq(E) : s = f.stts
  BY <1>1 DEF WellFormed
<1>3. PICK R \in Nat : R = Len(s) /\ DOMAIN s = 1 .. R /\ (R = 0 <=> s = <<>>)
  <2>1. Len(s) \in Nat /\ DOMAIN s = 1 .. Len(s)
    OBVIOUS
  <2>2. Len(s) = 0 <=> s = <<>>
    BY EmptySeq
  <2> QED BY <2>1, <2>2
<1>4. \A r \in 1 .. R : s[r].count \in Nat \ {0} /\ s[r].delta \in Nat
  <2>1. \A r \in 1 .. R : s[r] \in E
    BY <1>3
  <2> QED BY <1>1, <2>1
<1>5. PICK c : c = [n \in DOMAIN f.stts |-> f.stts[n].count]
  OBVIOUS
<1>6. \A r \in 1 .. R : c[r] = s[r].count /\ c[r] \in Nat
  BY <1>2, <1>3, <1>4, <1>5
<1>7. /\ SumUpTo(c, 0) = 0
      /\ \A n \in 0 .. R : SumUpTo(c, n) \in Nat
      /\ \A n \in 1 .. R : SumUpTo(c, n) = SumUpTo(c, n - 1) + c[n]
  <2>1. \A r \in 1 .. R : c[r] \in Nat
    BY <1>6
  <2> QED BY <2>1, SumsAdd
<1>8. \A n : CountsUpTo(f, n) = SumUpTo(c, n)
  BY <1>5 DEF CountsUpTo
<1>9. ASSUME NEW a \in 0 .. R, NEW b \in a .. R PROVE SumUpTo(c, a) <= SumUpTo(c, b)
  <2>1. \A r \in 1 .. R : c[r] \in Nat
    BY <1>6
  <2> QED BY <2>1, SumsGrow
<1> DEFINE covers(k) == {r \in 1 .. R : k <= SumUpTo(c, r)}
<1>10. \A k : RunOf(f, k) = IF covers(k) = {} THEN R ELSE Min(covers(k))
  BY <1>2, <1>3, <1>5 DEF RunOf
<1>11. ASSUME NEW k \in Nat, covers(k) # {}
       PROVE  Min(covers(k)) \in covers(k) /\ \A r \in covers(k) : Min(covers(k)) <= r
  <2> DEFINE C == covers(k)
  <2>1. C \subseteq Nat /\ C # {}
    BY <1>11
  <2> HIDE DEF C
  <2>2. \E x \in C : \A y \in C : x <= y
    BY <2>1, HasLeast
  <2>3. Min(C) \in C /\ \A r \in C : Min(C) <= r
    BY <2>2 DEF Min
  <2> QED BY <2>3 DEF C
<1>12. ASSUME NEW k \in Nat, NEW r \in 1 .. R, SumUpTo(c, r - 1) < k, k <= SumUpTo(c, r)
       PROVE  RunOf(f, k) = r
  <2>1. r \in covers(k)
    BY <1>12
  <2>2. PICK m : m = Min(covers(k))
    OBVIOUS
  <2>3. m \in 1 .. R /\ k <= SumUpTo(c, m) /\ m <= r
    BY <2>1, <2>2, <1>11
  <2>4. m = r
    <3>1. SUFFICES ASSUME m # r PROVE FALSE
      OBVIOUS
    <3>2. m \in 0 .. R /\ r - 1 \in m .. R /\ r - 1 \in 0 .. R
      BY <2>3, <3>1
    <3>3. SumUpTo(c, m) <= SumUpTo(c, r - 1)
      BY <1>9, <3>2
    <3>4. SumUpTo(c, m) \in Nat /\ SumUpTo(c, r - 1) \in Nat
      BY <1>7, <3>2
    <3> QED BY <1>12, <2>3, <3>3, <3>4
  <2> HIDE DEF covers
  <2> QED BY <1>10, <2>1, <2>2, <2>4
<1>13. ASSUME NEW k \in Nat, SumUpTo(c, R) < k PROVE RunOf(f, k) = R
  <2>1. ASSUME NEW r \in covers(k) PROVE FALSE
    <3>1. r \in 1 .. R /\ k <= SumUpTo(c, r)
      OBVIOUS
    <3>2. r \in 0 .. R /\ R \in r .. R /\ R \in 0 .. R
      BY <3>1
    <3>3. SumUpTo(c, r) <= SumUpTo(c, R)
      BY <1>9, <3>2
    <3>4. SumUpTo(c, r) \in Nat /\ SumUpTo(c, R) \in Nat
      BY <1>7, <3>2
    <3> QED BY <1>13, <3>1, <3>3, <3>4
  <2> HIDE DEF covers
  <2> QED BY <1>10, <2>1
<1>14. ASSUME NEW k \in Nat, R > 0 PROVE RunOf(f, k) \in 1 .. R
  <2>1. R \in 1 .. R
    BY <1>14
  <2>2. \A r \in covers(k) : r \in 1 .. R
    OBVIOUS
  <2> HIDE DEF covers
  <2> QED BY <1>10, <1>11, <2>1, <2>2
<1>15. \A r \in 1 .. R : SumUpTo(c, r) = SumUpTo(c, r - 1) + s[r].count
  BY <1>6, <1>7
<1> QED BY <1>2, <1>3, <1>4, <1>7, <1>8, <1>12, <1>13, <1>14, <1>15

\* The duration of sample k.
Delta(f, k) == IF f.stts = <<>> THEN 0 ELSE f.stts[RunOf(f, k)].delta

\* The sizes are numbers: those of the box, or its one size for every sample that
\* the runs count.
LEMMA SizesTyped ==
  ASSUME NEW f, WellFormed(f)
  PROVE  Sizes(f) \in Seq(Nat)
<1>1. PICK fixed \in Nat : fixed = f.stsz.fixed
  BY DEF WellFormed
<1>2. f.stsz.sizes \in Seq(Nat)
  BY DEF WellFormed
<1>3. PICK T \in Nat : T = CountsUpTo(f, Len(f.stts))
  <2>1. PICK R \in Nat : R = Len(f.stts)
    BY RunsReach
  <2>2. R \in 0 .. R
    BY <2>1
  <2> QED BY <2>1, <2>2, RunsReach
<1>4. Sizes(f) = IF fixed > 0 THEN [k \in 1 .. T |-> fixed] ELSE f.stsz.sizes
  BY <1>1, <1>3 DEF Sizes, CountsUpTo
<1>5. [k \in 1 .. T |-> fixed] \in Seq(Nat)
  BY <1>1, <1>3
<1> QED BY <1>2, <1>4, <1>5

\* The durations up to a sample are those up to the one before and its own.
LEMMA DurationsAdd ==
  ASSUME NEW f, WellFormed(f)
  PROVE  /\ Len(Sizes(f)) \in Nat /\ \A k \in 1 .. Len(Sizes(f)) : Sizes(f)[k] \in Nat
         /\ DurationsUpTo(f, 0) = 0
         /\ \A n \in 0 .. Len(Sizes(f)) : DurationsUpTo(f, n) \in Nat
         /\ \A n \in 1 .. Len(Sizes(f)) :
              DurationsUpTo(f, n) = DurationsUpTo(f, n - 1) + Delta(f, n)
<1>1. PICK Z \in Nat : Z = Len(Sizes(f)) /\ DOMAIN Sizes(f) = 1 .. Z
  BY SizesTyped
<1>2. \A k \in 1 .. Z : Sizes(f)[k] \in Nat
  BY <1>1, SizesTyped
<1>3. PICK s : s = [k \in DOMAIN Sizes(f) |->
                    IF f.stts = <<>> THEN 0 ELSE f.stts[RunOf(f, k)].delta]
  OBVIOUS
<1>4. ASSUME NEW k \in 1 .. Z PROVE s[k] = Delta(f, k) /\ s[k] \in Nat
  <2>1. s[k] = Delta(f, k)
    BY <1>1, <1>3 DEF Delta
  <2>2. Delta(f, k) \in Nat
    <3>1. CASE f.stts = <<>>
      BY <3>1 DEF Delta
    <3>2. CASE f.stts # <<>>
      <4>1. PICK R \in Nat : R = Len(f.stts) /\ R # 0
        BY <3>2, RunsReach
      <4>2. k \in Nat /\ R > 0
        BY <4>1
      <4>3. RunOf(f, k) \in 1 .. R
        BY <4>1, <4>2, RunsReach
      <4>4. \A r \in 1 .. R : f.stts[r].delta \in Nat
        BY <4>1, RunsReach
      <4> QED BY <3>2, <4>3, <4>4 DEF Delta
    <3> QED BY <3>1, <3>2
  <2> QED BY <2>1, <2>2
<1>5. \A n : DurationsUpTo(f, n) = SumUpTo(s, n)
  BY <1>3 DEF DurationsUpTo
<1>6. /\ SumUpTo(s, 0) = 0
      /\ \A n \in 0 .. Z : SumUpTo(s, n) \in Nat
      /\ \A n \in 1 .. Z : SumUpTo(s, n) = SumUpTo(s, n - 1) + s[n]
  <2>1. \A k \in 1 .. Z : s[k] \in Nat
    BY <1>4
  <2> QED BY <2>1, SumsAdd
<1> QED BY <1>1, <1>2, <1>4, <1>5, <1>6

\* So are the sizes.
LEMMA SizesAdd ==
  ASSUME NEW f, WellFormed(f)
  PROVE  /\ SumUpTo(Sizes(f), 0) = 0
         /\ \A n \in 0 .. Len(Sizes(f)) : SumUpTo(Sizes(f), n) \in Nat
         /\ \A n \in 1 .. Len(Sizes(f)) :
              SumUpTo(Sizes(f), n) = SumUpTo(Sizes(f), n - 1) + Sizes(f)[n]
<1>1. Len(Sizes(f)) \in Nat /\ \A k \in 1 .. Len(Sizes(f)) : Sizes(f)[k] \in Nat
  BY DurationsAdd
<1>2. PICK Z \in Nat : Z = Len(Sizes(f))
  BY <1>1
<1>5. PICK s : s = Sizes(f)
  OBVIOUS
<1>3. \A k \in 1 .. Z : s[k] \in Nat
  BY <1>1, <1>2, <1>5
<1>4. /\ SumUpTo(s, 0) = 0
      /\ \A n \in 0 .. Z : SumUpTo(s, n) \in Nat
      /\ \A n \in 1 .. Z : SumUpTo(s, n) = SumUpTo(s, n - 1) + s[n]
  BY <1>3, SumsAdd
<1> QED BY <1>2, <1>4, <1>5
-----------------------------------------------------------------------------
(* The table, one sample after the other *)

Sample == [offset : Int, size : Nat, dts : Nat, sync : BOOLEAN]

\* What the demuxer keeps between two samples.
TableState(f) ==
  [samples : Seq(Sample), chunk : Nat, offset : Int, dts : Nat, run : 0 .. Len(f.stts),
   left : Nat]

\* Where the first n samples end, of which sample k is one of the last chunk.
EndOf(f, k, n) ==
  f.stco[Slots(f)[k]] + SumUpTo(Sizes(f), n) - SumUpTo(Sizes(f), HeldUpTo(f, Slots(f)[k] - 1))

SampleRight(f, k, sample) ==
  /\ sample.offset = EndOf(f, k, k - 1)
  /\ sample.dts = DurationsUpTo(f, k - 1)
  /\ sample.sync = (f.stss = AllSync \/ k \in f.stss)

\* The run of the last of m samples, and what is left of it.
RunRight(f, m, run, left) ==
  IF run = 0 THEN left = 0 /\ (m = 0 \/ Len(f.stts) = 0)
  ELSE /\ CountsUpTo(f, run - 1) < m
       /\ IF m <= CountsUpTo(f, run) THEN left = CountsUpTo(f, run) - m
          ELSE run = Len(f.stts) /\ left = 0

\* The first m samples are there.
Tabled(f, m, st) ==
  /\ st \in TableState(f)
  /\ Len(st.samples) = m
  /\ st.dts = DurationsUpTo(f, m)
  /\ \A k \in 1 .. m : SampleRight(f, k, st.samples[k])
  /\ RunRight(f, m, st.run, st.left)
  /\ IF m = 0 THEN st.chunk = 0
     ELSE st.chunk = Slots(f)[m] /\ st.offset = EndOf(f, m, m)

\* Whether there is another sample, its place and its run.
NextRun(f, st) == IF st.left = 0 /\ st.run < Len(f.stts) THEN st.run + 1 ELSE st.run
NextLeft(f, st) ==
  IF st.left = 0 /\ st.run < Len(f.stts) THEN f.stts[NextRun(f, st)].count ELSE st.left
NextOffset(f, st, chunk) == IF st.chunk = chunk THEN st.offset ELSE f.stco[chunk]
NextSample(f, st, chunk) ==
  [offset |-> NextOffset(f, st, chunk), size |-> Sizes(f)[Len(st.samples) + 1], dts |-> st.dts,
   sync |-> f.stss = AllSync \/ (Len(st.samples) + 1) \in f.stss]

\* What one turn of the pass adds, in these names.
LEMMA AddSampleIs ==
  ASSUME NEW f, NEW st, NEW chunk
  PROVE  AddSample(f, st, chunk) =
           IF Len(st.samples) >= Len(Sizes(f)) THEN st
           ELSE [samples |-> Append(st.samples, NextSample(f, st, chunk)),
                 chunk |-> chunk,
                 offset |-> NextOffset(f, st, chunk) + Sizes(f)[Len(st.samples) + 1],
                 dts |-> st.dts + (IF NextRun(f, st) = 0 THEN 0
                                   ELSE f.stts[NextRun(f, st)].delta),
                 run |-> NextRun(f, st),
                 left |-> IF NextLeft(f, st) = 0 THEN 0 ELSE NextLeft(f, st) - 1]
BY DEF AddSample, NextRun, NextLeft, NextOffset, NextSample

\* The duration of the next sample is that of the run that reaches it.
LEMMA NextRunRight ==
  ASSUME NEW f, WellFormed(f), NEW m \in Nat, NEW st, st.run \in 0 .. Len(f.stts), st.left \in Nat,
         RunRight(f, m, st.run, st.left)
  PROVE  LET left == IF NextLeft(f, st) = 0 THEN 0 ELSE NextLeft(f, st) - 1
         IN  /\ NextRun(f, st) \in 0 .. Len(f.stts) /\ left \in Nat
             /\ RunRight(f, m + 1, NextRun(f, st), left)
             /\ Delta(f, m + 1) = IF NextRun(f, st) = 0 THEN 0 ELSE f.stts[NextRun(f, st)].delta
<1>1. PICK R \in Nat : R = Len(f.stts) /\ (R = 0 <=> f.stts = <<>>)
  BY RunsReach
<1>2. PICK C : C = [r \in 0 .. R |-> CountsUpTo(f, r)]
  OBVIOUS
<1>3. /\ \A r \in 0 .. R : CountsUpTo(f, r) = C[r] /\ C[r] \in Nat
      /\ C[0] = 0 /\ \A r \in 1 .. R : C[r] = C[r - 1] + f.stts[r].count
  <2>1. \A r \in 0 .. R : CountsUpTo(f, r) = C[r]
    BY <1>2
  <2>2. \A r \in 0 .. R : CountsUpTo(f, r) \in Nat
    BY <1>1, RunsReach
  <2>3. \A r \in 1 .. R : CountsUpTo(f, r) = CountsUpTo(f, r - 1) + f.stts[r].count
    BY <1>1, RunsReach
  <2>4. 0 \in 0 .. R /\ \A r \in 1 .. R : r \in 0 .. R /\ r - 1 \in 0 .. R
    OBVIOUS
  <2>5. CountsUpTo(f, 0) = 0
    BY RunsReach
  <2> QED BY <2>1, <2>2, <2>3, <2>4, <2>5
<1>4. \A r \in 1 .. R : f.stts[r].count \in Nat \ {0}
  BY <1>1, RunsReach
<1>5. /\ \A k \in Nat, r \in 1 .. R : C[r - 1] < k /\ k <= C[r] => RunOf(f, k) = r
      /\ \A k \in Nat : C[R] < k => RunOf(f, k) = R
  <2>1. R \in 0 .. R /\ \A r \in 1 .. R : r \in 0 .. R /\ r - 1 \in 0 .. R
    OBVIOUS
  <2>2. \A k \in Nat, r \in 1 .. R :
          CountsUpTo(f, r - 1) < k /\ k <= CountsUpTo(f, r) => RunOf(f, k) = r
    BY <1>1, RunsReach
  <2>3. \A k \in Nat : CountsUpTo(f, R) < k => RunOf(f, k) = R
    BY <1>1, RunsReach
  <2> QED BY <1>3, <2>1, <2>2, <2>3
<1>6. PICK run \in 0 .. R, left \in Nat : run = st.run /\ left = st.left
  BY <1>1
<1>7. m + 1 \in Nat
  OBVIOUS
<1>8. CASE R = 0
  <2>1. run = 0 /\ left = 0 /\ NextRun(f, st) = 0 /\ NextLeft(f, st) = 0
    BY <1>1, <1>6, <1>8 DEF NextRun, NextLeft, RunRight
  <2>2. Delta(f, m + 1) = 0
    BY <1>1, <1>8 DEF Delta
  <2>3. RunRight(f, m + 1, 0, 0)
    BY <1>1, <1>8 DEF RunRight
  <2> QED BY <1>1, <2>1, <2>2, <2>3
<1>9. CASE R > 0 /\ left = 0 /\ run < R
  <2>1. run + 1 \in 1 .. R /\ (run + 1) - 1 = run /\ run \in 0 .. R /\ run + 1 \in 0 .. R
        /\ run + 1 # 0
    BY <1>9
  <2>2. PICK c \in Nat \ {0} : c = f.stts[run + 1].count
    BY <1>4, <2>1
  <2>3. NextRun(f, st) = run + 1 /\ NextLeft(f, st) = c
    BY <1>1, <1>6, <1>9, <2>2 DEF NextRun, NextLeft
  <2>4. C[run] = m
    <3>1. CASE run = 0
      BY <1>1, <1>3, <1>6, <1>9, <3>1 DEF RunRight
    <3>2. CASE run # 0
      <4>1. IF m <= C[run] THEN left = C[run] - m ELSE run = R
        BY <1>1, <1>3, <1>6, <2>1, <3>2 DEF RunRight
      <4>2. C[run] \in Nat
        BY <1>3, <2>1
      <4> QED BY <1>9, <4>1, <4>2
    <3> QED BY <3>1, <3>2
  <2>5. C[run + 1] = m + c
    BY <1>3, <2>1, <2>2, <2>4
  <2>6. RunOf(f, m + 1) = run + 1
    <3>1. C[(run + 1) - 1] < m + 1 /\ m + 1 <= C[run + 1]
      BY SMTT(20), <2>1, <2>2, <2>4, <2>5
    <3> QED BY <1>5, <1>7, <2>1, <3>1
  <2>7. RunRight(f, m + 1, run + 1, c - 1)
    <3>1. CountsUpTo(f, (run + 1) - 1) < m + 1
      BY SMTT(20), <1>3, <2>1, <2>4
    <3>2. CountsUpTo(f, run + 1) = m + c
      BY <1>3, <2>1, <2>5
    <3>3. m + 1 <= m + c /\ c - 1 = (m + c) - (m + 1)
      BY SMTT(20), <2>2
    <3> QED BY <2>1, <3>1, <3>2, <3>3 DEF RunRight
  <2>8. Delta(f, m + 1) = f.stts[run + 1].delta
    BY <1>1, <1>9, <2>6 DEF Delta
  <2>9. c # 0 /\ c - 1 \in Nat
    BY <2>2
  <2> QED BY <1>1, <2>1, <2>3, <2>7, <2>8, <2>9
<1>10. CASE R > 0 /\ ~(left = 0 /\ run < R)
  <2>1. NextRun(f, st) = run /\ NextLeft(f, st) = left
    BY <1>1, <1>6, <1>10 DEF NextRun, NextLeft
  <2>2. run # 0 /\ run \in 1 .. R /\ run - 1 \in 0 .. R
    <3>1. run # 0
      BY <1>1, <1>6, <1>10 DEF RunRight
    <3> QED BY <3>1
  <2>3. C[run - 1] < m /\ (IF m <= C[run] THEN left = C[run] - m ELSE run = R /\ left = 0)
    BY <1>1, <1>3, <1>6, <2>2 DEF RunRight
  <2>4. C[run - 1] \in Nat /\ C[run] \in Nat
    BY <1>3, <2>2
  <2>5. Delta(f, m + 1) = f.stts[RunOf(f, m + 1)].delta
    BY <1>1, <1>10 DEF Delta
  <2>6. CASE left # 0
    <3>1. C[run - 1] < m + 1 /\ m + 1 <= C[run] /\ left - 1 = C[run] - (m + 1) /\ left - 1 \in Nat
      <4>1. PICK a \in Nat, b \in Nat : a = C[run - 1] /\ b = C[run]
        BY <2>4
      <4>2. a < m /\ m <= b /\ left = b - m
        BY <2>3, <2>6, <4>1
      <4>3. a < m + 1 /\ m + 1 <= b /\ left - 1 = b - (m + 1) /\ left - 1 \in Nat
        BY <2>6, <4>2
      <4> QED BY <4>1, <4>3
    <3>2. RunOf(f, m + 1) = run
      BY <1>5, <1>7, <2>2, <3>1
    <3>3. RunRight(f, m + 1, run, left - 1)
      BY <1>3, <2>2, <3>1 DEF RunRight
    <3> QED BY <1>1, <2>1, <2>2, <2>5, <2>6, <3>1, <3>2, <3>3
  <2>7. CASE left = 0
    <3>1. run = R /\ C[R] <= m
      BY <1>10, <2>3, <2>4, <2>7
    <3>2. RunOf(f, m + 1) = R
      <4>1. C[R] < m + 1
        BY <2>4, <3>1
      <4> QED BY <1>5, <1>7, <4>1
    <3>3. RunRight(f, m + 1, run, 0)
      <4>1. C[run - 1] < m + 1 /\ ~(m + 1 <= C[run])
        BY <2>3, <2>4, <3>1
      <4> QED BY <1>1, <1>3, <2>2, <3>1, <4>1 DEF RunRight
    <3> QED BY <1>1, <2>1, <2>2, <2>5, <2>7, <3>1, <3>2, <3>3
  <2> QED BY <2>6, <2>7
<1> QED BY <1>8, <1>9, <1>10

\* A sample more.
LEMMA AddSampleKeeps ==
  ASSUME NEW f, WellFormed(f), NEW m \in Nat, m < Len(Slots(f)), m < Len(Sizes(f)),
         NEW st, Tabled(f, m, st)
  PROVE  Tabled(f, m + 1, AddSample(f, st, Slots(f)[m + 1]))
<1>1. PICK N \in Nat : N = Len(f.stco)
  BY ChunksHold
<1>2. PICK Z \in Nat : Z = Len(Sizes(f))
  BY DurationsAdd
<1>3. PICK slots \in Seq(1 .. N) : slots = Slots(f)
  BY <1>1, SlotsOfChunks
<1>4. PICK L \in Nat : L = Len(slots)
  OBVIOUS
<1>5. m + 1 \in 1 .. L /\ m + 1 \in 1 .. Z /\ m \in 0 .. Z /\ m + 1 \in Nat /\ (m + 1) - 1 = m
      /\ m + 1 \in 0 .. Z
  BY <1>2, <1>3, <1>4
<1>6. PICK chunk \in 1 .. N : chunk = slots[m + 1]
  BY <1>4, <1>5
<1>7. PICK next : next = AddSample(f, st, chunk)
  OBVIOUS
<1>8. /\ st.samples \in Seq(Sample) /\ Len(st.samples) = m /\ st.chunk \in Nat
      /\ st.offset \in Int /\ st.dts \in Nat /\ st.run \in 0 .. Len(f.stts) /\ st.left \in Nat
      /\ st.dts = DurationsUpTo(f, m) /\ RunRight(f, m, st.run, st.left)
  BY DEF Tabled, TableState
<1>9. PICK sample : sample = NextSample(f, st, chunk)
  OBVIOUS
<1>10. PICK size \in Nat : size = Sizes(f)[m + 1]
  BY <1>2, <1>5, DurationsAdd
<1>11. PICK left : left = IF NextLeft(f, st) = 0 THEN 0 ELSE NextLeft(f, st) - 1
  OBVIOUS
<1>12. /\ NextRun(f, st) \in 0 .. Len(f.stts) /\ left \in Nat
       /\ RunRight(f, m + 1, NextRun(f, st), left)
       /\ Delta(f, m + 1) = IF NextRun(f, st) = 0 THEN 0 ELSE f.stts[NextRun(f, st)].delta
  BY <1>8, <1>11, NextRunRight
<1>13. next = [samples |-> Append(st.samples, sample),
               chunk |-> chunk,
               offset |-> NextOffset(f, st, chunk) + size,
               dts |-> st.dts + Delta(f, m + 1),
               run |-> NextRun(f, st),
               left |-> left]
  <2>1. ~(m >= Z)
    BY <1>5
  <2> QED BY <1>2, <1>7, <1>8, <1>9, <1>10, <1>11, <1>12, <2>1, AddSampleIs
<1>14. DurationsUpTo(f, m + 1) = st.dts + Delta(f, m + 1) /\ DurationsUpTo(f, m + 1) \in Nat
  BY <1>2, <1>5, <1>8, DurationsAdd
<1>15. /\ SumUpTo(Sizes(f), m + 1) = SumUpTo(Sizes(f), m) + size
       /\ SumUpTo(Sizes(f), m) \in Nat
  BY <1>2, <1>5, <1>10, SizesAdd
<1>16. PICK h \in Nat : h = HeldUpTo(f, chunk - 1) /\ h <= m
  <2>1. chunk - 1 \in 0 .. N
    OBVIOUS
  <2>2. HeldUpTo(f, chunk - 1) \in Nat
    BY <1>1, <2>1, ChunksHold
  <2>3. HeldUpTo(f, chunk - 1) < m + 1
    BY <1>3, <1>4, <1>5, <1>6, SlotsOfChunks
  <2> QED BY <2>2, <2>3
<1>17. PICK base \in Nat : base = SumUpTo(Sizes(f), h)
  <2>1. h \in 0 .. Z
    BY <1>5, <1>16
  <2> QED BY <1>2, <2>1, SizesAdd
<1>18. PICK start \in Nat : start = f.stco[chunk]
  <2>1. f.stco \in Seq(Nat)
    BY DEF WellFormed
  <2>2. f.stco[chunk] \in Nat
    BY <1>1, <2>1
  <2> QED BY <2>2
<1>19. \A n : EndOf(f, m + 1, n) = start + SumUpTo(Sizes(f), n) - base
  BY <1>3, <1>6, <1>16, <1>17, <1>18 DEF EndOf
<1>20. NextOffset(f, st, chunk) = EndOf(f, m + 1, m)
  <2>1. CASE m = 0
    <3>1. st.chunk # chunk
      BY <2>1 DEF Tabled
    <3>2. h = 0 /\ base = SumUpTo(Sizes(f), m)
      BY <1>16, <1>17, <2>1
    <3>3. NextOffset(f, st, chunk) = start
      BY <1>18, <3>1 DEF NextOffset
    <3> QED BY <1>15, <1>17, <1>19, <3>2, <3>3
  <2>2. CASE m # 0 /\ slots[m] = chunk
    <3>1. st.chunk = chunk /\ st.offset = EndOf(f, m, m)
      BY <1>3, <2>2 DEF Tabled
    <3>2. EndOf(f, m, m) = EndOf(f, m + 1, m)
      BY <1>3, <1>6, <2>2 DEF EndOf
    <3> QED BY <3>1, <3>2 DEF NextOffset
  <2>3. CASE m # 0 /\ slots[m] # chunk
    <3>1. st.chunk # chunk
      BY <1>3, <2>3 DEF Tabled
    <3>2. NextOffset(f, st, chunk) = start
      BY <1>18, <3>1 DEF NextOffset
    <3>3. h = m
      <4>1. SUFFICES ASSUME h < m PROVE FALSE
        BY <1>16
      <4>2. m \in 1 .. L
        BY <1>5, <2>3
      <4>3. m + 1 <= HeldUpTo(f, chunk)
        BY <1>3, <1>4, <1>5, <1>6, SlotsOfChunks
      <4>4. HeldUpTo(f, chunk) \in Nat
        <5>1. chunk \in 0 .. N
          OBVIOUS
        <5> QED BY <1>1, <5>1, ChunksHold
      <4>5. m <= HeldUpTo(f, chunk)
        BY <4>3, <4>4
      <4>6. HeldUpTo(f, chunk - 1) < m
        BY <1>16, <4>1
      <4>7. slots[m] = chunk
        BY <1>1, <1>3, <1>4, <4>2, <4>5, <4>6, SlotsOfChunks
      <4> QED BY <2>3, <4>7
    <3>4. base = SumUpTo(Sizes(f), m)
      BY <1>17, <3>3
    <3> QED BY <1>15, <1>19, <3>2, <3>4
  <2> QED BY <2>1, <2>2, <2>3
<1>21. NextOffset(f, st, chunk) \in Int
  <2>1. EndOf(f, m + 1, m) = start + SumUpTo(Sizes(f), m) - base
    BY <1>19
  <2> QED BY <1>15, <1>20, <2>1
<1>22. NextOffset(f, st, chunk) + size = EndOf(f, m + 1, m + 1)
  <2>1. EndOf(f, m + 1, m) = start + SumUpTo(Sizes(f), m) - base
        /\ EndOf(f, m + 1, m + 1) = start + SumUpTo(Sizes(f), m + 1) - base
    BY <1>19
  <2> QED BY <1>15, <1>20, <2>1
<1>23. sample \in Sample /\ SampleRight(f, m + 1, sample)
  <2>1. /\ sample = [offset |-> NextOffset(f, st, chunk), size |-> size, dts |-> st.dts,
                     sync |-> f.stss = AllSync \/ (m + 1) \in f.stss]
        /\ sample.offset = NextOffset(f, st, chunk) /\ sample.dts = st.dts
        /\ sample.sync = (f.stss = AllSync \/ (m + 1) \in f.stss)
    BY <1>8, <1>9, <1>10 DEF NextSample
  <2>2. sample \in Sample
    BY <1>8, <1>21, <2>1 DEF Sample
  <2>3. SampleRight(f, m + 1, sample)
    BY <1>5, <1>8, <1>20, <2>1 DEF SampleRight
  <2> QED BY <2>2, <2>3
<1>24. PICK table : table = Append(st.samples, sample)
  OBVIOUS
<1>25. /\ table \in Seq(Sample) /\ Len(table) = m + 1
       /\ \A k \in 1 .. m : table[k] = st.samples[k]
       /\ table[m + 1] = sample
  BY <1>8, <1>23, <1>24, AppendProperties
<1>26. ASSUME NEW k \in 1 .. m + 1 PROVE SampleRight(f, k, table[k])
  <2>1. CASE k = m + 1
    BY <1>23, <1>25, <2>1
  <2>2. CASE k # m + 1
    <3>1. k \in 1 .. m
      BY <2>2
    <3>2. SampleRight(f, k, st.samples[k])
      BY <3>1 DEF Tabled
    <3> QED BY <1>25, <3>1, <3>2
  <2> QED BY <2>1, <2>2
<1>27. /\ next.samples = table /\ next.chunk = chunk
       /\ next.offset = EndOf(f, m + 1, m + 1) /\ next.dts = DurationsUpTo(f, m + 1)
       /\ next.run = NextRun(f, st) /\ next.left = left
  BY <1>13, <1>14, <1>22, <1>24
<1>28. next \in TableState(f)
  <2>1. NextOffset(f, st, chunk) + size \in Int /\ chunk \in Nat
    BY <1>21
  <2>2. st.dts + Delta(f, m + 1) \in Nat
    BY <1>14
  <2> QED BY <1>12, <1>13, <1>24, <1>25, <2>1, <2>2 DEF TableState
<1>29. m + 1 # 0 /\ chunk = Slots(f)[m + 1]
  BY <1>3, <1>6
<1>30. Tabled(f, m + 1, next)
  BY <1>12, <1>25, <1>26, <1>27, <1>28, <1>29 DEF Tabled
<1> QED BY <1>7, <1>29, <1>30

\* A slot behind the last size is left out.
LEMMA AddSampleStops ==
  ASSUME NEW f, NEW st, Tabled(f, Len(Sizes(f)), st), Len(Sizes(f)) \in Nat, NEW chunk
  PROVE  AddSample(f, st, chunk) = st
<1>1. Len(st.samples) >= Len(Sizes(f))
  BY DEF Tabled
<1> QED BY <1>1, AddSampleIs

\* The whole table.
LEMMA TableRight ==
  ASSUME NEW f, WellFormed(f)
  PROVE  LET held == HeldUpTo(f, Len(f.stco))
             all == IF held <= Len(Sizes(f)) THEN held ELSE Len(Sizes(f))
         IN  /\ SampleTable(f) \in Seq(Sample) /\ Len(SampleTable(f)) = all
             /\ \A k \in 1 .. all : SampleRight(f, k, SampleTable(f)[k])
<1>1. PICK Z \in Nat : Z = Len(Sizes(f))
  BY DurationsAdd
<1>2. PICK N \in Nat : N = Len(f.stco)
  BY ChunksHold
<1>3. PICK slots \in Seq(1 .. N) : slots = Slots(f)
  BY <1>2, SlotsOfChunks
<1>4. PICK L \in Nat : L = Len(slots) /\ L = HeldUpTo(f, N)
  BY <1>2, <1>3, SlotsOfChunks
<1> DEFINE m(n) == IF n <= Z THEN n ELSE Z
           X == {st \in TableState(f) : \E n \in 0 .. L : Tabled(f, m(n), st)}
           Is(g) == g = [n \in 0 .. L |-> IF n = 0 THEN NoSamples
                                         ELSE AddSample(f, g[n - 1], slots[n])]
<1>5. SampleTable(f) = (CHOOSE g : Is(g))[L].samples
  BY <1>3, <1>4 DEF SampleTable
<1>6. NoSamples \in TableState(f) /\ Tabled(f, 0, NoSamples)
  <2>1. PICK R \in Nat : R = Len(f.stts)
    BY RunsReach
  <2>2. <<>> \in Seq(Sample) /\ Len(<<>>) = 0
    OBVIOUS
  <2>3. NoSamples \in TableState(f)
    BY <2>1, <2>2 DEF NoSamples, TableState
  <2>4. RunRight(f, 0, 0, 0)
    BY DEF RunRight
  <2>5. DurationsUpTo(f, 0) = 0
    BY DurationsAdd
  <2>6. /\ NoSamples.samples = <<>> /\ NoSamples.chunk = 0 /\ NoSamples.dts = 0
        /\ NoSamples.run = 0 /\ NoSamples.left = 0
    BY DEF NoSamples
  <2>7. \A k \in 1 .. 0 : SampleRight(f, k, NoSamples.samples[k])
    OBVIOUS
  <2> QED BY <2>2, <2>3, <2>4, <2>5, <2>6, <2>7 DEF Tabled
<1>7. ASSUME NEW n \in 0 .. L - 1, NEW st, Tabled(f, m(n), st)
      PROVE  Tabled(f, m(n + 1), AddSample(f, st, slots[n + 1]))
  <2>1. CASE n < Z
    <3>1. m(n) = n /\ m(n + 1) = n + 1 /\ n \in Nat /\ n < L
      BY <2>1
    <3> QED BY <1>1, <1>3, <1>4, <1>7, <2>1, <3>1, AddSampleKeeps
  <2>2. CASE ~(n < Z)
    <3>1. m(n) = Z /\ m(n + 1) = Z
      BY <2>2
    <3>2. AddSample(f, st, slots[n + 1]) = st
      BY <1>1, <1>7, <3>1, AddSampleStops
    <3> QED BY <1>7, <3>1, <3>2
  <2> QED BY <2>1, <2>2
<1> DEFINE S(g) == {n \in 0 .. L : Tabled(f, m(n), g[n])}
<1>8. ASSUME NEW g, Is(g) PROVE \A n \in 0 .. L : n \in S(g)
  <2>1. 0 \in S(g)
    <3>1. g[0] = NoSamples /\ m(0) = 0
      BY <1>8
    <3> HIDE DEF m
    <3> QED BY <1>6, <3>1
  <2>2. ASSUME NEW n \in 0 .. L - 1, n \in S(g) PROVE n + 1 \in S(g)
    <3>1. n + 1 \in 0 .. L /\ n + 1 # 0 /\ (n + 1) - 1 = n
      OBVIOUS
    <3>2. g[n + 1] = AddSample(f, g[n], slots[n + 1])
      BY <1>8, <3>1
    <3> HIDE DEF m
    <3> QED BY <1>7, <2>2, <3>1, <3>2
  <2>3. 0 \in Nat /\ L \in Nat
    OBVIOUS
  <2> HIDE DEF S
  <2> QED BY <2>1, <2>2, <2>3, IntervalInduct
<1>9. \E g : Is(g)
  <2> DEFINE Y == TableState(f)
             step == [p \in Nat \X Y |->
                        IF AddSample(f, p[2], slots[p[1]]) \in Y
                        THEN AddSample(f, p[2], slots[p[1]]) ELSE p[2]]
  <2>1. step \in [Nat \X Y -> Y]
    <3> HIDE DEF Y
    <3> QED OBVIOUS
  <2>2. PICK g \in [0 .. L -> Y] : RecursFrom(g, 0, L, NoSamples, step)
    <3>1. 0 \in Nat /\ L \in Nat
      OBVIOUS
    <3> HIDE DEF Y, step
    <3>2. NoSamples \in Y
      BY <1>6 DEF Y
    <3> QED BY <2>1, <3>1, <3>2, IntervalRecursion
  <2>3. g[0] = NoSamples
    <3>1. 0 <= L
      OBVIOUS
    <3> QED BY <2>2, <3>1 DEF RecursFrom
  <2> DEFINE T == {n \in 0 .. L :
                     /\ Tabled(f, m(n), g[n])
                     /\ n # 0 => g[n] = AddSample(f, g[n - 1], slots[n])}
  <2>4. 0 \in T
    <3>1. m(0) = 0 /\ 0 \in 0 .. L
      OBVIOUS
    <3> HIDE DEF m
    <3> QED BY <1>6, <2>3, <3>1
  <2>5. ASSUME NEW n \in 0 .. L - 1, n \in T PROVE n + 1 \in T
    <3>1. n + 1 \in 0 .. L /\ n + 1 # 0 /\ (n + 1) - 1 = n /\ n + 1 \in Nat /\ n \in 0 .. L
      OBVIOUS
    <3> HIDE DEF m
    <3>2. g[n + 1] = step[<<n + 1, g[n]>>]
      BY <2>2 DEF RecursFrom
    <3>3. Tabled(f, m(n + 1), AddSample(f, g[n], slots[n + 1]))
      BY <1>7, <2>5
    <3>4. AddSample(f, g[n], slots[n + 1]) \in Y
      BY <3>3 DEF Tabled
    <3> HIDE DEF Y
    <3>5. <<n + 1, g[n]>> \in Nat \X Y
      BY <3>1
    <3>6. step[<<n + 1, g[n]>>] = AddSample(f, g[n], slots[n + 1])
      BY <3>4, <3>5
    <3> HIDE DEF step
    <3> QED BY <3>1, <3>2, <3>3, <3>6
  <2>6. \A n \in 0 .. L : n \in T
    <3>1. 0 \in Nat /\ L \in Nat
      OBVIOUS
    <3> HIDE DEF T
    <3> QED BY <2>4, <2>5, <3>1, IntervalInduct
  <2>7. Is(g)
    <3>1. ASSUME NEW n \in 0 .. L
          PROVE  g[n] = IF n = 0 THEN NoSamples ELSE AddSample(f, g[n - 1], slots[n])
      BY <2>3, <2>6
    <3>2. g = [n \in 0 .. L |-> g[n]]
      OBVIOUS
    <3> HIDE DEF Y, T
    <3> QED BY <3>1, <3>2
  <2> HIDE DEF Is
  <2> QED BY <2>7
<1>10. PICK g : g = CHOOSE e : Is(e)
  OBVIOUS
<1>11. Is(g)
  <2> HIDE DEF Is
  <2> QED BY <1>9, <1>10
<1>12. L \in S(g)
  <2>1. L \in 0 .. L
    OBVIOUS
  <2> HIDE DEF S, Is
  <2> QED BY <1>8, <1>11, <2>1
<1>13. Tabled(f, m(L), g[L])
  BY <1>12
<1>14. SampleTable(f) = g[L].samples
  <2> HIDE DEF Is
  <2> QED BY <1>5, <1>10
<1>15. m(L) = IF L <= Z THEN L ELSE Z
  OBVIOUS
<1> HIDE DEF m
<1>16. /\ g[L].samples \in Seq(Sample) /\ Len(g[L].samples) = m(L)
       /\ \A k \in 1 .. m(L) : SampleRight(f, k, g[L].samples[k])
  BY <1>13 DEF Tabled, TableState
<1> QED BY <1>1, <1>2, <1>4, <1>14, <1>15, <1>16
-----------------------------------------------------------------------------
(* The video *)

\* A table that begins with a keyframe, if there is a sample at all.
Begins(table) == Len(table) \in Nat /\ (table = <<>> \/ table[1].sync)

\* A seek to anywhere ends at a keyframe, if there is a sample at all.
LEMMA SeekLands ==
  ASSUME NEW table, Begins(table), NEW position
  PROVE  /\ SeekCursor(table, position) \in Nat
         /\ \/ table[SeekCursor(table, position)].sync
            \/ table = <<>> /\ SeekCursor(table, position) = 1
<1> DEFINE seen == {k \in 1 .. Len(table) : \A m \in 1 .. k : table[m].dts <= position}
           sync == {k \in seen : table[k].sync}
<1>1. SeekCursor(table, position)
        = IF sync = {} THEN 1 ELSE CHOOSE k \in sync : \A m \in sync : m <= k
  BY DEF SeekCursor
<1>2. CASE sync = {}
  BY <1>1, <1>2 DEF Begins
<1>3. CASE sync # {}
  <2>1. sync \subseteq 0 .. Len(table) /\ Len(table) \in Nat
    BY DEF Begins
  <2>2. \A k \in sync : table[k].sync /\ k \in Nat
    BY DEF Begins
  <2> HIDE DEF sync
  <2>3. \E k \in sync : \A m \in sync : m <= k
    BY <2>1, <1>3, HasGreatest
  <2>4. SeekCursor(table, position) \in sync
    BY <1>1, <1>3, <2>3
  <2> QED BY <2>2, <2>4
<1> QED BY <1>2, <1>3

\* The cursor is at a keyframe, or behind the last sample, when the decoder has
\* nothing yet.
KeyframeInv ==
  /\ file \in Files /\ cursor \in Nat
  /\ backend = NoBackend => cursor = 1 /\ status = "None"
  /\ backend # NoBackend => file.tracks # <<>> /\ samples = SampleTable(file)
  /\ (backend # NoBackend /\ decoder = Fresh /\ ~unread) =>
       samples[cursor].sync \/ cursor = Len(samples) + 1

\* The table of a file that can be played begins with a keyframe.
LEMMA TableOfFile ==
  ASSUME NEW f \in Files, f.tracks # <<>>
  PROVE  Begins(SampleTable(f))
<1>1. WellFormed(f) /\ (f.stss = AllSync \/ 1 \in f.stss)
  BY FilesAssumption
<1>2. PICK N \in Nat, Z \in Nat : N = HeldUpTo(f, Len(f.stco)) /\ Z = Len(Sizes(f))
  <2>1. Len(f.stco) \in 0 .. Len(f.stco)
    BY <1>1, ChunksHold
  <2> QED BY <1>1, <2>1, ChunksHold, DurationsAdd
<1>3. PICK all \in Nat : all = IF N <= Z THEN N ELSE Z
  OBVIOUS
<1>4. PICK table \in Seq(Sample) : table = SampleTable(f)
  BY <1>1, TableRight
<1>5. Len(table) = all /\ \A k \in 1 .. all : SampleRight(f, k, table[k])
  BY <1>1, <1>2, <1>3, <1>4, TableRight
<1>6. CASE all = 0
  <2>1. table = <<>>
    BY <1>5, <1>6, EmptySeq
  <2> QED BY <1>4, <1>5, <2>1 DEF Begins
<1>7. CASE all # 0
  <2>1. 1 \in 1 .. all
    BY <1>7
  <2>2. table[1].sync
    BY <1>1, <1>5, <2>1 DEF SampleRight
  <2> QED BY <1>4, <1>5, <2>2 DEF Begins
<1> QED BY <1>6, <1>7

\* So does that of an open one.
LEMMA TableBegins ==
  ASSUME KeyframeInv, backend # NoBackend
  PROVE  Begins(samples)
BY TableOfFile DEF KeyframeInv

\* Where samples are read from is where the file has some, or its end.
LEMMA ReadFromTyped ==
  ASSUME KeyframeInv, backend # NoBackend
  PROVE  ReadFrom \in Nat /\ Len(samples) \in Nat
<1>1. SeekCursor(samples, 0) \in Nat /\ Len(samples) \in Nat
  BY TableBegins, SeekLands DEF Begins
<1> QED BY <1>1 DEF ReadFrom, KeyframeInv

\* A decoder that has given a picture is not fresh.
LEMMA PictureUsesReference ==
  ASSUME KeyframeInv, backend # NoBackend, NEW dt, ShowsFrame(dt)
  PROVE  cursor' \in Nat /\ decoder' # Fresh
<1>1. PICK k : k = NextPicture(FeedTo, ReadFrom) /\ cursor' = k + 1
               /\ decoder' = FedThrough(FeedTo, ReadFrom, k) /\ Pictures(FeedTo, ReadFrom) # {}
  BY DEF ShowsFrame
<1>2. ReadFrom \in Nat /\ Len(samples) \in Nat
  BY ReadFromTyped
<1>3. Pictures(FeedTo, ReadFrom) \subseteq Nat
  BY <1>2 DEF Pictures
<1>4. k \in Pictures(FeedTo, ReadFrom)
  <2>1. \E x \in Pictures(FeedTo, ReadFrom) : \A y \in Pictures(FeedTo, ReadFrom) : x <= y
    BY <1>1, <1>3, HasLeast
  <2> QED BY <1>1, <2>1 DEF NextPicture, Min
<1>5. FedThrough(FeedTo, ReadFrom, k).ref
  BY <1>4 DEF Pictures
<1>6. k \in Nat
  BY <1>3, <1>4
<1>7. ~Fresh.ref
  BY DEF Fresh
<1> QED BY <1>1, <1>5, <1>6, <1>7

\* A demuxer that is set back, with a decoder of before or without one.
LEMMA SetBackKeeps ==
  ASSUME KeyframeInv, backend # NoBackend, NEW position,
         cursor' = cursor \/ cursor' = SeekCursor(samples, position),
         UNCHANGED <<file, backend, samples, decoder, unread>>
  PROVE  KeyframeInv'
<1>1. Begins(samples)
  BY TableBegins
<1>2. Len(<<>>) + 1 = 1
  OBVIOUS
<1>3. CASE cursor' = cursor
  BY <1>3 DEF KeyframeInv
<1>4. CASE cursor' = SeekCursor(samples, position)
  <2>1. /\ cursor' \in Nat
        /\ samples[cursor'].sync \/ (samples = <<>> /\ cursor' = 1)
    BY <1>1, <1>4, SeekLands
  <2> QED BY <1>2, <2>1 DEF KeyframeInv
<1> QED BY <1>3, <1>4

\* The other outcomes of decode_frame.
LEMMA DecodeKeeps ==
  ASSUME KeyframeInv, NEW dt \in Dts, DecodeFrame(dt)
  PROVE  KeyframeInv'
<1>1. backend # NoBackend /\ UNCHANGED <<file, backend, samples>>
  BY DEF DecodeFrame
<1>2. CASE Waits(dt) \/ Ends(dt) \/ StillFails(dt)
  <2>1. UNCHANGED <<cursor, decoder, unread>>
    BY <1>2 DEF Waits, Ends, StillFails
  <2> QED BY <1>1, <2>1 DEF KeyframeInv
<1>3. CASE ShowsFrame(dt)
  BY <1>1, <1>3, PictureUsesReference DEF KeyframeInv
<1>4. CASE RunsOut(dt)
  <2>1. cursor' = Len(samples) + 1
    BY <1>4 DEF RunsOut
  <2>2. Len(samples) \in Nat
    BY <1>1, ReadFromTyped
  <2> QED BY <1>1, <2>1, <2>2 DEF KeyframeInv
<1>5. CASE ReadFails(dt)
  <2>1. unread' /\ \E k \in ReadFrom .. Len(samples) : cursor' = k + 1
    BY <1>5 DEF ReadFails
  <2>2. cursor' \in Nat
    BY <1>1, <2>1, ReadFromTyped
  <2> QED BY <1>1, <2>1, <2>2 DEF KeyframeInv
<1>6. CASE RewindFails(dt)
  <2>1. /\ cursor' = cursor \/ cursor' = SeekCursor(samples, 0)
        /\ UNCHANGED <<decoder, unread>>
    BY <1>6 DEF RewindFails
  <2> QED BY <1>1, <2>1, SetBackKeeps
<1> QED BY <1>2, <1>3, <1>4, <1>5, <1>6 DEF DecodeFrame

\* A seek, of either backend.
LEMMA SeekKeeps ==
  ASSUME KeyframeInv, NEW position, Seek(position)
  PROVE  KeyframeInv'
<1>1. /\ backend # NoBackend /\ UNCHANGED <<file, backend, samples>>
      /\ cursor' = 1 \/ cursor' = SeekCursor(samples, position)
  BY DEF Seek
<1>2. Begins(samples)
  BY <1>1, TableBegins
<1>3. /\ cursor' \in Nat
      /\ samples[cursor'].sync \/ (samples = <<>> /\ cursor' = 1)
  BY <1>1, <1>2, SeekLands DEF Begins
<1>4. Len(<<>>) + 1 = 1
  OBVIOUS
<1> QED BY <1>1, <1>3, <1>4 DEF KeyframeInv

\* The invariant of the session: the demuxer is set back with the decoder, by every
\* seek and every loop.
THEOREM KeyframeInvariance == VideoSpec => []KeyframeInv
<1>1. VideoInit => KeyframeInv
  BY DEF VideoInit, KeyframeInv
<1>2. KeyframeInv /\ [VideoNext]_videoVars => KeyframeInv'
  <2> SUFFICES ASSUME KeyframeInv, [VideoNext]_videoVars
               PROVE  KeyframeInv'
    OBVIOUS
  <2>1. ASSUME NEW handle, NEW preferred, NEW fallback, NEW looping,
               Open(handle, preferred, fallback, looping)
        PROVE  KeyframeInv'
    <3>1. /\ backend = NoBackend /\ backend' # NoBackend
          /\ file.tracks # <<>> /\ samples' = SampleTable(file)
          /\ UNCHANGED <<file, cursor, decoder, unread>>
      BY <2>1 DEF Open
    <3>2. cursor' = 1 /\ file \in Files
      BY <3>1 DEF KeyframeInv
    <3>3. samples'[1].sync \/ samples' = <<>>
      BY <3>1, <3>2, TableOfFile DEF Begins
    <3>4. Len(<<>>) + 1 = 1
      OBVIOUS
    <3> QED BY <3>1, <3>2, <3>3, <3>4 DEF KeyframeInv
  <2>2. ASSUME NEW dt \in Dts, DecodeFrame(dt)
        PROVE  KeyframeInv'
    BY <2>2, DecodeKeeps
  <2>3. ASSUME NEW position, Seek(position)
        PROVE  KeyframeInv'
    BY <2>3, SeekKeeps
  <2>5. ASSUME NEW position, SeekFails(position)
        PROVE  KeyframeInv'
    <3>1. /\ backend # NoBackend /\ UNCHANGED <<file, backend, samples, decoder, unread>>
          /\ cursor' = cursor \/ cursor' = SeekCursor(samples, position)
      BY <2>5 DEF SeekFails
    <3> QED BY <3>1, SetBackKeeps
  <2>4. CASE \/ \E dt \in Dts : TickBackground(dt)
             \/ \E looping \in BOOLEAN : SetLooping(looping)
             \/ PauseOrResume \/ KeyM \/ UNCHANGED videoVars
    <3>1. UNCHANGED <<file, backend, samples, cursor, decoder, unread, status>>
      BY <2>4 DEF TickBackground, SetLooping, PauseOrResume, KeyM, videoVars
    <3> QED BY <3>1 DEF KeyframeInv
  <2> QED BY <2>1, <2>2, <2>3, <2>4, <2>5 DEF VideoNext
<1> QED BY <1>1, <1>2, PTL DEF VideoSpec

\* software.rs recreates the decoder for a loop and for a seek, and sets the demuxer
\* to a keyframe with it: its first packet is one, wherever the clock is and whatever
\* has been read before, for any files that begin with one.
THEOREM DecoderBeginsWithKeyframe == VideoSpec => []FreshDecoderGetsKeyframe
<1>1. KeyframeInv => FreshDecoderGetsKeyframe
  <2> SUFFICES ASSUME KeyframeInv, backend # NoBackend, FeedTo = Fresh, unread => Rewinds
               PROVE  \/ ReadFrom = Len(samples) + 1 /\ (Rewinds => samples = <<>>)
                      \/ samples[ReadFrom].sync
    BY DEF FreshDecoderGetsKeyframe
  <2>1. CASE Rewinds
    <3>1. ReadFrom = SeekCursor(samples, 0)
      BY <2>1 DEF ReadFrom
    <3>2. \/ samples[SeekCursor(samples, 0)].sync
          \/ samples = <<>> /\ SeekCursor(samples, 0) = 1
      BY TableBegins, SeekLands
    <3>3. Len(<<>>) + 1 = 1
      OBVIOUS
    <3> QED BY <3>1, <3>2, <3>3
  <2>2. CASE ~Rewinds
    BY <2>2 DEF ReadFrom, FeedTo, KeyframeInv
  <2> QED BY <2>1, <2>2
<1> QED BY <1>1, KeyframeInvariance, PTL

\* mp4.rs builds the sample table of any file from its boxes as the sums of the boxes
\* say: every sample is where the sizes before it in its chunk end, and begins when
\* the durations before it are over, whatever the chunks and runs are.
THEOREM TableSound == VideoSpec => []TableMatchesBoxes
<1>1. KeyframeInv => TableMatchesBoxes
  <2> SUFFICES ASSUME KeyframeInv, backend # NoBackend
               PROVE  /\ Len(samples) = Min({Len(Sizes(file)), HeldUpTo(file, Len(file.stco))})
                      /\ \A k \in 1 .. Len(samples) :
                           /\ samples[k].dts = DurationsUpTo(file, k - 1)
                           /\ LET c == ChunkOf(file, k)
                              IN samples[k].offset
                                   = file.stco[c] + SumUpTo(Sizes(file), k - 1)
                                       - SumUpTo(Sizes(file), HeldUpTo(file, c - 1))
    BY DEF TableMatchesBoxes
  <2>1. file \in Files /\ file.tracks # <<>> /\ samples = SampleTable(file)
    BY DEF KeyframeInv
  <2>2. WellFormed(file)
    BY <2>1, FilesAssumption
  <2>3. PICK N \in Nat, Z \in Nat : N = HeldUpTo(file, Len(file.stco)) /\ Z = Len(Sizes(file))
    <3>1. Len(file.stco) \in 0 .. Len(file.stco)
      BY <2>2, ChunksHold
    <3> QED BY <2>2, <3>1, ChunksHold, DurationsAdd
  <2>4. PICK all \in Nat : all = (IF N <= Z THEN N ELSE Z) /\ all <= N
    OBVIOUS
  <2>5. Len(samples) = all /\ \A k \in 1 .. all : SampleRight(file, k, samples[k])
    BY <2>1, <2>2, <2>3, <2>4, TableRight
  <2>6. Min({Z, N}) = all
    <3>1. all \in {Z, N} /\ \A y \in {Z, N} : all <= y
      BY <2>4
    <3>2. \A x \in {Z, N} : (\A y \in {Z, N} : x <= y) => x = all
      BY <3>1
    <3> QED BY <3>1, <3>2 DEF Min
  <2>7. ASSUME NEW k \in 1 .. all
        PROVE  ChunkOf(file, k) = Slots(file)[k]
    <3>1. PICK C \in Nat : C = Len(file.stco) /\ DOMAIN file.stco = 1 .. C
      BY <2>2 DEF WellFormed
    <3>2. PICK c : c = Slots(file)[k]
      OBVIOUS
    <3>3. k \in 1 .. Len(Slots(file)) /\ k \in Nat
      BY <2>2, <2>3, <2>4, SlotsOfChunks
    <3>4. c \in 1 .. C /\ HeldUpTo(file, c - 1) < k /\ k <= HeldUpTo(file, c)
      BY <2>2, <3>1, <3>2, <3>3, SlotsOfChunks
    <3> DEFINE T == {d \in DOMAIN file.stco : k <= HeldUpTo(file, d)}
    <3>5. c \in T
      BY <3>1, <3>4
    <3>6. ASSUME NEW d \in T PROVE c <= d
      <4>1. d \in 1 .. C /\ k <= HeldUpTo(file, d)
        BY <3>1
      <4>2. SUFFICES ASSUME ~(c <= d) PROVE FALSE
        OBVIOUS
      <4>3. d \in 0 .. C /\ c - 1 \in 0 .. C /\ d <= c - 1
        BY <3>4, <4>1, <4>2
      <4>4. HeldUpTo(file, d) <= HeldUpTo(file, c - 1)
        BY <2>2, <3>1, <4>3, ChunksHold
      <4>5. HeldUpTo(file, d) \in Nat /\ HeldUpTo(file, c - 1) \in Nat
        BY <2>2, <3>1, <4>3, ChunksHold
      <4> QED BY <3>3, <3>4, <4>1, <4>4, <4>5
    <3>7. \A d \in T : d \in Nat
      BY <3>1
    <3> HIDE DEF T
    <3>8. \A x \in T : (\A y \in T : x <= y) => x = c
      BY <3>4, <3>5, <3>6, <3>7
    <3>9. Min(T) = c
      BY <3>5, <3>6, <3>8 DEF Min
    <3> QED BY <3>2, <3>9 DEF ChunkOf, T
  <2>8. \A k \in 1 .. all :
          /\ samples[k].dts = DurationsUpTo(file, k - 1)
          /\ samples[k].offset = EndOf(file, k, k - 1)
    BY <2>5 DEF SampleRight
  <2>9. \A k \in 1 .. all :
          LET c == ChunkOf(file, k)
          IN samples[k].offset = file.stco[c] + SumUpTo(Sizes(file), k - 1)
                                   - SumUpTo(Sizes(file), HeldUpTo(file, c - 1))
    BY <2>7, <2>8 DEF EndOf
  <2> QED BY <2>3, <2>5, <2>6, <2>8, <2>9
<1> QED BY <1>1, KeyframeInvariance, PTL

\* A whole sample is a picture once there is a reference, and a whole keyframe is one.
LEMMA WholeIsPicture ==
  ASSUME KeyframeInv, backend # NoBackend, NEW d, NEW from \in Nat,
         NEW k \in from .. Len(samples), k \notin file.cut,
         d.ref \/ \E m \in from .. k : samples[m].sync /\ m \notin file.cut
  PROVE  k \in Pictures(d, from)
<1>1. ASSUME NEW m, m \notin file.cut
      PROVE  AvccToAnnexB(Stored(file, samples, m))
               = <<IF samples[m].sync THEN "idr" ELSE "slice">>
  <2> DEFINE kind == IF samples[m].sync THEN "idr" ELSE "slice"
             nals == <<[kind |-> kind, whole |-> TRUE]>>
             whole == {n \in 1 .. Len(nals) : \A j \in 1 .. n : nals[j].whole}
  <2>1. Stored(file, samples, m) = nals
    BY <1>1 DEF Stored
  <2>2. Len(nals) = 1 /\ nals[1].whole /\ nals[1].kind = kind
    OBVIOUS
  <2>3. whole = {1}
    BY <2>2
  <2>4. Cardinality(whole) = 1
    <3>1. Cardinality({1}) = 1
      BY FS_Singleton
    <3> QED BY <2>3, <3>1
  <2>5. AvccToAnnexB(nals) = [n \in 1 .. 1 |-> nals[n].kind]
    BY <2>4 DEF AvccToAnnexB
  <2>6. [n \in 1 .. 1 |-> nals[n].kind] = <<kind>>
    BY <2>2
  <2> QED BY <2>1, <2>5, <2>6
<1>2. ASSUME NEW m, m \notin file.cut
      PROVE  /\ samples[m].sync => {"sps", "idr"} \subseteq ToSet(Packet(file, samples, m))
             /\ ToSet(Packet(file, samples, m)) \cap {"idr", "slice"} # {}
  <2>1. CASE samples[m].sync
    <3>1. Packet(file, samples, m) = <<"sps", "pps">> \o <<"idr">>
      BY <1>1, <1>2, <2>1 DEF Packet, ParameterSets
    <3>2. PICK p : p = <<"sps", "pps">> \o <<"idr">>
      OBVIOUS
    <3>3. DOMAIN p = 1 .. 3 /\ p[1] = "sps" /\ p[3] = "idr"
      BY <3>2
    <3>4. 1 \in 1 .. 3 /\ 3 \in 1 .. 3
      OBVIOUS
    <3>5. "sps" \in ToSet(p) /\ "idr" \in ToSet(p)
      BY <3>3, <3>4 DEF ToSet
    <3> QED BY <3>1, <3>2, <3>5
  <2>2. CASE ~samples[m].sync
    <3>1. Packet(file, samples, m) = <<>> \o <<"slice">>
      BY <1>1, <1>2, <2>2 DEF Packet
    <3>2. PICK p : p = <<>> \o <<"slice">>
      OBVIOUS
    <3>3. DOMAIN p = 1 .. 1 /\ p[1] = "slice"
      BY <3>2
    <3>4. "slice" \in ToSet(p)
      BY <3>3 DEF ToSet
    <3> QED BY <2>2, <3>1, <3>2, <3>4
  <2> QED BY <2>1, <2>2
<1>3. Len(samples) \in Nat
  BY TableBegins DEF Begins
<1>4. FedThrough(d, from, k).ref
  <2>1. CASE d.ref
    BY <2>1 DEF FedThrough
  <2>2. ASSUME NEW m \in from .. k, samples[m].sync, m \notin file.cut
        PROVE  FedThrough(d, from, k).ref
    <3>1. {"sps", "idr"} \subseteq ToSet(Packet(file, samples, m)) /\ m <= m
      BY <1>2, <2>2
    <3> QED BY <3>1 DEF FedThrough
  <2> QED BY <2>1, <2>2
<1> QED BY <1>2, <1>4 DEF Pictures

\* The software decoder is given the samples one after the other: until the demuxer
\* is set back, the picture shown is the next that can be decoded, for any files, any
\* clock and any cut samples.
THEOREM PicturesInOrder == VideoSpec => NoPictureSkipped
<1> DEFINE Step == (status' = "NewFrame" /\ frame' # frame /\ ~ended) =>
             /\ frame' >= cursor
             /\ \A k \in cursor .. frame' - 1 :
                  k \in file.cut
                    \/ ~(decoder.ref \/ \E m \in cursor .. k : samples[m].sync /\ m \notin file.cut)
<1>1. KeyframeInv /\ [VideoNext]_videoVars => [Step]_videoVars
  <2> SUFFICES ASSUME KeyframeInv, VideoNext, status' = "NewFrame", frame' # frame, ~ended
               PROVE  /\ frame' >= cursor
                      /\ \A k \in cursor .. frame' - 1 :
                           k \in file.cut
                             \/ ~(decoder.ref
                                   \/ \E m \in cursor .. k : samples[m].sync /\ m \notin file.cut)
    OBVIOUS
  <2>1. PICK dt \in Dts : ShowsFrame(dt) /\ backend # NoBackend
    <3>1. ASSUME NEW dt \in Dts, DecodeFrame(dt) PROVE ShowsFrame(dt) /\ backend # NoBackend
      BY <3>1 DEF DecodeFrame, Waits, Ends, RunsOut, ReadFails, RewindFails, StillFails
    <3>2. ASSUME NEW dt \in Dts, TickBackground(dt) PROVE FALSE
      BY <3>2 DEF TickBackground, KeyframeInv
    <3>3. ASSUME NEW handle, NEW preferred, NEW fallback, NEW looping,
                 Open(handle, preferred, fallback, looping)
          PROVE  FALSE
      BY <3>3 DEF Open
    <3>4. ASSUME NEW position, Seek(position) \/ SeekFails(position) PROVE FALSE
      BY <3>4 DEF Seek, SeekFails
    <3>5. ASSUME NEW looping, SetLooping(looping) PROVE FALSE
      BY <3>5 DEF SetLooping
    <3>6. CASE PauseOrResume \/ KeyM
      BY <3>6 DEF PauseOrResume, KeyM
    <3> QED BY <3>1, <3>2, <3>3, <3>4, <3>5, <3>6 DEF VideoNext
  <2>2. FeedTo = decoder /\ ReadFrom = cursor
    BY DEF FeedTo, ReadFrom, Rewinds
  <2>3. cursor \in Nat /\ Len(samples) \in Nat
    BY <2>1, <2>2, ReadFromTyped
  <2>4. PICK P : P = Pictures(decoder, cursor)
    OBVIOUS
  <2>5. P # {} /\ frame' = Min(P)
    BY <2>1, <2>2, <2>4 DEF ShowsFrame, NextPicture
  <2>6. \A j \in P : j \in cursor .. Len(samples)
    BY <2>4 DEF Pictures
  <2>7. frame' \in P /\ \A j \in P : frame' <= j
    <3>1. P \subseteq Nat
      BY <2>3, <2>6
    <3>2. \E x \in P : \A y \in P : x <= y
      BY <2>5, <3>1, HasLeast
    <3> QED BY <2>5, <3>2 DEF Min
  <2>8. PICK c \in Nat, n \in Nat, L \in Nat :
          c = cursor /\ n = frame' /\ L = Len(samples) /\ c <= n /\ n <= L
    BY <2>3, <2>6, <2>7
  <2>9. ASSUME NEW k \in cursor .. frame' - 1, k \notin file.cut,
               decoder.ref \/ \E m \in cursor .. k : samples[m].sync /\ m \notin file.cut
        PROVE  FALSE
    <3>1. k \in cursor .. Len(samples) /\ k < n
      <4>1. k \in c .. n - 1
        BY <2>8, Zenon
      <4>4. n <= L
        BY <2>8
      <4>2. k \in c .. L /\ k < n
        BY <4>1, <4>4
      <4>3. c .. L = cursor .. Len(samples)
        BY <2>8, Zenon
      <4> QED BY <4>2, <4>3, Zenon
    <3>2. k \in P
      BY <2>1, <2>3, <2>4, <2>9, <3>1, WholeIsPicture
    <3>3. n <= k /\ k \in Nat
      <4>1. k \in c .. L
        BY <2>8, <3>1
      <4> QED BY <2>7, <2>8, <3>2, <4>1
    <3> QED BY <3>1, <3>3
  <2>10. frame' >= cursor
    BY <2>8
  <2> QED BY <2>9, <2>10
<1>2. KeyframeInv /\ [VideoNext]_videoVars
        => [(status' = "NewFrame" /\ frame' # frame /\ ~ended) =>
              /\ frame' >= cursor
              /\ \A k \in cursor .. frame' - 1 :
                   k \in file.cut
                     \/ ~(decoder.ref \/ \E m \in cursor .. k : samples[m].sync /\ m \notin file.cut)]_videoVars
  BY <1>1
<1> HIDE DEF Step
<1> QED BY <1>2, KeyframeInvariance, PTL DEF VideoSpec, NoPictureSkipped

-----------------------------------------------------------------------------
(* The picture *)

\* The delays of a GIF: each at least the shortest, and their sums.
LEMMA DelaysAdd ==
  ASSUME file \in Files, file.tracks = <<>>
  PROVE  /\ Len(file.delays) \in Nat
         /\ \A k \in 1 .. Len(file.delays) : Delay(k) \in Nat \ {0}
         /\ DelaysUpTo(0) = 0
         /\ \A k \in 0 .. Len(file.delays) : DelaysUpTo(k) \in Nat
         /\ \A k \in 1 .. Len(file.delays) : DelaysUpTo(k) = DelaysUpTo(k - 1) + Delay(k)
         /\ Len(file.delays) > 0 => TotalDelay \in Nat \ {0}
<1>1. file.delays \in Seq(Nat) /\ ShortestDelay \in Nat \ {0}
  BY FilesAssumption, VideoAssumption
<1>2. Len(file.delays) \in Nat /\ DOMAIN file.delays = 1 .. Len(file.delays)
  BY <1>1
<1>3. ASSUME NEW k \in 1 .. Len(file.delays) PROVE Delay(k) \in Nat \ {0}
  <2>1. file.delays[k] \in Nat
    BY <1>1
  <2>2. \A a, b \in Nat : \E x \in {a, b} : \A y \in {a, b} : x >= y
    OBVIOUS
  <2>3. PICK x \in {file.delays[k], ShortestDelay} :
          \A y \in {file.delays[k], ShortestDelay} : x >= y
    BY <1>1, <2>1, <2>2
  <2>4. /\ Delay(k) \in {file.delays[k], ShortestDelay}
        /\ \A y \in {file.delays[k], ShortestDelay} : Delay(k) >= y
    BY <2>3 DEF Delay, Max
  <2> QED BY <1>1, <2>1, <2>4
<1> DEFINE s == [k \in DOMAIN file.delays |-> Delay(k)]
<1>4. \A k \in 1 .. Len(file.delays) : s[k] = Delay(k) /\ s[k] \in Nat
  BY <1>2, <1>3
<1>5. \A n \in Nat : DelaysUpTo(n) = SumUpTo(s, n)
  BY DEF DelaysUpTo
<1> HIDE DEF s
<1>6. /\ SumUpTo(s, 0) = 0
      /\ \A n \in 0 .. Len(file.delays) : SumUpTo(s, n) \in Nat
      /\ \A n \in 1 .. Len(file.delays) : SumUpTo(s, n) = SumUpTo(s, n - 1) + s[n]
  BY <1>2, <1>4, SumsAdd
<1>7. \A n \in 0 .. Len(file.delays) : DelaysUpTo(n) = SumUpTo(s, n)
  BY <1>2, <1>5
<1>8. \A k \in 1 .. Len(file.delays) : DelaysUpTo(k) = DelaysUpTo(k - 1) + Delay(k)
  <2>1. \A k \in 1 .. Len(file.delays) : k - 1 \in 0 .. Len(file.delays) /\ k \in 0 .. Len(file.delays)
    BY <1>2
  <2> QED BY <1>4, <1>6, <1>7, <2>1
<1>9. Len(file.delays) > 0 => TotalDelay \in Nat \ {0}
  <2> SUFFICES ASSUME Len(file.delays) > 0 PROVE TotalDelay \in Nat \ {0}
    OBVIOUS
  <2>1. PICK n \in 1 .. Len(file.delays) : n = Len(file.delays)
    BY <1>2
  <2>2. n - 1 \in 0 .. Len(file.delays)
    BY <1>2
  <2>3. DelaysUpTo(n - 1) \in Nat /\ Delay(n) \in Nat \ {0}
    BY <1>3, <1>6, <1>7, <2>2
  <2>4. TotalDelay = DelaysUpTo(n - 1) + Delay(n)
    BY <1>8, <2>1 DEF TotalDelay
  <2> QED BY <2>3, <2>4
<1> QED BY <1>2, <1>3, <1>6, <1>7, <1>8, <1>9

InTime == \A k \in DOMAIN file.delays, dt \in Dts : dt <= Delay(k)

\* A GIF that is shown: its time is that of the picture and what it has been there.
Shown ==
  /\ frame \in 0 .. Len(file.delays) - 1
  /\ playback \in [position : Nat, elapsed : Nat, looping : BOOLEAN, paused : BOOLEAN]
  /\ (DelaysUpTo(frame) + playback.elapsed) % TotalDelay = playback.position
  /\ InTime => playback.elapsed < Delay(frame + 1)

PictureInv ==
  /\ file \in Files
  /\ file.tracks = <<>> => backend = NoBackend
  /\ backend = NoBackend => texture = NoTexture
  /\ backend = NoBackend /\ file.tracks # <<>> => frame = 0
  /\ texture \in {NoTexture, frame}
  /\ file.tracks = <<>> /\ Len(file.delays) > 1 => Shown

\* The app's tick: to the same picture, the next or the first.
LEMMA TickKeeps ==
  ASSUME PictureInv, NEW dt \in Dts, TickBackground(dt)
  PROVE  PictureInv'
<1>1. /\ backend = NoBackend /\ file.tracks = <<>> /\ Len(file.delays) > 1
      /\ UNCHANGED <<file, backend, texture>> /\ file \in Files
  BY DEF TickBackground, background, PictureInv
<1>2. Shown
  BY <1>1 DEF PictureInv
<1>3. dt \in Nat
  BY VideoAssumption
<1>4. PICK N \in Nat : N = Len(file.delays) /\ N > 1
  BY <1>1, DelaysAdd
<1>5. PICK T \in Nat \ {0} : T = TotalDelay
  BY <1>1, DelaysAdd
<1>6. PICK k \in 0 .. N - 1 : k = frame
  BY <1>2, <1>4 DEF Shown
<1>7. PICK e \in Nat, p \in Nat : e = playback.elapsed /\ p = playback.position
  BY <1>2 DEF Shown
<1>8. PICK d \in Nat \ {0} : d = Delay(k + 1)
  <2>1. k + 1 \in 1 .. N
    OBVIOUS
  <2> QED BY <2>1, <1>1, <1>4, DelaysAdd
<1>9. PICK a \in Nat : a = DelaysUpTo(k)
  <2>1. k \in 0 .. N
    OBVIOUS
  <2> QED BY <2>1, <1>1, <1>4, DelaysAdd
<1>10. (a + e) % T = p /\ (InTime => e < d)
  BY <1>2, <1>5, <1>6, <1>7, <1>8, <1>9 DEF Shown
<1>11. DelaysUpTo(0) = 0 /\ DelaysUpTo(k + 1) = a + d /\ (k + 1 = N => T = a + d)
  <2>1. k + 1 \in 1 .. N /\ (k + 1) - 1 = k
    OBVIOUS
  <2>2. DelaysUpTo(k + 1) = DelaysUpTo((k + 1) - 1) + Delay(k + 1)
    BY <2>1, <1>1, <1>4, DelaysAdd
  <2> QED BY <2>1, <2>2, <1>1, <1>4, <1>5, <1>8, <1>9, DelaysAdd DEF TotalDelay
<1>12. PICK next : next = Tick(e + dt)
  OBVIOUS
<1>13. frame' = next.frame
       /\ playback' = [playback EXCEPT !.elapsed = next.elapsed, !.position = (p + dt) % T]
  BY <1>5, <1>7, <1>12 DEF TickBackground
<1>14. (p + dt) % T = ((a + e) + dt) % T
  <2>1. PICK b \in Nat : b = a + e
    OBVIOUS
  <2>2. ((b % T) + dt) % T = (b + dt) % T
    BY <1>3, TurnOn
  <2> QED BY <1>10, <2>1, <2>2
<1>15. (p + dt) % T \in Nat
  BY <1>3
<1>16. \A j \in 1 .. N : InTime => dt <= Delay(j)
  BY <1>1, <1>4, FilesAssumption DEF InTime
<1> DEFINE On(f, el) ==
      /\ f \in 0 .. N - 1 /\ el \in Nat
      /\ (DelaysUpTo(f) + el) % T = (p + dt) % T
      /\ InTime => el < Delay(f + 1)
<1>17. On(next.frame, next.elapsed)
  <2>1. CASE e + dt < d
    <3>1. next.frame = k /\ next.elapsed = e + dt
      BY <2>1, <1>6, <1>8, <1>12 DEF Tick
    <3>2. a + (e + dt) = (a + e) + dt /\ e + dt \in Nat
      BY <1>3
    <3> QED BY <2>1, <3>1, <3>2, <1>8, <1>9, <1>14
  <2>2. CASE ~(e + dt < d)
    <3>1. next.frame = (k + 1) % N /\ next.elapsed = (e + dt) - d
      BY <2>2, <1>4, <1>6, <1>8, <1>12 DEF Tick
    <3>2. PICK left \in Nat : left = (e + dt) - d
      BY <2>2, <1>3
    <3>3. InTime => left < dt
      BY <1>3, <1>10, <3>2
    <3>4. CASE k + 1 < N
      <4>1. (k + 1) % N = k + 1 /\ k + 1 \in 0 .. N - 1 /\ (k + 1) + 1 \in 1 .. N
        BY <3>4
      <4>2. DelaysUpTo(k + 1) + left = (a + e) + dt
        BY <1>3, <1>11, <3>2
      <4>3. Delay((k + 1) + 1) \in Nat
        BY <4>1, <1>1, <1>4, DelaysAdd
      <4>4. InTime => left < Delay((k + 1) + 1)
        BY <1>3, <1>16, <3>3, <4>1, <4>3
      <4> QED BY <3>1, <3>2, <4>1, <4>2, <4>4, <1>14
    <3>5. CASE k + 1 = N
      <4>1. (k + 1) % N = 0 /\ 0 \in 0 .. N - 1 /\ 0 + 1 \in 1 .. N
        BY <3>5
      <4>2. T + left = (a + e) + dt
        BY <1>3, <1>11, <3>2, <3>5
      <4>3. (0 + left) % T = ((a + e) + dt) % T
        <5>1. (T + left) % T = left % T
          BY TurnOn
        <5>2. 0 + left = left
          OBVIOUS
        <5> QED BY <4>2, <5>1, <5>2
      <4>4. Delay(0 + 1) \in Nat
        BY <4>1, <1>1, <1>4, DelaysAdd
      <4>5. InTime => left < Delay(0 + 1)
        BY <1>3, <1>16, <3>3, <4>1, <4>4
      <4> QED BY <3>1, <3>2, <4>1, <4>3, <4>5, <1>11, <1>14
    <3> QED BY <3>4, <3>5
  <2> QED BY <2>1, <2>2
<1>18. Shown'
  <2>1. /\ playback' \in [position : Nat, elapsed : Nat, looping : BOOLEAN, paused : BOOLEAN]
        /\ playback'.elapsed = next.elapsed /\ playback'.position = (p + dt) % T
    BY <1>2, <1>13, <1>15, <1>17 DEF Shown
  <2>2. /\ DelaysUpTo(frame)' = DelaysUpTo(frame') /\ TotalDelay' = T
        /\ Delay(frame + 1)' = Delay(frame' + 1) /\ InTime' = InTime /\ Len(file'.delays) = N
    BY <1>1, <1>4, <1>5 DEF DelaysUpTo, TotalDelay, Delay, InTime
  <2>3. On(frame', playback'.elapsed)
    BY <1>13, <1>17, <2>1
  <2> QED BY <2>1, <2>2, <2>3 DEF Shown
<1>19. texture' \in {NoTexture, frame'}
  BY <1>1 DEF PictureInv
<1> QED BY <1>1, <1>18, <1>19 DEF PictureInv

\* What a step does to the picture besides: nothing, unless one is decoded.
LEMMA PictureStays ==
  ASSUME PictureInv, UNCHANGED <<file, backend, frame, playback>>, texture' \in {NoTexture, texture}
  PROVE  PictureInv'
<1>1. Shown => Shown'
  <2>1. UNCHANGED <<DelaysUpTo(frame), TotalDelay, Delay(frame + 1), InTime>>
    BY DEF DelaysUpTo, TotalDelay, Delay, InTime
  <2> QED BY <2>1 DEF Shown
<1> QED BY <1>1 DEF PictureInv

\* The invariant of the picture: a GIF's time is that of its picture and what it has
\* been there, and nothing else is in the texture.
THEOREM PictureInvariance == VideoSpec => []PictureInv
<1>1. VideoInit => PictureInv
  <2> SUFFICES ASSUME VideoInit PROVE PictureInv
    OBVIOUS
  <2>1. /\ file \in Files /\ backend = NoBackend /\ texture = NoTexture /\ frame = 0
        /\ playback = [position |-> 0, elapsed |-> 0, looping |-> FALSE, paused |-> FALSE]
    BY DEF VideoInit
  <2>2. ASSUME file.tracks = <<>>, Len(file.delays) > 1 PROVE Shown
    <3>1. /\ DelaysUpTo(0) = 0 /\ Len(file.delays) \in Nat
          /\ \A k \in 1 .. Len(file.delays) : Delay(k) \in Nat \ {0}
      BY <2>1, <2>2, DelaysAdd
    <3>2. PICK T \in Nat \ {0} : T = TotalDelay
      BY <2>1, <2>2, DelaysAdd
    <3>3. (0 + 0) % T = 0 /\ 0 + 1 \in 1 .. Len(file.delays) /\ 0 \in 0 .. Len(file.delays) - 1
      BY <2>2, <3>1
    <3>4. 0 < Delay(0 + 1)
      BY <3>1, <3>3
    <3> QED BY <2>1, <3>1, <3>2, <3>3, <3>4 DEF Shown
  <2> QED BY <2>1, <2>2 DEF PictureInv
<1>2. PictureInv /\ [VideoNext]_videoVars => PictureInv'
  <2> SUFFICES ASSUME PictureInv, [VideoNext]_videoVars PROVE PictureInv'
    OBVIOUS
  <2>1. ASSUME NEW handle, NEW preferred, NEW fallback, NEW looping,
               Open(handle, preferred, fallback, looping)
        PROVE  PictureInv'
    <3>1. /\ backend = NoBackend /\ file.tracks # <<>> /\ backend' # NoBackend
          /\ texture' = 0 /\ UNCHANGED <<file, frame>>
      BY <2>1 DEF Open, SetBackgroundVideo
    <3> QED BY <3>1 DEF PictureInv
  <2>2. ASSUME NEW dt \in Dts, DecodeFrame(dt) PROVE PictureInv'
    <3>1. backend # NoBackend /\ UNCHANGED <<file, backend>> /\ file.tracks # <<>>
      BY <2>2 DEF DecodeFrame, PictureInv
    <3>2. status' = "NewFrame" \/ frame' = frame
      BY <2>2 DEF DecodeFrame, Waits, Ends, ShowsFrame, RunsOut, ReadFails, RewindFails,
                  StillFails
    <3>3. texture' \in {NoTexture, frame'}
      BY <2>2, <3>2 DEF DecodeFrame, UpdateVideoFrame, PictureInv
    <3> QED BY <3>1, <3>3 DEF PictureInv
  <2>3. ASSUME NEW dt \in Dts, TickBackground(dt) PROVE PictureInv'
    BY <2>3, TickKeeps
  <2>4. CASE \/ \E position \in 0 .. file.duration + 1 : Seek(position) \/ SeekFails(position)
             \/ \E looping \in BOOLEAN : SetLooping(looping)
             \/ PauseOrResume
    <3>1. backend # NoBackend /\ UNCHANGED <<file, backend, frame, texture>> /\ file.tracks # <<>>
      BY <2>4 DEF Seek, SeekFails, SetLooping, PauseOrResume, background, PictureInv
    <3> QED BY <3>1 DEF PictureInv
  <2>5. CASE KeyM \/ UNCHANGED videoVars
    <3>1. UNCHANGED <<file, backend, frame, playback>> /\ texture' \in {NoTexture, texture}
      BY <2>5 DEF KeyM, videoVars, background
    <3> QED BY <3>1, PictureStays
  <2> QED BY <2>1, <2>2, <2>3, <2>4, <2>5 DEF VideoNext
<1> QED BY <1>1, <1>2, PTL DEF VideoSpec

\* A video's picture is the one decoded last, and a GIF's the one its time falls in:
\* update_frame and BgImage::tick keep the time that is over, for any delays, any
\* frame times and any order of calls and keys.
THEOREM PictureKeepsTime == VideoSpec => []PictureOnTime
<1>1. PictureInv => PictureOnTime
  BY DEF PictureInv, Shown, InTime, PictureOnTime
<1> QED BY <1>1, PictureInvariance, PTL

-----------------------------------------------------------------------------
(* The types of the session *)

Clocks == [position : Nat, elapsed : 0 .. MaxTime, looping : BOOLEAN, paused : BOOLEAN]
SessionClocks ==
  [position : 0 .. MaxTime, elapsed : 0 .. MaxTime, looping : BOOLEAN, paused : BOOLEAN]

VideoTyped ==
  /\ VideoTypeOK
  /\ backend = NoBackend => samples = <<>>
  /\ playback \in Clocks
  /\ backend # NoBackend => playback \in SessionClocks

\* A seek ends at a sample of the table.
LEMMA SeekInTable ==
  ASSUME NEW table, Begins(table), NEW position
  PROVE  SeekCursor(table, position) \in 1 .. Len(table) + 1
<1> DEFINE seen == {k \in 1 .. Len(table) : \A m \in 1 .. k : table[m].dts <= position}
           sync == {k \in seen : table[k].sync}
<1>1. SeekCursor(table, position)
        = IF sync = {} THEN 1 ELSE CHOOSE k \in sync : \A m \in sync : m <= k
  BY DEF SeekCursor
<1>2. PICK L \in Nat : L = Len(table)
  BY DEF Begins
<1>3. sync \subseteq 1 .. L /\ sync \subseteq 0 .. L
  BY <1>2
<1>4. CASE sync # {}
  <2>1. \E k \in sync : \A m \in sync : m <= k
    <3> HIDE DEF sync
    <3> QED BY <1>3, <1>4, HasGreatest
  <2>2. (CHOOSE k \in sync : \A m \in sync : m <= k) \in sync
    <3> HIDE DEF sync
    <3> QED BY <2>1
  <2>3. SeekCursor(table, position) \in sync
    <3> HIDE DEF sync
    <3> QED BY <1>1, <1>4, <2>2
  <2>4. SeekCursor(table, position) \in 1 .. L
    <3> HIDE DEF sync
    <3> QED BY <1>3, <2>3
  <2>5. PICK c \in 1 .. L : c = SeekCursor(table, position)
    BY <2>4
  <2>6. c \in 1 .. L + 1
    OBVIOUS
  <2> QED BY <1>2, <2>5, <2>6
<1>5. CASE sync = {}
  BY <1>1, <1>2, <1>5
<1> QED BY <1>4, <1>5

\* The clock goes on to its end, and back by no more than a frame that is over.
LEMMA ClockTyped ==
  ASSUME file \in Files, playback \in SessionClocks, NEW dt \in Dts, Len(samples) \in Nat
  PROVE  /\ Advanced(playback, dt) \in SessionClocks
         /\ Due(dt) => Ticked(dt) \in SessionClocks /\ Wrapped(Ticked(dt)) \in SessionClocks
<1>1. MaxTime \in Nat /\ dt \in Nat /\ file.duration \in Nat /\ FallbackInterval \in Nat
  BY VideoAssumption
<1>2. PICK p \in SessionClocks : p = playback
  OBVIOUS
<1>3. \A t \in Nat : Saturated(t) \in 0 .. MaxTime
  BY <1>1 DEF Saturated
<1>4. PICK a \in 0 .. MaxTime, e \in 0 .. MaxTime :
        a = Saturated(p.position + dt) /\ e = Saturated(p.elapsed + dt)
  <2>1. p.position + dt \in Nat /\ p.elapsed + dt \in Nat
    BY <1>1 DEF SessionClocks
  <2> QED BY <1>3, <2>1
<1>5. PICK q \in SessionClocks : q = Advanced(playback, dt) /\ q.elapsed = e
  <2>1. Advanced(playback, dt) = [p EXCEPT !.position = a, !.elapsed = e]
    BY <1>2, <1>4 DEF Advanced
  <2>2. [p EXCEPT !.position = a, !.elapsed = e] \in SessionClocks
    BY DEF SessionClocks
  <2>3. [p EXCEPT !.position = a, !.elapsed = e].elapsed = e
    BY DEF SessionClocks
  <2> QED BY <2>1, <2>2, <2>3
<1>6. PICK i \in Nat : i = Interval
  <2>1. CASE file.duration > 0 /\ Len(samples) > 0
    <3>1. PICK d \in Nat, n \in Nat \ {0} : d = file.duration /\ n = Len(samples)
      BY <1>1, <2>1
    <3>2. d \div n \in Nat
      OBVIOUS
    <3> QED BY <2>1, <3>1, <3>2 DEF Interval
  <2>2. CASE ~(file.duration > 0 /\ Len(samples) > 0)
    BY <1>1, <2>2 DEF Interval
  <2> QED BY <2>1, <2>2
<1>7. ASSUME Due(dt) PROVE Ticked(dt) \in SessionClocks /\ Wrapped(Ticked(dt)) \in SessionClocks
  <2>1. e >= i
    BY <1>5, <1>6, <1>7 DEF Due
  <2>2. e - i \in 0 .. MaxTime
    <3>1. e \in Nat /\ e <= MaxTime /\ MaxTime \in Nat
      BY <1>1
    <3> QED BY <2>1, <3>1
  <2>3. PICK t : t = Ticked(dt)
    OBVIOUS
  <2>4. t = [q EXCEPT !.elapsed = e - i]
    BY <1>5, <1>6, <2>3 DEF Ticked
  <2>5. t \in SessionClocks
    BY <2>2, <2>4 DEF SessionClocks
  <2>6. [t EXCEPT !.position = 0, !.elapsed = 0] \in SessionClocks
    <3>1. 0 \in 0 .. MaxTime
      BY <1>1
    <3> QED BY <2>5, <3>1 DEF SessionClocks
  <2>7. Wrapped(t) \in SessionClocks
    BY <2>5, <2>6 DEF Wrapped
  <2> QED BY <2>3, <2>5, <2>7
<1> QED BY <1>5, <1>7

\* What a session reads is in the table, from where it reads to the end.
LEMMA ReadsInTable ==
  ASSUME KeyframeInv, VideoTyped, backend # NoBackend
  PROVE  /\ Len(samples) \in Nat /\ ReadFrom \in 1 .. Len(samples) + 1
         /\ Pictures(FeedTo, ReadFrom) # {} => NextPicture(FeedTo, ReadFrom) \in 1 .. Len(samples)
<1>1. PICK L \in Nat : L = Len(samples)
  BY TableBegins DEF Begins
<1>2. PICK r \in 1 .. L + 1 : r = ReadFrom
  <2>1. SeekCursor(samples, 0) \in 1 .. Len(samples) + 1
    BY TableBegins, SeekInTable
  <2>2. cursor \in 1 .. Len(samples) + 1
    BY DEF VideoTyped, VideoTypeOK
  <2> QED BY <1>1, <2>1, <2>2 DEF ReadFrom
<1> DEFINE P == Pictures(FeedTo, ReadFrom)
<1>3. P \subseteq 1 .. L
  <2>1. P \subseteq r .. L
    BY <1>1, <1>2 DEF Pictures
  <2> HIDE DEF P
  <2> QED BY <2>1
<1>4. NextPicture(FeedTo, ReadFrom) = Min(P)
  BY DEF NextPicture
<1> HIDE DEF P
<1>5. P # {} => Min(P) \in P
  <2> SUFFICES ASSUME P # {} PROVE Min(P) \in P
    OBVIOUS
  <2>1. P \subseteq Nat
    BY <1>3
  <2>2. \E x \in P : \A y \in P : x <= y
    BY <2>1, HasLeast
  <2> QED BY <2>2 DEF Min
<1>6. P # {} => NextPicture(FeedTo, ReadFrom) \in 1 .. L
  BY <1>3, <1>4, <1>5
<1> QED BY <1>1, <1>2, <1>6 DEF P


\* decode_frame keeps the types.
LEMMA DecodeTyped ==
  ASSUME KeyframeInv, PictureInv, VideoTyped, NEW dt \in Dts, DecodeFrame(dt)
  PROVE  VideoTyped'
<1>1. /\ backend # NoBackend /\ UNCHANGED <<file, backend, samples, overlay>>
      /\ file \in Files /\ file.tracks # <<>> /\ playback \in SessionClocks
  BY DEF DecodeFrame, VideoTyped, KeyframeInv
<1>2. PICK L \in Nat : L = Len(samples)
  BY <1>1, TableBegins DEF Begins
<1>3. cursor \in 1 .. L + 1 /\ frame \in 0 .. L /\ status \in Statuses /\ overlay \in BOOLEAN
  BY <1>1, <1>2 DEF VideoTyped, VideoTypeOK
<1>4. PICK r \in 1 .. L + 1 : r = ReadFrom
  BY <1>1, <1>2, ReadsInTable
<1>5. cursor' \in 1 .. L + 1 /\ frame' \in 0 .. L /\ status' \in Statuses
  <2>1. CASE Waits(dt) \/ Ends(dt) \/ StillFails(dt)
    BY <2>1, <1>3 DEF Waits, Ends, StillFails, Statuses
  <2>2. CASE ShowsFrame(dt)
    <3>1. PICK k \in 1 .. L : k = NextPicture(FeedTo, ReadFrom)
      BY <2>2, <1>1, <1>2, ReadsInTable DEF ShowsFrame
    <3>2. frame' = k /\ cursor' = k + 1 /\ status' = "NewFrame"
      BY <2>2, <3>1 DEF ShowsFrame
    <3> QED BY <3>2 DEF Statuses
  <2>3. CASE RunsOut(dt)
    <3>1. frame' = frame /\ cursor' = L + 1 /\ status' \in {"Waiting", "EndOfStream"}
      BY <2>3, <1>2 DEF RunsOut
    <3> QED BY <3>1, <1>3 DEF Statuses
  <2>5. CASE RewindFails(dt)
    <3>1. /\ cursor' = cursor \/ cursor' = SeekCursor(samples, 0)
          /\ frame' = frame /\ status' = "Error"
      BY <2>5 DEF RewindFails
    <3>2. SeekCursor(samples, 0) \in 1 .. L + 1
      BY <1>1, <1>2, TableBegins, SeekInTable
    <3> QED BY <3>1, <3>2, <1>3 DEF Statuses
  <2>4. CASE ReadFails(dt)
    <3>1. PICK k \in r .. L : cursor' = k + 1
      BY <2>4, <1>2, <1>4 DEF ReadFails
    <3>2. frame' = frame /\ status' = "Error"
      BY <2>4 DEF ReadFails
    <3> QED BY <3>1, <3>2, <1>3 DEF Statuses
  <2> QED BY <2>1, <2>2, <2>3, <2>4, <2>5 DEF DecodeFrame
<1>6. playback' \in SessionClocks
  <2>1. /\ Advanced(playback, dt) \in SessionClocks
        /\ Due(dt) => Ticked(dt) \in SessionClocks /\ Wrapped(Ticked(dt)) \in SessionClocks
    BY <1>1, <1>2, ClockTyped
  <2>2. CASE Waits(dt)
    BY <2>1, <2>2, <1>1 DEF Waits
  <2>3. CASE Ends(dt)
    BY <2>1, <2>3 DEF Ends
  <2>4. CASE ShowsFrame(dt) \/ RunsOut(dt) \/ ReadFails(dt) \/ RewindFails(dt) \/ StillFails(dt)
    BY <2>1, <2>4 DEF ShowsFrame, RunsOut, ReadFails, RewindFails, StillFails, Reads
  <2> QED BY <2>2, <2>3, <2>4 DEF DecodeFrame
<1>7. texture' \in NoTexture .. L
  <2>1. texture \in NoTexture .. L
    BY <1>2 DEF VideoTyped, VideoTypeOK
  <2>2. NoTexture \in NoTexture .. L /\ frame' \in NoTexture .. L
    BY <1>5 DEF NoTexture
  <2> QED BY <2>1, <2>2 DEF DecodeFrame, UpdateVideoFrame
<1>8. playback' \in Clocks /\ playback'.position <= MaxTime
  BY <1>6, VideoAssumption DEF SessionClocks, Clocks
<1>9. VideoTypeOK'
  BY <1>1, <1>2, <1>3, <1>5, <1>7, <1>8 DEF VideoTypeOK, Clocks
<1> QED BY <1>1, <1>6, <1>8, <1>9 DEF VideoTyped

\* So do the keys, and the other calls on a session.
LEMMA CallsTyped ==
  ASSUME KeyframeInv, VideoTyped,
         \/ \E position \in 0 .. file.duration + 1 : Seek(position) \/ SeekFails(position)
         \/ \E looping \in BOOLEAN : SetLooping(looping)
         \/ PauseOrResume
  PROVE  VideoTyped'
<1>1. /\ backend # NoBackend
      /\ UNCHANGED <<file, backend, samples, frame, status, texture, overlay>>
  BY DEF Seek, SeekFails, SetLooping, PauseOrResume, background
<1>2. PICK p \in SessionClocks : p = playback
  BY <1>1 DEF VideoTyped
<1>3. playback' \in SessionClocks
  <2>1. ASSUME NEW position \in 0 .. file.duration + 1, Seek(position) \/ SeekFails(position)
        PROVE  playback' \in SessionClocks
    <3>1. MaxTime \in Nat /\ file.duration \in 0 .. MaxTime - 1
      BY VideoAssumption DEF KeyframeInv
    <3>2. position \in 0 .. MaxTime /\ 0 \in 0 .. MaxTime
      BY <3>1
    <3>3. playback' \in {p, [p EXCEPT !.position = position, !.elapsed = 0]}
      BY <1>2, <2>1 DEF Seek, SeekFails
    <3> QED BY <3>2, <3>3 DEF SessionClocks
  <2>2. ASSUME NEW looping \in BOOLEAN, SetLooping(looping)
        PROVE  playback' \in SessionClocks
    <3>1. playback' = [p EXCEPT !.looping = looping]
      BY <1>2, <2>2 DEF SetLooping
    <3> QED BY <3>1 DEF SessionClocks
  <2>3. CASE PauseOrResume
    <3>1. playback' = [p EXCEPT !.paused = ~@]
      BY <1>2, <2>3 DEF PauseOrResume
    <3> QED BY <3>1 DEF SessionClocks
  <2> QED BY <2>1, <2>2, <2>3
<1>4. cursor' \in 1 .. Len(samples) + 1
  <2>1. cursor' \in {1, cursor} \/ \E position : cursor' = SeekCursor(samples, position)
    BY DEF Seek, SeekFails, SetLooping, PauseOrResume
  <2>2. PICK L \in Nat : L = Len(samples)
    BY <1>1, TableBegins DEF Begins
  <2>3. 1 \in 1 .. L + 1 /\ cursor \in 1 .. L + 1
    BY <2>2 DEF VideoTyped, VideoTypeOK
  <2>4. \A position : SeekCursor(samples, position) \in 1 .. L + 1
    BY <1>1, <2>2, TableBegins, SeekInTable
  <2> QED BY <2>1, <2>2, <2>3, <2>4
<1>5. playback' \in Clocks /\ playback'.position <= MaxTime
  BY <1>3, VideoAssumption DEF SessionClocks, Clocks
<1>6. VideoTypeOK'
  BY <1>1, <1>4, <1>5 DEF VideoTyped, VideoTypeOK, Clocks
<1> QED BY <1>1, <1>3, <1>5, <1>6 DEF VideoTyped

\* The cursor and the picture of a session never leave the sample table of its file,
\* and its clock neither overflows nor runs below zero (software.rs, timestamp.rs): for
\* any files, times between calls, seeks, loops, failed reads and keys.
THEOREM VideoTypeCorrect == VideoSpec => []VideoTypeOK
<1>1. VideoInit => VideoTyped
  <2> SUFFICES ASSUME VideoInit PROVE VideoTyped
    OBVIOUS
  <2>1. /\ file \in Files /\ backend = NoBackend /\ samples = <<>> /\ cursor = 1 /\ frame = 0
        /\ status = "None" /\ texture = NoTexture /\ overlay \in BOOLEAN
        /\ playback = [position |-> 0, elapsed |-> 0, looping |-> FALSE, paused |-> FALSE]
    BY DEF VideoInit
  <2>2. MaxTime \in Nat /\ Len(samples) = 0
    BY <2>1, VideoAssumption
  <2>3. playback \in Clocks
    BY <2>1, <2>2 DEF Clocks
  <2>4. frame \in 0 .. (IF file.tracks = <<>> THEN Len(file.delays) ELSE Len(samples))
    <3>1. file.tracks = <<>> => Len(file.delays) \in Nat
      BY <2>1, FilesAssumption
    <3> QED BY <2>1, <2>2, <3>1
  <2>5. cursor \in 1 .. Len(samples) + 1 /\ texture \in NoTexture .. Len(samples)
    BY <2>1, <2>2 DEF NoTexture
  <2> QED BY <2>1, <2>3, <2>4, <2>5 DEF VideoTyped, VideoTypeOK, Statuses, Clocks
<1>2. KeyframeInv /\ PictureInv /\ KeyframeInv' /\ PictureInv' /\ VideoTyped /\ [VideoNext]_videoVars
        => VideoTyped'
  <2> SUFFICES ASSUME KeyframeInv, PictureInv, KeyframeInv', PictureInv', VideoTyped,
                      [VideoNext]_videoVars
               PROVE  VideoTyped'
    OBVIOUS
  <2>1. ASSUME NEW handle, NEW preferred, NEW fallback, NEW looping \in BOOLEAN,
               Open(handle, preferred, fallback, looping)
        PROVE  VideoTyped'
    <3>1. /\ backend = NoBackend /\ file.tracks # <<>> /\ backend' # NoBackend
          /\ UNCHANGED <<file, cursor, frame, status, overlay>> /\ texture' = 0
          /\ playback' = [position |-> 0, elapsed |-> 0, looping |-> looping, paused |-> FALSE]
      BY <2>1 DEF Open, SetBackgroundVideo
    <3>2. MaxTime \in Nat /\ cursor = 1 /\ frame = 0
      BY <3>1, VideoAssumption DEF KeyframeInv, PictureInv
    <3>3. PICK L \in Nat : L = Len(samples')
      BY <3>1, TableOfFile DEF KeyframeInv, Begins
    <3>4. playback' \in Clocks /\ playback' \in SessionClocks /\ playback'.position <= MaxTime
      BY <3>1, <3>2 DEF Clocks, SessionClocks
    <3>5. cursor' \in 1 .. L + 1 /\ frame' \in 0 .. L /\ texture' \in NoTexture .. L
      BY <3>1, <3>2 DEF NoTexture
    <3>6. VideoTypeOK'
      BY <3>1, <3>3, <3>4, <3>5 DEF VideoTyped, VideoTypeOK, Clocks
    <3> QED BY <3>1, <3>4, <3>6 DEF VideoTyped
  <2>2. ASSUME NEW dt \in Dts, DecodeFrame(dt) PROVE VideoTyped'
    BY <2>2, DecodeTyped
  <2>3. ASSUME NEW dt \in Dts, TickBackground(dt) PROVE VideoTyped'
    <3>1. /\ backend = NoBackend /\ file.tracks = <<>> /\ Len(file.delays) > 1
          /\ playback.elapsed + dt <= MaxTime
          /\ UNCHANGED <<file, backend, samples, cursor, status, texture, overlay>>
          /\ playback' = [playback EXCEPT !.elapsed = Tick(playback.elapsed + dt).elapsed,
                                          !.position = (@ + dt) % TotalDelay]
      BY <2>3 DEF TickBackground, background
    <3>2. Shown' /\ file' \in Files
      BY <3>1 DEF PictureInv
    <3>3. frame' \in 0 .. Len(file.delays)
      <4>1. Len(file.delays) \in Nat /\ frame' \in 0 .. Len(file.delays) - 1
        BY <3>1, <3>2, FilesAssumption DEF Shown
      <4> QED BY <4>1
    <3>4. PICK p \in Clocks : p = playback
      BY DEF VideoTyped
    <3>5. playback'.elapsed \in 0 .. MaxTime
      <4>1. PICK e \in Nat : e = p.elapsed + dt
        BY VideoAssumption DEF Clocks
      <4>2. MaxTime \in Nat /\ e <= MaxTime
        BY <3>1, <3>4, <4>1, VideoAssumption
      <4>3. PICK d \in Nat : d = Delay(frame + 1)
        <5>1. frame \in 0 .. Len(file.delays) - 1 /\ Len(file.delays) \in Nat /\ file \in Files
          BY <3>1, DelaysAdd DEF PictureInv, Shown
        <5>2. frame + 1 \in 1 .. Len(file.delays)
          BY <5>1
        <5> QED BY <3>1, <5>1, <5>2, DelaysAdd
      <4>4. Tick(e).elapsed \in 0 .. MaxTime
        BY <4>2, <4>3 DEF Tick
      <4>5. playback'.elapsed = Tick(e).elapsed
        BY <3>1, <3>4, <4>1 DEF Clocks
      <4> QED BY <4>4, <4>5
    <3>6. playback' \in Clocks
      BY <3>2, <3>5, <3>1 DEF Shown, PictureInv, Clocks
    <3>7. VideoTypeOK'
      BY <3>1, <3>2, <3>3, <3>6 DEF VideoTyped, VideoTypeOK, Clocks
    <3> QED BY <3>1, <3>6, <3>7 DEF VideoTyped
  <2>4. CASE \/ \E position \in 0 .. file.duration + 1 : Seek(position) \/ SeekFails(position)
             \/ \E looping \in BOOLEAN : SetLooping(looping)
             \/ PauseOrResume
    BY <2>4, CallsTyped
  <2>5. CASE KeyM \/ UNCHANGED videoVars
    <3>1. /\ UNCHANGED <<file, backend, samples, cursor, frame, status, playback>>
          /\ overlay' \in {overlay, ~overlay} /\ texture' \in {texture, NoTexture}
      BY <2>5 DEF KeyM, videoVars, background
    <3>2. NoTexture \in NoTexture .. Len(samples)
      <4>1. Len(samples) \in Nat
        <5>1. Len(<<>>) = 0
          OBVIOUS
        <5> QED BY <5>1, TableBegins DEF VideoTyped, Begins
      <4> QED BY <4>1 DEF NoTexture
    <3>3. VideoTypeOK'
      BY <3>1, <3>2 DEF VideoTyped, VideoTypeOK
    <3> QED BY <3>1, <3>3 DEF VideoTyped
  <2> QED BY <2>1, <2>2, <2>3, <2>4, <2>5 DEF VideoNext
<1>3. VideoTyped => VideoTypeOK
  BY DEF VideoTyped
<1>4. VideoSpec => []PictureInv
  BY PictureInvariance
<1> QED BY <1>1, <1>2, <1>3, <1>4, KeyframeInvariance, PTL DEF VideoSpec


=============================================================================
