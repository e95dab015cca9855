---------------------------- MODULE AppTracking ----------------------------
(***************************************************************************)
(* From the webcam to the bones: the tracker worker thread                 *)
(* (crates/app/src/tracker_thread.rs), the part of update_frame that       *)
(* feeds it, solves its results and applies the rig                        *)
(* (crates/app/src/update.rs), and the keys T, I and B (app.rs).           *)
(*                                                                         *)
(* A frame is a number, a tracking result the number of its frame and the  *)
(* set of parts whose landmarks it found.  A bone is abstracted to the     *)
(* source of its pose, one for each part of the rig.                       *)
(***************************************************************************)
EXTENDS Integers, Sequences

CONSTANTS Parts,     \* the parts a result may show: of face, pose, left, right
          Ids        \* frame numbers are counted modulo Ids

ASSUME AppTrackingAssumption ==
  /\ "face" \in Parts /\ Parts \subseteq {"face", "pose", "left", "right"}
  /\ Ids \in Nat /\ Ids >= 4

VARIABLES frames,    \* the frame channel: at most one frame
          nextId,    \* number of the next frame the channel accepts
          work,      \* what the worker detects on, or NoWork
          alive,     \* the worker thread has not left its loop
          results,   \* the result channel: at most one result
          lostNewer, \* a result newer than the one in the channel was lost
          faceOnly,  \* TrackerThread.face_only
          running,   \* the app has not been asked to close
          tracking,  \* AppState.tracking_enabled
          last,      \* the parts in AppState.last_tracking_result; {} for None too
          took,      \* the last update_frame received a result
          rig,       \* the parts of RigState that are Some
          rigDirty,  \* AppState.rig_dirty
          idle,      \* idle_animation: "none", or its enabled flag
          blinkMode, \* AppState.blink_mode
          blink,     \* what last set the Blink blend shape
          bone,      \* the source of each part's bones
          shown      \* no key since the last update_frame

workerVars == <<work, alive>>
channelVars == <<frames, nextId, results, lostNewer>>
poseVars == <<rig, rigDirty, bone, blink>>
modeVars == <<faceOnly, running, tracking, idle, blinkMode>>
vars == <<workerVars, channelVars, poseVars, modeVars, last, took, shown>>

FrameId == 0 .. Ids - 1
NoWork == [id |-> -1, faceOnly |-> FALSE]

\* The camera mirrors: the tracker's right hand is the model's left one.
Mirror(p) == CASE p = "left" -> "right" [] p = "right" -> "left" [] OTHER -> p

RigParts == {Mirror(p) : p \in Parts}

Sources == {"bind", "idle", "track", "blend"}

BindPose == [p \in RigParts |-> "bind"]

\* b was sent after a, and within half the count.
After(a, b) == (b - a) % Ids \in 1 .. (Ids \div 2)

Init ==
  /\ frames = <<>> /\ nextId = 0
  /\ work = NoWork /\ alive = TRUE /\ lostNewer = FALSE
  /\ results = <<>>
  /\ faceOnly = TRUE
  /\ running = TRUE
  /\ tracking = TRUE
  /\ last = {} /\ took = FALSE
  /\ rig = {} /\ rigDirty = TRUE
  /\ idle \in {"none", "on"}
  /\ blinkMode \in {"Tracking", "Auto"}
  /\ blink = "rest"
  /\ bone = BindPose
  /\ shown = FALSE

-----------------------------------------------------------------------------
(* The worker thread. *)

\* Seeded fault: the frame stays in the channel and is detected again.
TakeFramePeek ==
  /\ alive /\ work = NoWork /\ frames # <<>>
  /\ work' = [id |-> Head(frames), faceOnly |-> faceOnly]
  /\ UNCHANGED <<channelVars, alive, poseVars, modeVars, last, took, shown>>

\* recv, then the face-only flag is read.
TakeFrame ==
  /\ alive /\ work = NoWork /\ frames # <<>>
  /\ work' = [id |-> Head(frames), faceOnly |-> faceOnly]
  /\ frames' = Tail(frames)
  /\ UNCHANGED <<nextId, results, lostNewer, alive, poseVars, modeVars, last, took, shown>>

\* detect_with_mode: each detector may find nothing, or fail and find nothing.
Found(w) == IF w.faceOnly THEN SUBSET {"face"} ELSE SUBSET Parts

\* The result is offered with try_send, and lost when the channel is full or
\* the app has closed.
DetectOk ==
  /\ work # NoWork
  /\ \E found \in Found(work) :
       results' = IF results = <<>> /\ running
                    THEN <<[id |-> work.id, parts |-> found]>>
                    ELSE results
  /\ lostNewer' = (running /\ results # <<>>)
  /\ work' = NoWork
  /\ UNCHANGED <<frames, nextId, alive, poseVars, modeVars, last, took, shown>>

\* Seeded fault: an error ends the worker's loop.
DetectFailsFatal ==
  /\ work # NoWork
  /\ work' = NoWork
  /\ alive' = FALSE
  /\ UNCHANGED <<channelVars, poseVars, modeVars, last, took, shown>>

DetectFails ==
  /\ work # NoWork
  /\ work' = NoWork
  /\ UNCHANGED <<channelVars, alive, poseVars, modeVars, last, took, shown>>

\* recv fails once the sender is gone and the channel empty.
WorkerExits ==
  /\ alive /\ ~running /\ work = NoWork /\ frames = <<>>
  /\ alive' = FALSE
  /\ UNCHANGED <<channelVars, work, poseVars, modeVars, last, took, shown>>

-----------------------------------------------------------------------------
(* update_frame *)

\* capture_frame: there is always a frame, black when the webcam gives none.
CaptureFrame == nextId

\* Step 1: send_frame, while tracking is on.
SendFrame ==
  IF tracking /\ frames = <<>>
    THEN frames' = <<CaptureFrame>> /\ nextId' = (nextId + 1) % Ids
    ELSE UNCHANGED <<frames, nextId>>

\* Step 2: the channel is drained whether or not tracking is on.
RecvResult ==
  /\ results' = <<>> /\ lostNewer' = FALSE
  /\ took' = (results # <<>> /\ tracking)
  /\ last' = IF results # <<>> /\ tracking THEN Head(results).parts ELSE last

\* Step 3: the solvers run on the cached result, whether or not tracking is
\* still on.  Parts it does not show keep what they had.
Solved == {Mirror(p) : p \in last'}

\* Steps 3.5a and 4: whether apply_rig_to_model runs at all.
Applies == Solved # {} \/ blinkMode = "Auto" \/ rigDirty \/ idle # "none"

\* apply_rig_to_model: tracked bones are blended with the idle animation, the
\* others follow it, and without one they keep their pose.
PoseOf(p) ==
  CASE p \in rig' /\ idle = "on" -> "blend"
    [] p \in rig' /\ idle # "on" -> "track"
    [] p \notin rig' /\ idle = "on" -> "idle"
    [] OTHER -> bone[p]

ApplyRig ==
  IF Applies
    THEN /\ bone' = [p \in RigParts |-> PoseOf(p)]
         /\ blink' = CASE blinkMode = "Auto" -> "auto"
                       [] blinkMode = "Tracking" /\ "face" \in rig' -> "track"
                       [] OTHER -> blink
         /\ rigDirty' = FALSE
    ELSE UNCHANGED <<bone, blink, rigDirty>>

UpdateFrame ==
  /\ running
  /\ SendFrame
  /\ RecvResult
  /\ rig' = rig \cup Solved
  /\ ApplyRig
  /\ shown' = TRUE
  /\ UNCHANGED <<workerVars, modeVars>>

-----------------------------------------------------------------------------
(* The keys, the mode switch of TrackerThread and the close button. *)

KeyT ==
  /\ running
  /\ tracking' = ~tracking
  /\ IF tracking
       THEN rig' = {} /\ bone' = BindPose /\ rigDirty' = TRUE
       ELSE UNCHANGED <<rig, bone, rigDirty>>
  /\ shown' = FALSE
  /\ UNCHANGED <<workerVars, channelVars, blink, faceOnly, running, idle, blinkMode, last, took>>

\* Seeded fault: the bones keep the pose the idle animation left them in.
KeyINoReset ==
  /\ running /\ idle # "none"
  /\ idle' = IF idle = "on" THEN "off" ELSE "on"
  /\ rigDirty' = TRUE
  /\ shown' = FALSE
  /\ UNCHANGED <<workerVars, channelVars, rig, bone, blink, faceOnly, running, tracking,
                 blinkMode, last, took>>

KeyI ==
  /\ running /\ idle # "none"
  /\ idle' = IF idle = "on" THEN "off" ELSE "on"
  /\ bone' = IF idle = "on" THEN BindPose ELSE bone
  /\ rigDirty' = TRUE
  /\ shown' = FALSE
  /\ UNCHANGED <<workerVars, channelVars, rig, blink, faceOnly, running, tracking,
                 blinkMode, last, took>>

KeyB ==
  /\ running
  /\ blinkMode' = IF blinkMode = "Auto" THEN "Tracking" ELSE "Auto"
  /\ shown' = FALSE
  /\ UNCHANGED <<workerVars, channelVars, poseVars, faceOnly, running, tracking, idle, last, took>>

SetFaceOnly ==
  /\ running
  /\ faceOnly' = ~faceOnly
  /\ UNCHANGED <<workerVars, channelVars, poseVars, running, tracking, idle, blinkMode,
                 last, took, shown>>

\* CloseRequested: the event loop ends and the channels' ends are dropped.
Close ==
  /\ running
  /\ running' = FALSE
  /\ results' = <<>>
  /\ lostNewer' = FALSE
  /\ UNCHANGED <<workerVars, frames, nextId, poseVars, faceOnly, tracking, idle, blinkMode,
                 last, took, shown>>

-----------------------------------------------------------------------------

Worker == TakeFrame \/ DetectOk \/ DetectFails \/ WorkerExits
Keys == KeyT \/ KeyI \/ KeyB \/ SetFaceOnly \/ Close

Next == UpdateFrame \/ Worker \/ Keys

Spec == Init /\ [][Next]_vars

\* The event loop asks for redraws for ever, the worker runs, and detection is
\* not always failing.  Nobody has to press a key.
Fairness == WF_vars(UpdateFrame) /\ WF_vars(Worker) /\ SF_vars(DetectOk)

FairSpec == Spec /\ Fairness

-----------------------------------------------------------------------------

TypeOK ==
  /\ frames \in {<<>>} \cup {<<n>> : n \in FrameId}
  /\ nextId \in FrameId
  /\ work \in [id : FrameId, faceOnly : BOOLEAN] \cup {NoWork}
  /\ alive \in BOOLEAN
  /\ results \in {<<>>} \cup {<<r>> : r \in [id : FrameId, parts : SUBSET Parts]}
  /\ lostNewer \in BOOLEAN
  /\ faceOnly \in BOOLEAN /\ running \in BOOLEAN /\ tracking \in BOOLEAN
  /\ last \subseteq Parts
  /\ took \in BOOLEAN
  /\ rig \subseteq RigParts /\ rigDirty \in BOOLEAN
  /\ idle \in {"none", "on", "off"}
  /\ blinkMode \in {"Tracking", "Auto"}
  /\ blink \in {"rest", "auto", "track"}
  /\ bone \in [RigParts -> Sources]
  /\ shown \in BOOLEAN

\* What a frame shows agrees with the rig and the idle animation that feed it: a
\* part in the rig is tracked, blended with the idle animation when it plays, and
\* a part out of it follows the animation or is back in the bind pose, whatever
\* keys came.  (What is in the rig is another question: after T the latest result
\* fills it again, see TrackingOffClearsRig.)
PoseMatchesSources ==
  shown => \A p \in RigParts :
    bone[p] = CASE p \in rig /\ idle = "on" -> "blend"
                [] p \in rig /\ idle # "on" -> "track"
                [] p \notin rig /\ idle = "on" -> "idle"
                [] OTHER -> "bind"

\* The eyes follow the mode on the very frame after it changed: the automatic
\* blink at once, tracking as soon as the latest result shows a face.  (A face
\* that is in the rig but not in the latest result is not enough: B does not
\* mark the rig dirty, and the blend shape keeps the last automatic value.)
BlinkFollowsMode ==
  shown => /\ blinkMode = "Auto" => blink = "auto"
           /\ blinkMode = "Tracking" /\ "face" \in last => blink = "track"

\* The results reach the app in the order of their frames, and no frame is
\* detected twice: what is further along the pipeline was sent earlier.
InFlight ==
  [n \in DOMAIN results |-> results[n].id]
    \o (IF work = NoWork THEN <<>> ELSE <<work.id>>) \o frames

ResultsInOrder ==
  \A n \in 1 .. Len(InFlight) - 1 : After(InFlight[n], InFlight[n + 1])

\* While tracking stays on, results keep arriving: the worker survives failed
\* detections and dropped frames.
TrackingFlows == <>[](tracking /\ running) => []<>took

\* Closing the app ends the worker, busy or not.
WorkerEnds == ~running ~> ~alive

-----------------------------------------------------------------------------
(* Statements of the sources that the code does not keep. *)

\* app.rs, T key: switching tracking off clears the rig, and animation_player.rs
\* says that without tracking the idle animation is used directly.
TrackingOffClearsRig == shown /\ ~tracking => rig = {}

\* tracker_thread.rs: of two results the app has not consumed, the older one is
\* dropped.
NewestResultKept == ~lostNewer

=============================================================================
