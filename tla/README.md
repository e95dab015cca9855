# KalidoKit: TLA+ models and proofs

This directory specifies the parts of the KalidoKit avatar application whose correctness
depends on the order of events, or on indices and tables that several parts must read alike:
threads, channels, GPU callbacks, keys, windows, conversations, plugins and their processes,
sockets, video files, and the avatar's own files. TLC checks every module on small instances;
TLAPS proves every safety property of the runs but `IdleFollowsSource`, and both refinements,
for every value of the constants.
Paths below are relative to `src/crates`; `tracker_thread.rs:53` is a line.
`PROJECT.json` lists the runs, the map from definitions to lines, the findings, the hazards,
the theorems and the seeded faults.

    tlc -workers 2 -config MCAppCapture.cfg MCAppCapture     # one run
    tlapm PictureProofs.tla                                  # one proof module

## 1. The system

A webcam frame goes to a worker thread that finds landmarks; the render loop solves them into
a rig, poses the bones of a VRM model, draws it before a picture or a video, and hands the
result to a virtual camera or to a transparent "mascot" window. Beside it stands a voice side
(audio, segmentation, transcription, a conversational agent) and two plugin systems, one
in-process and one with plugins as child processes.

| Component | State it keeps | Operations | Talks to | What makes it hard | What makes it correct |
|---|---|---|---|---|---|
| frame capture (`renderer/src/scene.rs`) | capture texture, two staging buffers, index, `pending`, `map_ready` | `ensure_frame_capture`, `render_to_capture`, `capture_frame_async` | called by the app; `map_async` callbacks from wgpu | one flag for whatever buffers exist; buffers recreated while a mapping is in flight | no read of an unmapped buffer, no copy into a busy one, each client gets its own image |
| app, capture steps (`app/src/update.rs`, `mascot.rs`, `app.rs`) | camera on/off, mascot on/off, clear colour, alpha map, hit-test, sizes | steps 6 and 7 of `update_frame`, keys C and M, `CursorMoved` | frame capture, window system, virtual camera | two clients of different sizes share one capture; keys come between any two frames | the camera is served, the window can be clicked |
| app, tracking steps (`update.rs`, `tracker_thread.rs`, `app.rs`) | two channels of size 1, cached result, rig, dirty flag, modes | steps 1 to 4 of `update_frame`, worker loop, keys T, I, B | tracker, solver, vrm | drop-on-full channels, cached results, modes switched between frames | the pose follows the sources that are on; results in order; tracking survives failures |
| vrm and renderer (`vrm/src`, `renderer/src/scene.rs`, `skin.rs`, `morph.rs`) | model, clip, player, bones with previous rotations, GPU buffers | load, retarget, `update`, `set_rotation*`, `compute_joint_matrices`, `prepare`, passes | app | indices of six kinds, each offset on the way; rotations composed in world space over trees in any order | what is drawn is what the file says; joints follow their path; the idle animation turns as its source |
| speech-capture | session flag, worker handle, segmenter | `start`, `stop`, `vad_worker`, `feed` | audio-capture, etd, whisper, the caller's callback | audio thread, worker and caller; errors in the middle of an utterance; a second `start` | audio of an utterance is whole; silence ends it in time; `stop` returns and is quiet |
| audio-capture | backend, streams, `running`, the handler's accumulator | `start`, `stop`, `sc_audio` start and stop, handlers | the system's audio threads, speech-capture | requests that time out and are granted later; handlers that outlive `stop` | only the stream kept delivers; frames follow on |
| llm-agent, llm | history, two bounded channels, the wire messages | `bridge`, `speech_callback`, `run`, `respond`, `run_tool_calls`, the provider's conversions | speech callback, provider, tools, caller | bounded queues in both directions; failure at any await; blocks filtered on the way out | one outcome per utterance, in order; requests well formed |
| dynplug | slots, name index | `load_*`, `unload`, `unload_all`, `Drop` | shared libraries, file system | slots never shrink, holes, partial batches | index and slots agree; reverse release |
| go-plugin | brokers' pending tables, RPC stream, child process, mirrored output | `accept`, `dial`, `deliver`, `close`, `start`, `reattach`, `kill`, `call`, `serve`, stdio tasks | child processes over gRPC or a mux | timeouts racing late answers, locks held across awaits, calls dropped at an await, a child that may be anything | a dial reaches its accept, no answer goes to another call, versions agree, output is whole, a kept child is killed |
| video-decoder | sample table, demuxer position, decoder, playback clock | `open`, `seek`, `decode_frame`, `pause`, `resume` | app background | run-length tables; clock and demuxer wrap by different rules | the table agrees with the file; a fresh decoder starts at a keyframe; the picture is that of its time |
| virtual-camera | client list, writer queue, listener; clients' buffers; the DAL plugin's objects | `send_frame`, `start`, `stop`, reassembly, `DAL_*` | camera extension and DAL plugin over TCP, CoreMediaIO | a client that does not read; frames cut by the end of the app; objects that are half published | frames are whole; clients come back; `stop` returns; announced properties can be read |
| solver, tracker, etd, ten-vad, whisper | network weights | inference, geometry | called by workers | numerical | their answers are choices |
| lua, lua-imgui | commands of the frame, ImGui's own | the script, the replay, `handle_event` | app, Dear ImGui | rebuilt in each frame on one thread | - |
| logger, preferences, blink timer | - | - | - | no interaction of several parts | - |

## 2. Modules

| Module | Models | State and actions in the code |
|---|---|---|
| `FrameCapture` | the double-buffered readback | a record of the `frame_capture_*` fields of `Scene`; each method is an operator from records to records, so that a client can make several calls in one step; wgpu is external: a mapping is idle, waiting, resolved or mapped, and `poll`, every `submit` and the drop of a buffer run callbacks |
| `AppCapture` (EXTENDS it) | the two clients, the keys, the window | `VcamSendFrame` is the whole of `vcam_send_frame`; `MascotCapture` is step 7; `pc` marks the point between them, where only the GPU moves |
| `AppTracking` | worker thread, channels, rig, keys | `UpdateFrame` is steps 1 to 4 of `update_frame` in their order, since the render loop is one thread; the worker's take, detect and send are actions of their own; a bone is the source of its pose |
| `Segmenter` | `VadSegmenter::feed` | an operator from (segmenter, frame, voice, predictor's answer) to (segmenter, event) |
| `SpeechCapture` (EXTENDS it) | sessions, stream, worker, caller | `start` and `stop` are taken apart where another thread can act between; every successful start has its own channel and worker |
| `AudioCapture` | choice of the backend, both backends, the handlers | the owner's calls with the point where the system's answer is awaited; a handler takes what a batch adds to the accumulator and delivers frame by frame |
| `LlmWire` | blocks and messages, to the Anthropic wire and back | operators; a block is its type and the id of its call |
| `VoiceAgent` (EXTENDS it) | queues, runner, agent loop | an action for each await point of `run` and `respond`; a request is what `LlmWire` makes of the history |
| `PluginRegistry` | abstract: a partial function from names to plugins | `Register`, `Remove` |
| `PluginManager` | the slots and the index | one action per call, one per turn for the calls that loop |
| `GrpcBroker` | the gRPC brokers of both sides | `accept` and `dial_grpc` as one action between two awaits; the mutex of `stream_tx` and the table's are state; `Deliver` is one turn of the loop |
| `CallReturn` | abstract: asked once, executed once, answered with its own result | `Ask`, `Execute`, `Answer`, `GiveUp` (a refusal, too) |
| `RpcCalls` | the control stream, its mutex, client and server | a message is two units, its length and its body, so that a call dropped at an await leaves half of one |
| `MuxBroker` | the brokered streams of the mux | dial, the task per inbound stream, accept with its timeout |
| `NetRpc` (EXTENDS the two) | dispensing a plugin, accepting and dialing its id | composition; the dial names the id the call returned |
| `Handshake` | environment, negotiation line, certificates, checksums | operators: what each side writes and what the other makes of it |
| `StdioMirror` | pipes, channel, stream, the host's output | one action per task and turn |
| `PluginProcess` (EXTENDS the two) | `Client` and the child | `start`, `reattach`, `kill` and `drop` between their awaits; the child is a plugin of this crate or any other program, and may die at any point |
| `Mp4Demuxer` | sample tables, packets, seek | operators on a file of boxes: `SampleTable`, with sizes in a list or one for all, `Packet`, `SeekCursor` |
| `VideoSession` (EXTENDS it) | choice of the backend, sessions, the clock, the background's GIF | `DecodeFrame` is the app's tick and the backend's `decode_frame` with the loop over packets in it; a read, a rewind and a seek may fail, each leaving what the backend has changed by then |
| `VirtualCamera` | server threads, TCP, the clients' connection and reassembly | the writer takes, locks and writes in steps; a client reads what is there and looks for whole frames |
| `DalPlugin` (EXTENDS it) | the DAL plugin's objects, properties, stream | initialise, start, stop, teardown; each may fail where CoreMediaIO may |
| `Rotations` | rotations as a finite group | see below |
| `Retarget` | clips from GLB and FBX, retargeted to VRM bones | operators over a file of nodes and channels, or of objects and connections |
| `VrmLoader` | a VRM file to the model | operators with the code's index arithmetic |
| `Scene` (EXTENDS it) | the GPU buffers and what the passes draw of them | operators |
| `Avatar` (EXTENDS `Retarget`, `Scene`) | start-up, player, the latest result, rig and keys on the bones | `Frame` is the pose part of `update_frame`: it solves the latest result whether or not tracking is on, and the automatic blink may mark the rig changed without one; a bone is `Placed` when its node is in the file |
| `MC*` | constants for TLC | - |
| `Induction` | least and greatest members, induction, recursion, ranks, lists of lists | lemmas the proofs share |
| `*Proofs` | theorems | - |

Compositions: `AppCapture` joins the readback to its two users, `SpeechCapture` the segmenter
to the audio thread and the caller, `VoiceAgent` the loop to the wire, `NetRpc` calls to
streams, `PluginProcess` negotiation to lifecycle and output, `DalPlugin` the server and its
clients to the DAL's objects, `Avatar` two kinds of files to the bones and the screen.
`PluginManager` implements `PluginRegistry`, and `RpcCalls` `CallReturn`.

Data abstractions. *Images* keep their size, the clear colour and whether they predate the last
switching-off of the camera. *Tracking frames* are numbers modulo `Ids`; a *result* is the set
of parts it found. The samples of an *audio frame* are its number. A *transcript* is the number
of its utterance. *Plugins* are model values with a name. An *address* is the accept that
listens on it. A *chunk* of output and a *camera frame* are numbered as written. A *video
sample* keeps whether its bytes are there. *Rotations* are the non-abelian group of order 21:
every rotation has an inverse and a unique half, products depend on their order, and the
mirroring of the model is an automorphism; so a product in the wrong order, a forgotten
inverse or an interpolation from the wrong end gives another result, as with quaternions. A
tree of bones is a function on its nodes, a vertex the joint it is bound to.

History variables (such as `lostNewer`, `accepted`, `got`, `executed`) are never read by a
guard. A definition whose comment starts with "Seeded fault" is a plausible bug of the
definition that follows it. No action uses it; it is put in the place of that definition to see
that the property which should notice does.

## 3. Runs

Every property has a seeded fault that breaks it under the same configuration.

| Run | Instance | Distinct states | What it shows |
|---|---|---|---|
| `app_capture` | 2 sizes, scale 2, window widths 4 and 5, screen 12 | 24,170 | whatever the GPU does between the calls and however the clients alternate, a readback touches a mapped buffer (`NoUnmappedRead`), each client gets images of its size and the alpha map only transparent renders (`ReadbackForCaller`), and a camera that stays on without the overlay is served for ever (`VcamServed`) |
| `app_tracking` | face and one hand, 4 frame numbers | 294,224 | the pose is that of the rig and of the idle animation, a part without either is in bind pose after any keys (`PoseMatchesSources`; that T leaves the latest result, which fills the rig again, is `TrackingOffClearsRig` in section 5), results stay in order (`ResultsInOrder`), tracking keeps flowing (`TrackingFlows`) |
| `speech_capture` | 2 starts of 1 and 3 frames, gaps 1 and 3, timeout 1, minimum 3 | 135,310 | an utterance's audio is whole (`AudioIsWhole`), no silence is overdue (`NeverOverdue`), `stop` returns (`StopReturns`) and leaves no worker of its session (`QuietAfterStop`), a superseded worker ends (`SupersededEnds`) |
| `audio_capture` | 2 starts, four platforms, frames of 2 samples, batches of 1 and 5, 5 samples | 114,100 | only the kept stream can begin a delivery (`OnlyTheKeptDelivers`), and its frames follow on (`SamplesFollowOn`) |
| `voice_agent` | channels of 1, 2 iterations, 4 utterances; thoughts, an answer, or two tools | 343,780 | one outcome each and in order (`OneOutcomeEach`), requests well formed on the wire (`ResultsFollowRequests`), outcomes arrive (`OutcomesArrive`) |
| `plugin_manager` | 2 files of one name, 1 other, 1 broken, 4 slots, batches of 2 | 99,026 | the manager implements the registry (`RefinesRegistry`), plugins are released in the reverse of their loading, though `load_*` and `unload` know nothing of `unload_all` (`ReleasedInReverse`) |
| `grpc_broker` | 2 accepts, 2 dials, 2 ids, 1 announcement on the way | 164,248 | who connects has reached the other side's call of the same id (`DialReachesItsService`), no dial waits for an answer nobody holds (`WaitersAreHeld`), every call returns (`CallsReturn`) |
| `netrpc` | 2 calls, 2 accepts, 1 dial, ids 1 and 2; a Go peer or this crate's | 178,582 | streams meet the accept of their id (`StreamsAreMatched`), a call gets no answer but its own however many were dropped before it (`RefinesCallReturn`), dials return (`DialsReturn`) |
| `plugin_process` | every configuration over 2 versions, any binary, 2 chunks per pipe, channels of 1 | 398,442 | host and plugin speak one version that both have (`VersionsAgree`), output is whole and in order (`OutputIsWhole`) and arrives (`OutputArrives`), a child that is kept is killed (`ChildIsKilled`) |
| `video` | 7 files, one of a single sample size, every backend and handle, clock to 6, 3 calls | 48,586 | `TableMatchesBoxes`, `FreshDecoderGetsKeyframe`, `PictureOnTime`, and a looping session goes on (`LoopingShowsFrames`) |
| `virtual_camera` | 2 clients (the extension and the DAL plugin), frames of 2 units, pipes of 1, 2 frames, 2 connections in all | 168,052 | `FramesAreWhole`, `AnnouncedIsReadable`, `ClientsReconnect`, `StopReturns` |
| `avatar` | 8 VRM files, 10 animation files, 3 steps | 193,363 | what is drawn is what the file says (`MeshesMatchFile`), joints follow their path (`WorldFollowsPath`), bones with a node in the file are interpolated from what is shown (`InterpolatesFromShown`), and the idle animation turns as its source does (`IdleFollowsSource`) |

Each module with state also has a type invariant, which holds on the instances above (no
configuration lists it: add it as an `INVARIANT` to see so). Section 4
proves it, or, in audio and speech capture, the virtual camera and the DAL plugin, has a typing
of its own in its place (`CaptureTypes`, `WorkerSound`, `Types`). Neither is there for
`AvatarTypeOK`. Further properties stand in
the modules without a run of their own: `NoBusyCopy`, `ClickableOutsideMascot`,
`BlinkFollowsMode`, `EndsAfterSilence`, `IndexAgrees`, `DispensedOnce` and `NoPictureSkipped`
are proved instead.

### Bounds, and why they are enough

- *Capture.* Two buffers and two sizes are what the code has. The model has no counter; two
  starting widths make a window differ from the size remembered.
- *Tracking.* The pipeline holds at most three frames, so four numbers tell every two of them
  apart and show their order. A face and one hand cover blending, the blink and the mirroring.
- *Speech.* A session of three frames can begin, pause and resume or end; one of a single frame
  can be superseded by it. Gaps of 1 and 3 are at and over the timeout of 1, with the interim
  transcripts due at 1 and the extended timeout of 3 reached at once.
- *Audio.* A batch of five samples with a frame of two leaves a remainder and makes two frames;
  two starts let one be superseded while its request is still unanswered.
- *Voice.* With capacity 1 a queue can be full on either side; four utterances fill both queues
  and the agent's hands and leave one over to be dropped. Two iterations reach the second
  request, which carries results, and the failure to converge.
- *Plugins.* Four slots and three names' worth of plugins allow holes in the middle and at the
  end, a reload under the same name, and the duplicate.
- *Brokers and calls.* Two dials of one id replace each other; two accepts of one id race for
  an announcement. Two calls are enough for one to read what the other left on the stream; the
  stream holds two messages of two units. Accepts are on the plugin and dials on the host: the
  other direction fails at the first step, since the host never stores its stream.
- *Plugin process.* Two versions on each side give every overlap of the sets, none included.
  Two chunks per pipe and channels of one fill both the channel and the pipe.
- *Video.* The files have constant and varying chunks, sizes of their own and one for all,
  runs that end early, a missing duration,
  a keyframe in the middle, a truncated sample, another codec, and GIFs with short and long
  delays. `MaxTime` stands for the longest
  duration, where the clock saturates; `MaxEvents` bounds calls, not ticks.
- *Camera.* A frame of two units can be cut once, a second connection shows what is left of the
  first, and pipes of one unit make a client that does not read block the writer.
- *Avatar.* A chain of three bones in every order of the node indices; two skins that the
  meshes take in the other order; meshes of one and two primitives; clips whose channels have
  no, one, two and three keys; a model with a bone whose node is outside the file. Three steps
  are two poses and the one interpolated from them.

`CHECK_DEADLOCK FALSE` stands where the system may stop for good: the app was closed, the
caller has no call left or falls silent, the file could not be opened. The other runs check it.

### Fairness, and what in the code justifies it

- `AppCapture`: the event loop asks for the next redraw itself, so each step of `update_frame`
  is weakly fair; the 33 ms throttle comes due again and again, which is strong fairness of
  `VcamSendFrame`, because the frames in between disable it; the GPU finishes what it was
  given. Keys and the user have none.
- `AppTracking`: weak fairness of the loop and the worker. Strong fairness of `DetectOk`:
  `detect_with_mode` catches the failure of each detector and returns `Ok`.
- `SpeechCapture`: threads run and a call in progress goes on. Nobody has to start, stop or
  speak; the worker's timeout of its receive is part of its own weak fairness.
- `VoiceAgent`: the runtime polls the runner, the caller reads while it holds the receiver.
  The provider and the tools have none, since the `llm` crate sets no timeout; `OutcomesArrive`
  is conditional on `ProviderReturns`.
- `GrpcBroker`, `NetRpc`: the runtime polls every task and the five-second deadlines pass. The
  peers, the connection and whoever calls have none.
- `PluginProcess`: the host's call goes on, the tasks of the output run, and a process that was
  killed dies. The plugin itself need not do anything; `ChildIsKilled` holds nevertheless,
  since `kill` has a timeout. `start` has none, and nothing is claimed of it.
- `VideoSession`: the render loop ticks. `VirtualCamera`: the listener and the writer run, and
  clients' timers fire; a client may stop reading, which the properties have to survive.

## 4. Proofs

Constants are arbitrary, within the named assumptions of the modules, which TLC evaluates on
every run. `Handshake` assumes a finite set of versions, since a program holds finitely many
and the largest common one is asked for. Every result is a statement `Spec => ...` of the
whole next-state relation, with every failure, timeout and drop in it; each inductive
invariant was checked by TLC on the instance of its run before it was proved.

- **`PictureProofs`**, the frames read back: `TypeOK`, `NoUnmappedRead`, `NoBusyCopy`,
  `ReadbackForCaller`, `ClickableOutsideMascot`. The two about mappings are not inductive. What
  they rest on is `CaptureInv`: the buffer to be copied next is idle (`FlagsAgree`); without a
  pending copy nothing is mapped and the flag is down; with one, the buffer copied last is
  mapped if the flag is up and still in flight if it is down; and an image staged has the size
  of the capture, over a transparent background if it is the mascot's (`ImagesAgree`). The
  methods of `Scene` have a lemma each; the step of a client is then a composition of two. The
  essential point is in `Recreate`: the drop of the old buffers may set the flag, so the reset
  after it is what keeps the invariant. The seeded fault with the two in the other order breaks
  it.
- **`PictureProofs`**, the bones: `InterpolatesFromShown`, for any models, clips, rigs and keys.
  The idle animation writes the bones and not their previous rotations, so that the two part
  while it plays; what is proved is that each key that ends it sets both back, whatever the
  next frames solve: a new result, the last one after T, or none with the rig marked changed by
  the blink. It is about the bones that turn a node of the file (`Placed`), since the reset
  passes over the others (`AllBonesFromShown` in section 5). The invariant (`BonesInv`) adds
  that the bones and their previous rotations are the model's, no more and no fewer.
- **`PictureProofs`**, the meshes: `MeshesMatchFile`, for any file that glTF calls valid
  (`ValidFile`: every index leads to something, and the nodes make up trees). The loader lays
  the joints of all skins, and the primitives of all meshes, one after the other, and the scene
  does so again with its buffers. With an index into such a list it is known which part it is in
  and where (`LaidPrefix`), and this is used where the index is made and where it is followed.
  Two nodes may show one mesh with different skins; the loader keeps the last, so the property
  speaks of the meshes whose nodes agree (`AgreeOnSkin`).
- **`PictureProofs`**, the joints: `WorldFollowsPath`, for trees in any order of their indices.
  `compute_joint_matrices` visits breadth first. Between two visits those that have a matrix
  have the right one, and those that wait are the others whose parent has one (`Waiting`).
  As long as a node is missing one waits: the least deep of those missing has a parent that is
  not missing, or none. So there is a visit for every node, and none is visited twice.
- **`PictureProofs`**, the clip: two theorems about `AnimationClip` on which `IdleFollowsSource`
  rests. `SourceWorldSound`: `compute_world_rotations`, which passes over the nodes in the order
  of their indices, gives the products along the paths, and as many passes as there are nodes
  suffice, since after k of them every node less deep than k is done. `RetargetSound`: the
  rotations of the clip, each relative to the bone above, multiply down the hierarchy of VRM to
  the turn of the source's bone in the world. This needs the inverse on the side where it is;
  the seeded fault has it on the other. The hypotheses (`SoundSkeleton`, `Ranked`) are that the
  nodes make up trees, every channel has keys, no two nodes drive one bone, and the hierarchy of
  VRM has no cycle; all animation files of the run meet them but those with an empty channel.
- **`UpdateFrameProofs`**, the poses: `PoseMatchesSources`, `ResultsInOrder` and
  `BlinkFollowsMode`, for any set of parts and any period of the frame counter from 4 on. Order
  needs two facts: the numbers at the three places of the pipeline are consecutive (`InOrder`),
  and the three are never taken at once. The second is why a detection that fails, and leaves a
  hole in the pipeline, leaves none in the numbers. Poses need to be known between two frames
  too, when a key has changed the rig or the idle animation and no frame has applied it: a part
  whose source went away is in the bind pose even then, and every part has the pose of its
  sources unless the rig is marked dirty (`PoseInv`).
- **`UpdateFrameProofs`**, the sample table: `TableMatchesBoxes`, for any boxes whose chunks
  are in order (`WellFormed`). The pass that builds the table carries the offset in the chunk,
  the durations so far and what is left of the run; the property says of each sample what the
  boxes say of it. The sizes are a list, or one size for as many samples as the durations have
  (`SizesTyped`), as in the code. The two meet in lemmas about sums, about the place of a sample among the
  chunks, each repeated for its samples, and about the run that the durations have reached.
- **`UpdateFrameProofs`**, the video: `FreshDecoderGetsKeyframe`, for any files that begin with a
  keyframe (`FilesAssumption`, named with the constants; a file that does not has no sample
  to go back to). The loop is in the property itself, which speaks of the sample that will be
  read; a rewind or a seek that fails half-way is a case of its own (`SetBackKeeps`); the invariant (`KeyframeInv`) is about the rest: as long as the decoder has nothing, the
  demuxer stands where it was set back, because a call reads on until a picture, which needs a
  reference, or to the end. That the cursor of a seek is at a keyframe (`SeekLands`) is a lemma.
  From the same loop, `NoPictureSkipped`: the next picture is the first that can be decoded.
- **`UpdateFrameProofs`**, the background: `PictureOnTime`, for any delays and ticks, with the
  invariant `PictureInv`: a texture holds the frame decoded last, and the delays of the pictures
  before the one shown, with the time it has been shown, are the time that has passed. And
  `VideoTypeOK`: cursor and picture never leave the sample table, the clock neither overflows
  nor falls below zero. That rests on the durations being less than `MaxTime`, which is
  `Duration::MAX` in the code and no file reaches.
- **`SpeechCaptureProofs`**: `QuietAfterStop`, `AudioIsWhole`, `NeverOverdue` and
  `EndsAfterSilence`, for any number of sessions, frames, gaps and timeouts. For the first, the
  invariant says whom the handle stands for in the states between: outside `start` it is the
  current session's, unless `stop` has joined it. For the second, it follows the numbers of the
  frames: a worker's queue holds those after the last one it took (`QueueSound`), and its
  utterance those since it began without the ones the VAD failed on (`AudioSound`). Where the
  utterance ends depends on the point of the loop (`AudioTo`), because an interim transcript is
  made between the receipt of a frame and its feed. The audio is stated by indices (`IsHeard`)
  and not by a filter over a sequence, so that no induction is needed.
- **`VoiceProofs`**, the capture: `OnlyTheKeptDelivers` and `SamplesFollowOn`, for any platforms,
  frame sizes, batches and number of starts. The first is strengthened by naming, for each
  point of the owner's calls, the streams that may still be loud; the second by what the
  accumulator holds: the samples after those delivered, less than a frame between handlers.
- **`VoiceProofs`**, the agent: `OneOutcomeEach`, for channels of any capacity, any number of
  utterances and iterations and any turns of the service. The utterances are in four places in
  a row: read, queued as outcomes, in the runner's hands, queued as transcripts (`Places`).
  Every step but `Speak` moves one from the head of a place to the end of the one before, and
  leaves the row as it is; `Speak` adds a later one at its end; a blank transcript, which `Take`
  throws away, is no utterance. The invariant adds what the runner holds (`OneInHand`): an
  utterance from its `Take` until its outcome is out, and the outcome of that very utterance.
- **`VoiceProofs`**, the requests: `ResultsFollowRequests`, for any contents of the turns.
  The invariant (`HistoryInvariance`) is about the history, turn by turn: one with results
  follows the one whose requests they answer, all of them in their order, and the turn that is
  asked for follows one of the user. The wire leaves out blocks, and turns that have none left,
  but never a request or a result, so a turn that has one stays, next to the one it belongs to.
  `VoiceTypeOK` is proved with it: both channels stay within their capacities.
- **`PluginProofs`**, the manager: here `TypeOK`, `IndexAgrees` and `OrderKept` together are
  inductive. `OrderKept` says that the order of the slots is the order of loading, for all the
  plugins that are held: emptying a slot and reloading a name must not disturb it.
  `IndexAgrees` is stated so that it holds inside `unload_all` too, when the index still has
  names whose slots are already empty. From the invariant follow `ReleasedInReverse`
  (an action property) and `Refinement`, the manager's implementation of `PluginRegistry`; that
  no two slots hold the same name, which makes emptying a slot remove exactly one name, is
  what the invariant is needed for.
- **`PluginProofs`**, the process: `VersionsAgree` and `OutputIsWhole`, for any sets of
  versions, any number of chunks and any room in the channels. The versions rest on
  `StartedOnce`: the command is taken by the first `start`, so one thread spawns one process
  that writes one line, and the line does not change between the moment the client accepts it
  and the moment anybody compares. A line of this crate's plugin is a function of the
  environment (`LineIsPlugins`); that the environment tells the plugin the host's versions,
  also over what it inherits, and that both then take the largest they share, are lemmas about
  the operators of `Handshake`. The output rests on `OutputInv`: channel, stream and the host's
  hands hold, pipe by pipe, consecutive chunks from the first not mirrored to the last read.
- **`PluginProofs`**, the brokers: `DialReachesItsService` and `WaitersAreHeld`, for any number
  of calls and ids, either direction and any capacity. The invariant follows an id around: what
  is in the table is a dial of that id and side (`TableAgrees`), what is on the wire is of an
  accept of that id on the other side (`WireAgrees`), a dial that has an answer has a genuine
  one (`DialsAgree`), and an accept's peer is the dial that was told its address (`PeersAgree`).
  `WaitersAreHeld` is one of its conjuncts: without it a timed-out dial and its successor under
  the same id could not be told apart in `deliver`.
- **`NetRpcProofs`**: `StreamsAreMatched`, `DispensedOnce` and the refinement
  `RefinesCallReturn`, for any number of calls, accepts, dials and ids. For the streams: an
  accept is in the table or in the hands of one task, never both (`TasksAgree`), so an accept
  that replaces another under the same id cannot reach the task of the other. For the calls:
  a sequence number is unwritten, on its way or executed, never two of these, is executed at
  most once, and occurs in an answer only after (`CallsInv`); calls dropped at an await leave
  their number wherever it was. The refinement is shown step by step: each action of `RpcCalls`
  is a step of `CallReturn` or changes nothing of it, and the steps of the streams stutter.
- **`VirtualCameraProofs`**: `FramesAreWhole` and `AnnouncedIsReadable`, for any number of
  clients and connections, frames of any number of units and socket buffers of any size. A
  client's read buffer and what is in its pipe are one stream. It is in blocks, each the units
  of one frame in order (`Framed`); the last may be incomplete, and if the app can still write
  to the connection it breaks off exactly at the unit the writer has in hand (`BreaksOff`).
  From this follow that a client finds a header wherever it looks for one, so that the branch
  for a bad frame size is never taken, and that what it cuts out is a frame. It needs that no
  two clients share a connection (`OwnConnections`) and, which is where the seeded fault bites,
  that a new connection starts with an empty buffer. The arithmetic of blocks (`BlockFacts`,
  `OnePlace`, `CompleteBlocks`) is in lemmas, as is what `Process` returns of a framed stream
  (`StreamIsProcessed`). `AnnouncedIsReadable` needs no invariant: the three property functions
  agree whatever ids the objects have, also two that are both unknown.

What recursive functions, folds and filters compute over lists of any length is proved by
induction as well. The library's induction theorems take an operator, which the provers at hand
cannot instantiate; `Induction` states what is needed about sets and functions instead, from the
well-foundedness of the natural numbers: a set with 0 and every successor has all of them, and
a step has a function that follows it.

What the assumptions leave out:

- `WellFormed`: a run of `stts` that is empty, of which the code takes one sample, and entries
  of `stsc` out of order, where its search stops at the first that begins too late. Neither is
  a file that the standard allows.
- `FilesAssumption`: a track whose first sample is no keyframe.
- `ValidFile`: indices that lead nowhere, and nodes in a cycle.

Only model-checked:

- Liveness under fairness: the eleven properties of that kind. TLAPS proves none here.
- `IdleFollowsSource`. Its algebra is in `SourceWorldSound`, `RetargetSound` and
  `WorldFollowsPath`. What remains is about names and shapes: that the names of the bones, which
  `VrmParent` and `MixamoToVrm` put together from strings, are a hierarchy; that a VRM file
  nests its bones in that hierarchy; that the keys of a channel are sorted. The provers do not
  compute with strings, and to assume all of it would leave little of the property.
- `AvatarTypeOK`, and in their own words `TypeOK` of `AudioCapture`, `SpeechCapture` and
  `DalPlugin` and `VcamTypeOK`: the proofs type their variables as far as they need.

## 5. Where the code and its comments disagree

Each is stated in its module, in the words of the comment, and is not an invariant of a run.

| Statement | What the code does |
|---|---|
| `AppCapture!VcamServedInMascot` | in mascot mode both clients recreate the buffers on each turn, and no camera frame is ever read back |
| `AppCapture!LeaveRestoresSize` | `enter` stores a physical size as a logical one; at scale 2 the window comes back twice as wide |
| `AppTracking!TrackingOffClearsRig` | T resets the rig; the next frame solves the cached result again |
| `AppTracking!NewestResultKept` | the comment says the older result is replaced, `try_send` drops the newer; so does `send_frame` of the camera |
| `SpeechCapture!ShortUtterancesIgnored` | with the defaults one voiced frame is reported, because the 500 ms of silence count towards the 200 ms minimum |
| `AudioCapture!NeverProbesOldOutput` | with a device name, or before macOS 12.3, an output device is asked for its input configuration |
| `VoiceAgent!HistoryConsistent` | an answer cut at `max_tokens` in a tool request stays in the history without a result |
| `RpcCalls!AnswersAreReadable` | results are encoded twice, and this crate's client can decode none of its server's |
| `PluginProcess!StartedAnswers` | with the default `auto_mtls` the plugin serves TLS and the host connects in the clear |
| `PluginProcess!NoOrphan` | a start whose negotiation fails leaves its child running, in no field |
| `VideoSession!RewindsWithTheClock`, `!SeekLandsOnKeyframe`, `!BackgroundReturns` | the clock is not set to zero when the demuxer loops; the Apple backend re-opens at the start; leaving the overlay restores no background |
| `Avatar!AlwaysInterpolatesFromShown` | the idle animation does not record the rotations it replaces |
| `Avatar!AllBonesFromShown` | the reset to the bind pose passes over bones whose node is outside the file (`bone.rs:224`); after the idle animation such a bone keeps the rotation of the clip |

Without a statement of their own, since no property would say more than the lines do: a failed
turn is not "logged and skipped" (`speech.rs:79-81`) but reported to the caller as a failure,
which is what `OneOutcomeEach` counts; a slider of the Lua overlay cannot be moved, since the
replay changes a copy of its value (`commands.rs:160`), and a window in a window is not opened
(`commands.rs:171`);
`accept_and_serve` (`grpc_broker.rs:121`) listens on the address of a connection it drops; a
GIF frame without a delay gets 20 ms and not 100 (`scene.rs:883`); the retargeting's formula
in the doc has its factors in the other order (`animation.rs:13`).

## 6. What is not modelled, and why

- Inference, the solver's geometry, skinning, springs, the look-at angles, resampling,
  spectra: floating-point functions with no order of events. Where they feed a decision the
  answer is a nondeterministic choice. Interpolation between two keys of a clip is out of reach
  of the finite group, so that the idle animation is compared at keys.
- Pipelines, lights, the HUD, the debug overlay, shaders, the Lua overlay: rebuilt per frame.
- TLS and yamux themselves, HTTP, JSON, WAV, preferences, logging: serialisation and I/O. The
  certificates are modelled as to who has which.
- `load_from_bytes` (`loader.rs:371-630`): a copy of `load` without a caller.
- `serve_mux`, `SpeechRunner::step`, `LlmAgent::reset`, the video decoder's ring and picture
  buffers, `h264.rs`: no caller in the repository. `serve_grpc_with_services`: only the
  greeter example calls it, and it is `serve_grpc` with services added. `log_stderr`: logging.
  Hardware backends other than Apple's: they return an error.
- The camera extension's sink stream, device and provider objects, and the installer: plumbing
  of CoreMediaIO with no state that another part reads.
- The timer of the automatic blink: that it may mark the rig changed is a choice.
- Mouse events on click-through windows: the window system decides whether they are delivered.
- Frames on which the surface fails: they leave `update_frame` before the capture steps and
  change nothing these modules keep except by stuttering.

## 7. Plan

Done: all modules of section 2 and the proofs of section 4, in this order: capture and
tracking, speech and voice, the in-process plugins, the brokers, calls and processes of the
plugins, the video session, the virtual camera, and the avatar.

Next, in order of importance:

1. Proofs: `IdleFollowsSource` for files whose shape is assumed, and `AvatarTypeOK`.
2. Compositions: speech capture feeding the voice agent; playback feeding the app.
3. The solver's damping and the mouth and pupil weights, as far as an order on values suffices.
