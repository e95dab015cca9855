----------------------------- MODULE VideoSession -----------------------------
(***************************************************************************)
(* A video session (crates/video-decoder: backend/mod.rs, software.rs,     *)
(* apple.rs, util/timestamp.rs): the choice of a backend, the playback     *)
(* clock that says when a frame is due, and the packets that go to the     *)
(* decoder when it is.  The clock and the demuxer advance each by its own  *)
(* rule; a loop or a seek sets both back.                                  *)
(*                                                                         *)
(* The session is called by the render loop only.  openh264 and            *)
(* AVAssetReader are external: a slice gives a picture when the decoder    *)
(* has the parameter sets and either a reference or an IDR slice.          *)
(*                                                                         *)
(* A file without tracks is a picture, with the delays of its frames if it *)
(* is a GIF (renderer/scene.rs, BgImage): the app shows it in a video's    *)
(* place, and the clock has no position of its own.                        *)
(***************************************************************************)
EXTENDS Mp4Demuxer

CONSTANTS Platform,          \* "macos", "linux" or "windows"
          Handles,           \* the kinds of texture handle a caller gives
          Preferred,         \* the backends a caller asks for, NoBackend included
          Dts,               \* the time between two calls
          FallbackInterval,  \* the frame interval of a file without a frame rate
          ShortestDelay,     \* the shortest time a picture of a GIF is shown
          MaxTime,           \* Duration::MAX: the clock saturates
          MaxEvents          \* bound on seeks, pauses, loop switches and faults

NoBackend == "none"

ASSUME VideoAssumption ==
  /\ Dts \subseteq Nat \ {0}
  /\ FallbackInterval \in Nat \ {0} /\ ShortestDelay \in Nat \ {0}
  /\ MaxTime \in Nat
  /\ \A file \in Files : file.duration \in 0 .. MaxTime - 1

\* A track that can be played from its start begins with a keyframe.
ASSUME FilesAssumption ==
  \A file \in Files :
    /\ file.tracks # <<>> => WellFormed(file) /\ (file.stss = AllSync \/ 1 \in file.stss)
    /\ file.tracks = <<>> => file.delays \in Seq(Nat)

VARIABLES file, backend, samples,  \* the open file
          cursor,    \* the next sample to read
          failed,    \* AVAssetReader gave up; a new reader is needed
          decoder,   \* what the decoder has been given
          playback,  \* the clock; its position is history for a GIF
          ended,     \* the demuxer gave its last sample
          frame,     \* the sample in the frame buffer, 0 before the first, or
                     \* the GIF's picture, from 0
          status,    \* what the last decode_frame returned
          unread,    \* a read has failed since the decoder was created
          texture,   \* the sample in the background's texture, 0 when it is blank
          overlay,   \* MascotState.enabled
          events

background == <<texture, overlay>>
videoVars == <<file, backend, samples, cursor, failed, decoder, playback, ended, frame,
               status, unread, background, events>>

-----------------------------------------------------------------------------
(* Opening *)

\* The backends worth trying for a handle, best first.  The Direct3D, Vulkan,
\* GStreamer, V4L2 and MediaCodec ones exist as stubs.
Candidates(handle) ==
  CASE handle = "Metal" -> <<"VideoToolbox">>
    [] handle \in {"D3d12", "D3d11"} ->
         IF Platform = "windows" THEN <<"MediaFoundation">> ELSE <<>>
    [] handle = "Vulkan" -> <<>>
    [] OTHER -> <<"Software">>

\* AppleVideoSession::open_asset: AVFoundation finds a video track it can read.
OpensAsset(f) == Codec(f) \in {"H264", "H265"}

\* Whether a backend can be created for the file here.
Creates(b, f) ==
  \/ b = "Software" /\ Demuxes(f) /\ Codec(f) = "H264"
  \/ b = "VideoToolbox" /\ Platform = "macos" /\ OpensAsset(f)

\* The backend that opens the file: the preferred one or none; else the first
\* candidate that can, then the software decoder if that is allowed.
Opens(f, handle, preferred, fallback) ==
  LET tried == IF preferred # NoBackend THEN <<preferred>>
               ELSE Candidates(handle) \o (IF fallback THEN <<"Software">> ELSE <<>>)
      can == SelectSeq(tried, LAMBDA b : Creates(b, f))
  IN IF can = <<>> THEN NoBackend ELSE Head(can)

Fresh == [sps |-> FALSE, ref |-> FALSE]

NoTexture == -1

\* Scene::set_background_video.
SetBackgroundVideo == texture' = 0 /\ UNCHANGED overlay

Open(handle, preferred, fallback, looping) ==
  /\ backend = NoBackend /\ file.tracks # <<>>
  /\ Opens(file, handle, preferred, fallback) # NoBackend
  /\ backend' = Opens(file, handle, preferred, fallback)
  /\ samples' = SampleTable(file)
  /\ playback' = [position |-> 0, elapsed |-> 0, looping |-> looping, paused |-> FALSE]
  /\ SetBackgroundVideo
  /\ UNCHANGED <<file, cursor, failed, decoder, ended, frame, status, unread, events>>

-----------------------------------------------------------------------------
(* The clock *)

Interval ==
  IF file.duration > 0 /\ Len(samples) > 0 THEN file.duration \div Len(samples)
  ELSE FallbackInterval

Saturated(t) == IF t < MaxTime THEN t ELSE MaxTime

Advanced(p, dt) ==
  [p EXCEPT !.position = Saturated(@ + dt), !.elapsed = Saturated(@ + dt)]

\* A frame is due after dt.
Due(dt) == Advanced(playback, dt).elapsed >= Interval

\* The clock of a call in which a frame is due.
Ticked(dt) ==
  LET p == Advanced(playback, dt) IN [p EXCEPT !.elapsed = @ - Interval]

AtEnd(p) == p.position >= file.duration

\* The end of the clock: a looping one starts again.
Wrapped(p) ==
  IF AtEnd(p) /\ p.looping THEN [p EXCEPT !.position = 0, !.elapsed = 0] ELSE p

-----------------------------------------------------------------------------
(* Decoding *)

\* The decoder after the samples from .. to: an IDR slice is a reference once the
\* parameter sets are there.
FedThrough(d, from, to) ==
  LET holds(kind) == {k \in from .. to : kind \in ToSet(Packet(file, samples, k))}
  IN [sps |-> d.sps \/ holds("sps") # {},
      ref |-> d.ref \/ \E k \in holds("idr") : d.sps \/ \E m \in holds("sps") : m <= k]

\* The samples from the cursor on that give a picture: whole ones, once there is
\* a reference.
Pictures(d, from) ==
  {k \in from .. Len(samples) :
     /\ FedThrough(d, from, k).ref
     /\ ToSet(Packet(file, samples, k)) \cap {"idr", "slice"} # {}}

\* The next picture.  Packets that give none, or an error, are passed over.
NextPicture(d, from) == Min(Pictures(d, from))

\* The demuxer is set back for another loop, and the decoder with it.
Rewinds == ended /\ playback.looping

\* Seeded fault: only the decoder is set back.
ReadFromCursor == cursor

ReadFrom == IF Rewinds THEN SeekCursor(samples, 0) ELSE cursor
FeedTo == IF Rewinds THEN Fresh ELSE decoder

\* Nothing to do: paused, or no frame is due.
Waits(dt) ==
  /\ status' = "Waiting"
  /\ playback' = IF playback.paused THEN playback ELSE Advanced(playback, dt)
  /\ playback.paused \/ ~Due(dt)
  /\ UNCHANGED <<cursor, failed, decoder, ended, frame, unread, events>>

\* The clock is at its end, or the demuxer, and neither loops.
Ends(dt) ==
  /\ ~playback.paused /\ Due(dt) /\ ~playback.looping
  /\ AtEnd(Ticked(dt)) \/ ended
  /\ playback' = Ticked(dt)
  /\ status' = "EndOfStream"
  /\ UNCHANGED <<cursor, failed, decoder, ended, frame, unread, events>>

\* A frame is due and samples may be read.
Reads(dt) ==
  /\ ~playback.paused /\ Due(dt)
  /\ playback.looping \/ ~(AtEnd(Ticked(dt)) \/ ended)
  /\ playback' = Wrapped(Ticked(dt))

\* A picture is decoded into the frame buffer.
ShowsFrame(dt) ==
  /\ Reads(dt) /\ ~failed
  /\ Pictures(FeedTo, ReadFrom) # {}
  /\ LET k == NextPicture(FeedTo, ReadFrom)
     IN /\ frame' = k
        /\ cursor' = k + 1
        /\ decoder' = FedThrough(FeedTo, ReadFrom, k)
  /\ status' = "NewFrame"
  /\ ended' = FALSE
  /\ unread' = (unread /\ ~Rewinds)
  /\ UNCHANGED <<failed, events>>

\* The samples run out without a picture.  A looping session says nothing and
\* rewinds when the next frame is due.
RunsOut(dt) ==
  /\ Reads(dt) /\ ~failed
  /\ Pictures(FeedTo, ReadFrom) = {}
  /\ cursor' = Len(samples) + 1
  /\ decoder' = FedThrough(FeedTo, ReadFrom, Len(samples))
  /\ ended' = TRUE
  /\ status' = IF playback.looping THEN "Waiting" ELSE "EndOfStream"
  /\ unread' = (unread /\ ~Rewinds)
  /\ UNCHANGED <<frame, failed, events>>

\* Sample k cannot be read.  The software session goes on behind it when it is
\* called again; an AVAssetReader that has failed stays failed.
ReadFails(dt) ==
  /\ Reads(dt) /\ ~failed /\ events < MaxEvents
  /\ \E k \in ReadFrom .. Len(samples) :
       /\ \A m \in Pictures(FeedTo, ReadFrom) : k <= m
       /\ cursor' = k + 1
       /\ decoder' = FedThrough(FeedTo, ReadFrom, k - 1)
  /\ failed' = (backend = "VideoToolbox")
  /\ status' = "Error"
  /\ ended' = FALSE
  /\ unread' = TRUE
  /\ events' = events + 1
  /\ UNCHANGED frame

\* The decoder or the reader for another loop cannot be created.  The clock has
\* gone on, and the demuxer of a software session is back at its start.
RewindFails(dt) ==
  /\ Reads(dt) /\ Rewinds /\ events < MaxEvents
  /\ cursor' = IF backend = "VideoToolbox" THEN cursor ELSE SeekCursor(samples, 0)
  /\ status' = "Error"
  /\ events' = events + 1
  /\ UNCHANGED <<failed, decoder, ended, frame, unread>>

\* The failed reader is asked again.
StillFails(dt) ==
  /\ Reads(dt) /\ failed
  /\ status' = "Error"
  /\ UNCHANGED <<cursor, failed, decoder, ended, frame, unread, events>>

\* Scene::update_video_frame.
UpdateVideoFrame == texture' = IF texture = NoTexture THEN NoTexture ELSE frame'

\* Step 5a of update_frame.
DecodeFrame(dt) ==
  /\ backend # NoBackend
  /\ \/ Waits(dt) \/ Ends(dt) \/ ShowsFrame(dt) \/ RunsOut(dt) \/ ReadFails(dt)
     \/ RewindFails(dt) \/ StillFails(dt)
  /\ IF status' = "NewFrame" THEN UpdateVideoFrame ELSE UNCHANGED texture
  /\ UNCHANGED <<file, backend, samples, overlay>>

-----------------------------------------------------------------------------
(* The other calls *)

\* A seek: the software session goes to a keyframe, the AVFoundation one reads
\* the file again from its start; the clock goes to the position.
Seek(position) ==
  /\ backend # NoBackend /\ events < MaxEvents
  /\ cursor' = IF backend = "VideoToolbox" THEN 1 ELSE SeekCursor(samples, position)
  /\ failed' = FALSE
  /\ decoder' = Fresh
  /\ playback' = [playback EXCEPT !.position = position, !.elapsed = 0]
  /\ ended' = FALSE
  /\ unread' = FALSE
  /\ events' = events + 1
  /\ UNCHANGED <<file, backend, samples, frame, status, background>>

\* The decoder or the reader for a seek cannot be created: that of before goes
\* on, in a software session from the position sought.
SeekFails(position) ==
  /\ backend # NoBackend /\ events < MaxEvents
  /\ IF backend = "VideoToolbox" THEN UNCHANGED <<cursor, playback>>
     ELSE /\ cursor' = SeekCursor(samples, position)
          /\ playback' = [playback EXCEPT !.position = position, !.elapsed = 0]
  /\ events' = events + 1
  /\ UNCHANGED <<file, backend, samples, failed, decoder, ended, frame, status, unread,
                 background>>

SetLooping(looping) ==
  /\ backend # NoBackend /\ events < MaxEvents
  /\ looping # playback.looping
  /\ playback' = [playback EXCEPT !.looping = looping]
  /\ events' = events + 1
  /\ UNCHANGED <<file, backend, samples, cursor, failed, decoder, ended, frame, status, unread,
                 background>>

PauseOrResume ==
  /\ backend # NoBackend /\ events < MaxEvents
  /\ playback' = [playback EXCEPT !.paused = ~@]
  /\ events' = events + 1
  /\ UNCHANGED <<file, backend, samples, cursor, failed, decoder, ended, frame, status, unread,
                 background>>

\* Key M.  Entering the overlay removes the video's texture, and the session
\* goes on without it; nothing makes another.
KeyM ==
  /\ events < MaxEvents
  /\ overlay' = ~overlay
  /\ texture' = IF overlay THEN texture ELSE NoTexture
  /\ events' = events + 1
  /\ UNCHANGED <<file, backend, samples, cursor, failed, decoder, playback, ended, frame,
                 status, unread>>

-----------------------------------------------------------------------------
(* The picture in a video's place. *)

\* BgImage::decode_gif.
Delay(k) == Max({file.delays[k], ShortestDelay})

\* How long the first n pictures are shown.
DelaysUpTo(n) == SumUpTo([k \in DOMAIN file.delays |-> Delay(k)], n)

TotalDelay == DelaysUpTo(Len(file.delays))

\* Seeded fault: the time left over is lost.
TickFromZero(elapsed) ==
  IF elapsed < Delay(frame + 1) THEN [elapsed |-> elapsed, frame |-> frame]
  ELSE [elapsed |-> 0, frame |-> (frame + 1) % Len(file.delays)]

\* BgImage::tick: one picture on at most, and the time left over is kept.
Tick(elapsed) ==
  IF elapsed < Delay(frame + 1) THEN [elapsed |-> elapsed, frame |-> frame]
  ELSE [elapsed |-> elapsed - Delay(frame + 1), frame |-> (frame + 1) % Len(file.delays)]

TickBackground(dt) ==
  /\ backend = NoBackend /\ file.tracks = <<>> /\ Len(file.delays) > 1
  /\ playback.elapsed + dt <= MaxTime
  /\ LET next == Tick(playback.elapsed + dt)
     IN  /\ frame' = next.frame
         /\ playback' = [playback EXCEPT !.elapsed = next.elapsed,
                                         !.position = (@ + dt) % TotalDelay]
  /\ UNCHANGED <<file, backend, samples, cursor, failed, decoder, ended, status, unread,
                 background, events>>

-----------------------------------------------------------------------------

VideoInit ==
  /\ file \in Files
  /\ backend = NoBackend
  /\ samples = <<>>
  /\ cursor = 1
  /\ failed = FALSE
  /\ decoder = Fresh
  /\ playback = [position |-> 0, elapsed |-> 0, looping |-> FALSE, paused |-> FALSE]
  /\ ended = FALSE
  /\ frame = 0
  /\ status = "None"
  /\ unread = FALSE
  /\ texture = NoTexture /\ overlay \in BOOLEAN
  /\ events = 0

VideoNext ==
  \/ \E handle \in Handles, preferred \in Preferred, fallback, looping \in BOOLEAN :
       Open(handle, preferred, fallback, looping)
  \/ \E dt \in Dts : DecodeFrame(dt) \/ TickBackground(dt)
  \/ \E position \in 0 .. file.duration + 1 : Seek(position) \/ SeekFails(position)
  \/ \E looping \in BOOLEAN : SetLooping(looping)
  \/ PauseOrResume \/ KeyM

VideoSpec == VideoInit /\ [][VideoNext]_videoVars

\* The render loop calls decode_frame with every frame it draws.
VideoFairSpec == VideoSpec /\ WF_videoVars(\E dt \in Dts : DecodeFrame(dt))

-----------------------------------------------------------------------------
(* Properties *)

Statuses == {"None", "NewFrame", "Waiting", "EndOfStream", "Error"}

\* What is read, shown and in the texture is a sample of the table, or a picture of
\* the GIF; the clock of a session neither overflows nor falls below zero.
VideoTypeOK ==
  /\ file \in Files
  /\ cursor \in 1 .. Len(samples) + 1
  /\ frame \in 0 .. (IF file.tracks = <<>> THEN Len(file.delays) ELSE Len(samples))
  /\ status \in Statuses
  /\ playback \in [position : Nat, elapsed : 0 .. MaxTime, looping : BOOLEAN, paused : BOOLEAN]
  /\ backend # NoBackend => playback.position <= MaxTime
  /\ texture \in NoTexture .. Len(samples) /\ overlay \in BOOLEAN

\* The run of durations that sample k is in; those after the last are in the last.
RunOf(f, k) ==
  LET counts == [r \in DOMAIN f.stts |-> f.stts[r].count]
      covers == {r \in DOMAIN f.stts : k <= SumUpTo(counts, r)}
  IN IF covers = {} THEN Len(f.stts) ELSE Min(covers)

\* The durations of the first n samples.
DurationsUpTo(f, n) ==
  SumUpTo([k \in DOMAIN Sizes(f) |-> IF f.stts = <<>> THEN 0 ELSE f.stts[RunOf(f, k)].delta], n)

\* The samples of the chunks up to c.
HeldUpTo(f, c) ==
  LET entry(i) == CHOOSE e \in ToSet(f.stsc) :
                    /\ e.first <= i
                    /\ \A g \in ToSet(f.stsc) : g.first <= i => g.first <= e.first
  IN SumUpTo([i \in DOMAIN f.stco |-> IF f.stsc = <<>> THEN 0 ELSE entry(i).per], c)

ChunkOf(f, k) == Min({c \in DOMAIN f.stco : k <= HeldUpTo(f, c)})

\* The sample table says what the boxes say (mp4.rs:226-375), each by a sum of
\* its own: a sample lies behind the earlier samples of its chunk, and begins
\* when the durations of all samples before it are over.
TableMatchesBoxes ==
  backend # NoBackend =>
    /\ Len(samples) = Min({Len(Sizes(file)), HeldUpTo(file, Len(file.stco))})
    /\ \A k \in 1 .. Len(samples) :
         /\ samples[k].dts = DurationsUpTo(file, k - 1)
         /\ LET c == ChunkOf(file, k)
            IN samples[k].offset = file.stco[c] + SumUpTo(Sizes(file), k - 1)
                                     - SumUpTo(Sizes(file), HeldUpTo(file, c - 1))

\* A decoder that has just been created, for a loop or a seek, is given a
\* keyframe first (software.rs:142-152,184-193): the demuxer is set back to one
\* with it, wherever the clock is, and a loop goes on only where there is one.  A
\* sample that could not be read excuses it until the next loop or seek.
FreshDecoderGetsKeyframe ==
  (backend # NoBackend /\ FeedTo = Fresh /\ (unread => Rewinds)) =>
    \/ ReadFrom = Len(samples) + 1 /\ (Rewinds => samples = <<>>)
    \/ samples[ReadFrom].sync

\* No picture is skipped and none shown twice: between two rewinds the frame
\* shown is the next one that can be decoded, however the clock jumped
\* (software.rs:158-175).
NoPictureSkipped ==
  [][(status' = "NewFrame" /\ frame' # frame /\ ~ended) =>
       /\ frame' >= cursor
       /\ \A k \in cursor .. frame' - 1 :
            k \in file.cut
              \/ ~(decoder.ref \/ \E m \in cursor .. k : samples[m].sync /\ m \notin file.cut)]_videoVars

\* A looping session that is left alone goes on showing frames, whatever was
\* sought or switched before: the end of the demuxer is always followed by a
\* rewind (software.rs:142-152,165-168).
LoopingShowsFrames ==
  <>[](/\ backend # NoBackend /\ playback.looping /\ ~playback.paused /\ ~failed
       /\ \E k \in 1 .. Len(samples) : samples[k].sync /\ k \notin file.cut)
    => []<>(status = "NewFrame")

\* What is behind the meshes is the picture of its time: of a video the one decoded
\* last, whatever the keys did, and of a GIF the one that its time falls in as long
\* as none is shorter than a tick; if one is, the time that is behind is kept, not
\* lost (update.rs:330-361, scene.rs:991-1020).
PictureOnTime ==
  /\ texture \in {NoTexture, frame}
  /\ file.tracks = <<>> /\ Len(file.delays) > 1 =>
    /\ (DelaysUpTo(frame) + playback.elapsed) % TotalDelay = playback.position
    /\ (\A k \in DOMAIN file.delays, dt \in Dts : dt <= Delay(k)) =>
         playback.elapsed < Delay(frame + 1)

\* software.rs:142-144, of the rewind: "If we previously hit EOS and looped, the
\* PlaybackState already reset position to 0."
RewindsWithTheClock ==
  [][(ended /\ status' = "NewFrame") => playback'.position = 0]_videoVars

\* docs/design/desktop-mascot-design.md:121, of leaving the overlay: the background
\* is restored from image_path.
BackgroundReturns == backend # NoBackend /\ texture = NoTexture => overlay

\* session.rs:57, of seek: "Seek to the nearest keyframe at or before position."
SeekLandsOnKeyframe ==
  [][\A position \in 0 .. file.duration + 1 :
       Seek(position) => cursor' = SeekCursor(samples, position)]_videoVars
==============================================================================
