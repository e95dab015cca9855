----------------------------- MODULE AudioCapture -----------------------------
(***************************************************************************)
(* AudioCapture (crates/audio-capture/src/lib.rs) and its ScreenCaptureKit *)
(* backend (sc_audio.rs): the choice of a backend, the calls of the one    *)
(* thread that owns the capture, and the handlers the system calls on      *)
(* threads of its own.  cpal, ScreenCaptureKit and the devices are         *)
(* external: a request may fail, be late or never be answered.             *)
(***************************************************************************)
EXTENDS Integers, Sequences

CONSTANTS Starts,     \* bound on the streams created
          Platforms,  \* of the platforms below, those considered
          FrameSize,  \* samples of a frame
          Batches,    \* the sizes of the buffers the system delivers
          Ratio,      \* a cpal device's sample rate over 16 kHz
          MaxSamples  \* bound on the samples of a stream

ASSUME AudioCaptureAssumption ==
  /\ Starts \in Nat \ {0} /\ FrameSize \in Nat \ {0} /\ Ratio \in Nat \ {0}
  /\ Batches \subseteq Nat \ {0} /\ MaxSamples \in Nat
  /\ Platforms \subseteq {"oldMac", "mac13", "mac15", "other"}

VARIABLES config,   \* the platform and the AudioConfig
          caller,   \* where the owner is, and what it is busy with
          running,  \* AudioCapture.running
          backend,  \* the stream it keeps, or 0
          made,     \* streams made so far
          stream    \* each of them, a record

vars == <<config, caller, running, backend, made, stream>>

Streams == 1 .. Starts

\* What the system does with a stream: nothing, asked to start, delivering, or
\* asked to stop, when it may deliver still.
OsStates == {"off", "starting", "failed", "on", "stopping"}

\* in and out are history: the samples taken and handed on.
NewStream == [kind |-> "none", os |-> "off", flag |-> FALSE, handling |-> FALSE,
              buffer |-> <<>>, in |-> 0, out |-> 0]

Free == [pc |-> "free", new |-> 0, closing |-> 0, then |-> 0]

-----------------------------------------------------------------------------
(* Choice of the backend *)

\* A system before 12.3 has no ScreenCaptureKit, one before 14.2 no tap.
IsAvailable == config.platform \in {"mac13", "mac15"}
HasCatap == config.platform = "mac15"

Configs == [platform : Platforms, source : {"Input", "Output"},
            name : {"none", "input", "output"}]

\* The output device is asked for its input configuration.
ProbesOutput == config.source = "Output" /\ config.name # "input"

\* cpal is left aside.
ScFirst ==
  /\ config.source = "Output" /\ config.name = "none"
  /\ IsAvailable /\ ~HasCatap

FallsBack == config.source = "Output" /\ IsAvailable

-----------------------------------------------------------------------------
(* The owner's calls *)

Begin(kind, flag, pc) ==
  /\ made' = made + 1
  /\ stream' = [stream EXCEPT ![made + 1] =
                  [NewStream EXCEPT !.kind = kind, !.flag = flag]]
  /\ caller' = [Free EXCEPT !.pc = pc, !.new = made + 1]
  /\ UNCHANGED <<config, running, backend>>

\* start, when a device is found; building the stream may fail.
StartCpal ==
  /\ caller.pc = "free" /\ made < Starts /\ ~ScFirst
  /\ Begin("cpal", FALSE, "playing")

\* start, at once or after no device was found.
StartScreenCaptureKit ==
  /\ caller.pc = "free" /\ made < Starts /\ (ScFirst \/ FallsBack)
  /\ Begin("sc", TRUE, "content")

\* play, then the flag, then the field: three steps for those who look on.
Play ==
  /\ caller.pc = "playing"
  /\ \/ /\ stream' = [stream EXCEPT ![caller.new].os = "on"]
        /\ caller' = [caller EXCEPT !.pc = "started"]
     \/ /\ caller' = Free /\ UNCHANGED stream
  /\ UNCHANGED <<config, running, backend, made>>

\* A start that fails before there is a stream only clears the flag.
Refused ==
  /\ stream' = [stream EXCEPT ![caller.new].flag = FALSE]
  /\ caller' = Free

GetShareableContent ==
  /\ caller.pc = "content"
  /\ \/ caller' = [caller EXCEPT !.pc = "attaching"] /\ UNCHANGED stream
     \/ Refused
  /\ UNCHANGED <<config, running, backend, made>>

\* The first display's stream, its delegate and the request.
AddStreamOutput ==
  /\ caller.pc = "attaching"
  /\ \/ /\ stream' = [stream EXCEPT ![caller.new].os = "starting"]
        /\ caller' = [caller EXCEPT !.pc = "starting"]
     \/ Refused
  /\ UNCHANGED <<config, running, backend, made>>

ScStarted ==
  /\ caller.pc = "starting" /\ stream[caller.new].os = "on"
  /\ caller' = [caller EXCEPT !.pc = "started"]
  /\ UNCHANGED <<config, running, backend, made, stream>>

\* Seeded fault: a capture that is dropped is not stopped.
ClosedNot(k) == stream

\* ScAudioCapture::stop: the flag, then the request; a cpal stream's drop.
Closed(k) ==
  [stream EXCEPT ![k].flag = FALSE,
                 ![k].os = IF stream[k].kind = "cpal" \/ @ \in {"off", "failed"} THEN "off"
                           ELSE "stopping"]

\* cpal's drop waits for a handler that is running, ScreenCaptureKit's stop for an
\* answer, five seconds at most.
CanClose(k) == stream[k].kind = "cpal" => ~stream[k].handling

Close(k, then) ==
  /\ CanClose(k)
  /\ stream' = Closed(k)
  /\ caller' = [Free EXCEPT !.pc = "closing", !.closing = k, !.then = then]

\* The start was refused, or ten seconds went by: the capture is dropped.
ScNotStarted ==
  /\ caller.pc = "starting"
  /\ Close(caller.new, backend)
  /\ UNCHANGED <<config, running, backend, made>>

SetRunning ==
  /\ caller.pc = "started"
  /\ running' = TRUE
  /\ caller' = [caller EXCEPT !.pc = "replacing"]
  /\ UNCHANGED <<config, backend, made, stream>>

\* The stream there was is dropped.
Replace ==
  /\ caller.pc = "replacing"
  /\ IF backend = 0
       THEN backend' = caller.new /\ caller' = Free /\ UNCHANGED stream
       ELSE Close(backend, caller.new) /\ UNCHANGED backend
  /\ UNCHANGED <<config, running, made>>

Stop ==
  /\ caller.pc = "free"
  /\ running' = FALSE
  /\ caller' = [Free EXCEPT !.pc = "stopping"]
  /\ UNCHANGED <<config, backend, made, stream>>

StopBackend ==
  /\ caller.pc = "stopping"
  /\ IF backend = 0 THEN caller' = Free /\ UNCHANGED stream ELSE Close(backend, 0)
  /\ UNCHANGED <<config, running, backend, made>>

\* The answer, or the end of the five seconds.
CloseReturns ==
  /\ caller.pc = "closing"
  /\ backend' = caller.then
  /\ caller' = Free
  /\ UNCHANGED <<config, running, made, stream>>

-----------------------------------------------------------------------------
(* The system, and the handlers it calls *)

Sys == UNCHANGED <<config, caller, running, backend, made>>

\* A start or stop request is granted, however late, or the start refused.
Answer(k) ==
  /\ \/ stream[k].os = "starting" /\ \E os \in {"on", "failed"} : stream' = [stream EXCEPT ![k].os = os]
     \/ stream[k].os = "stopping" /\ stream' = [stream EXCEPT ![k].os = "off"]
  /\ Sys

\* cpal's streams share the capture's flag; each ScreenCaptureKit one has its own.
Flag(k) == IF stream[k].kind = "sc" THEN stream[k].flag ELSE running

\* Every buffer is resampled on its own, its first sample always taken.
Resampled(k, n) == IF stream[k].kind = "sc" THEN n ELSE (n + Ratio - 1) \div Ratio

\* handle_sample_buffer and the cpal callback, up to the buffer.
HandlerEnters(k) ==
  /\ stream[k].os \in {"on", "stopping"} /\ ~stream[k].handling /\ Flag(k)
  /\ \E n \in Batches :
       LET m == Resampled(k, n)
       IN  /\ stream[k].in + m <= MaxSamples
           /\ stream' = [stream EXCEPT
                ![k].handling = TRUE,
                ![k].buffer = @ \o [i \in 1 .. m |-> stream[k].in + i],
                ![k].in = @ + m]
  /\ Sys

\* Seeded fault: what is left of the buffer is cleared with the frame.
EmitFrameAlone(k) ==
  /\ stream[k].handling /\ Len(stream[k].buffer) >= FrameSize
  /\ stream' = [stream EXCEPT ![k].buffer = <<>>, ![k].out = stream[k].buffer[FrameSize]]
  /\ Sys

\* A frame goes to the callback; the flag is not looked at again.
EmitFrame(k) ==
  /\ stream[k].handling /\ Len(stream[k].buffer) >= FrameSize
  /\ stream' = [stream EXCEPT
       ![k].buffer = SubSeq(@, FrameSize + 1, Len(@)),
       ![k].out = stream[k].buffer[FrameSize]]
  /\ Sys

HandlerReturns(k) ==
  /\ stream[k].handling /\ Len(stream[k].buffer) < FrameSize
  /\ stream' = [stream EXCEPT ![k].handling = FALSE]
  /\ Sys

-----------------------------------------------------------------------------
Init ==
  /\ config \in Configs
  /\ caller = Free /\ running = FALSE /\ backend = 0 /\ made = 0
  /\ stream = [k \in Streams |-> NewStream]

Owner ==
  \/ StartCpal \/ Play \/ SetRunning \/ Replace
  \/ StartScreenCaptureKit \/ GetShareableContent \/ AddStreamOutput
  \/ ScStarted \/ ScNotStarted
  \/ Stop \/ StopBackend \/ CloseReturns

System(k) == Answer(k) \/ HandlerEnters(k) \/ EmitFrame(k) \/ HandlerReturns(k)

Next == Owner \/ \E k \in Streams : System(k)

Spec == Init /\ [][Next]_vars

-----------------------------------------------------------------------------
(* Properties *)

\* Type invariant.
TypeOK ==
  /\ config \in Configs /\ running \in BOOLEAN
  /\ caller.pc \in {"free", "playing", "content", "attaching", "starting", "started", "replacing",
                    "stopping", "closing"}
  /\ {caller.new, caller.closing, caller.then, backend, made} \subseteq 0 .. Starts
  /\ \A k \in Streams : /\ stream[k].kind \in {"none", "cpal", "sc"}
                        /\ stream[k].os \in OsStates

\* Between calls only the stream the capture keeps can reach its callback anew: not
\* one that was stopped or replaced, and not one whose start returned an error, not
\* even when the system grants the start afterwards or never grants the stop
\* (ScAudioCapture::start, stop, drop; AudioCapture::start, stop).
OnlyTheKeptDelivers ==
  caller.pc = "free" =>
    \A k \in Streams \ {backend} :
      ~(Flag(k) /\ stream[k].os \in {"starting", "on", "stopping"})

\* The frames of a stream follow on from each other: what a handler has taken and not
\* handed on waits in the buffer, and never as much as a frame once it returned.
SamplesFollowOn ==
  \A k \in Streams :
    LET s == stream[k]
    IN  /\ s.buffer = [i \in 1 .. s.in - s.out |-> s.out + i]
        /\ s.handling \/ Len(s.buffer) < FrameSize

-----------------------------------------------------------------------------
(* A statement of the sources that the code does not keep. *)

\* lib.rs: on macOS before 14.2, "skip cpal entirely - calling
\* default_input_config() on a pure output device can segfault".  Without
\* ScreenCaptureKit, and with the name of an output device, cpal is not skipped.
NeverProbesOldOutput ==
  caller.pc = "playing" => ~(ProbesOutput /\ config.platform \in {"oldMac", "mac13"})
=============================================================================
