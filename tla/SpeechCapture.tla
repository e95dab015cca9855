---------------------------- MODULE SpeechCapture ----------------------------
(***************************************************************************)
(* SpeechCapture (crates/speech-capture/src/lib.rs) over AudioCapture      *)
(* (crates/audio-capture/src/lib.rs): the audio thread queues frames on an *)
(* unbounded channel, the VAD worker segments them and calls the caller    *)
(* back, and the caller starts and stops the two.                          *)
(*                                                                         *)
(* Every successful start is a session with a channel and a worker of its  *)
(* own.  Nothing keeps a caller from starting twice: the flag "running" is *)
(* shared by the sessions, and the handle of the older worker is lost.     *)
(***************************************************************************)
EXTENDS Segmenter, FiniteSets

CONSTANTS Starts,    \* bound on the successful starts
          Frames,    \* bound on the frames of each session
          Gaps,      \* the times there may be between two frames
          Interim,   \* interim_interval_ms
          EtdConfigs, StreamingConfigs  \* which of the configurations below

ASSUME SpeechCaptureAssumption ==
  /\ Starts \in Nat \ {0} /\ Frames \in [1 .. Starts -> Nat]
  /\ Gaps \subseteq Nat /\ Interim \in Nat
  /\ EtdConfigs \subseteq BOOLEAN /\ StreamingConfigs \subseteq BOOLEAN

VARIABLES etd,         \* an end-of-turn predictor is configured
          streaming,   \* interim transcripts are configured
          app,         \* the caller: "free", or inside start or stop
          session,     \* sessions started so far; the last one is the current
          stream,      \* the session whose stream is open, or 0
          capRunning,  \* AudioCapture.running
          running,     \* SpeechCapture.running
          handle,      \* the session whose worker would be joined, or 0
          chan,        \* the frames in each session's channel
          sent,        \* frames the open stream has emitted
          clock,       \* timestamp of the last of them
          worker       \* each session's worker, a record

callerVars == <<app, session, stream, capRunning, running, handle>>
configVars == <<etd, streaming>>
audioVars == <<chan, sent, clock>>
vars == <<configVars, callerVars, audioVars, worker>>

Sessions == 1 .. Starts

NoFrame == [n |-> 0, t |-> 0]

\* from, lost and voiced are history: the number of the frame that opened the
\* last utterance, the frames the VAD failed on, and when voice was last heard.
NewWorker == [pc      |-> "none",
              frame   |-> NoFrame,
              voice   |-> FALSE,
              seg     |-> NewSegmenter,
              interim |-> 0,
              event   |-> NoEvent,
              from    |-> 0,
              lost    |-> {},
              voiced  |-> 0]

\* A thread that ended has dropped its locals and its end of the channel.
DoneWorker == [NewWorker EXCEPT !.pc = "done"]

Init ==
  /\ etd \in EtdConfigs /\ streaming \in StreamingConfigs
  /\ app = "free" /\ session = 0 /\ stream = 0
  /\ capRunning = FALSE /\ running = FALSE /\ handle = 0
  /\ chan = [s \in Sessions |-> <<>>]
  /\ sent = 0 /\ clock = 0
  /\ worker = [s \in Sessions |-> NewWorker]

-----------------------------------------------------------------------------
(* The caller. *)

\* start, up to the audio: a stream that was open is replaced and closed.
StartCapture ==
  /\ app = "free" /\ session < Starts
  /\ session' = session + 1
  /\ stream' = session + 1
  /\ capRunning' = TRUE
  /\ app' = "starting"
  /\ sent' = 0 /\ clock' = 0
  /\ UNCHANGED <<configVars, running, handle, chan, worker>>

\* start, from there on: a worker that was running is not waited for.
StartWorker ==
  /\ app = "starting" /\ app' = "free"
  /\ running' = TRUE
  /\ handle' = session
  /\ worker' = [worker EXCEPT ![session].pc = "init"]
  /\ UNCHANGED <<configVars, session, stream, capRunning, audioVars>>

\* Seeded fault: stop joins the worker before telling it to stop.
StopJoinsFirst ==
  /\ app = "free" /\ session > 0 /\ app' = "joining"
  /\ UNCHANGED <<configVars, session, stream, capRunning, running, handle, audioVars, worker>>

\* stop, and Drop.
StopFlag ==
  /\ app = "free" /\ session > 0 /\ app' = "stopping"
  /\ running' = FALSE
  /\ UNCHANGED <<configVars, session, stream, capRunning, handle, audioVars, worker>>

StopStream ==
  /\ app = "stopping" /\ app' = "joining"
  /\ capRunning' = FALSE
  /\ stream' = 0
  /\ UNCHANGED <<configVars, session, running, handle, audioVars, worker>>

\* Seeded fault: stop returns without waiting for the worker.
StopNoJoin ==
  /\ app = "joining" /\ app' = "free"
  /\ handle' = 0
  /\ UNCHANGED <<configVars, session, stream, capRunning, running, audioVars, worker>>

StopJoin ==
  /\ app = "joining" /\ app' = "free"
  /\ handle # 0 => worker[handle].pc = "done"
  /\ handle' = 0
  /\ UNCHANGED <<configVars, session, stream, capRunning, running, audioVars, worker>>

-----------------------------------------------------------------------------
(* The audio thread. *)

\* The stream's callback emits a frame, with the time since the start.  The
\* frame goes nowhere when the worker has given up.
EmitFrame ==
  /\ stream # 0 /\ capRunning
  /\ sent < Frames[stream]
  /\ \E gap \in Gaps :
       /\ clock' = clock + gap
       /\ chan' = IF worker[stream].pc = "done" THEN chan
                  ELSE [chan EXCEPT ![stream] = Append(@, [n |-> sent + 1, t |-> clock + gap])]
  /\ sent' = sent + 1
  /\ UNCHANGED <<configVars, callerVars, worker>>

-----------------------------------------------------------------------------
(* The worker of session s. *)

Set(s, w) == worker' = [worker EXCEPT ![s] = w]

Elsewhere == UNCHANGED <<configVars, callerVars, sent, clock>>

Done(s) == Set(s, DoneWorker) /\ chan' = [chan EXCEPT ![s] = <<>>]

\* The VAD is created, or the worker gives up; running stays set.
WorkerInit(s) ==
  /\ worker[s].pc = "init"
  /\ \/ Set(s, [worker[s] EXCEPT !.pc = "top"]) /\ UNCHANGED chan
     \/ Done(s)
  /\ Elsewhere

WorkerTop(s) ==
  /\ worker[s].pc = "top"
  /\ IF running
       THEN Set(s, [worker[s] EXCEPT !.pc = "recv", !.event = NoEvent]) /\ UNCHANGED chan
       ELSE Done(s)
  /\ Elsewhere

\* recv_timeout delivers what is queued, even when the sender is gone.  The VAD
\* hears voice in it or none, or fails.
Receive(s) ==
  /\ worker[s].pc = "recv" /\ chan[s] # <<>>
  /\ chan' = [chan EXCEPT ![s] = Tail(@)]
  /\ LET f == Head(chan[s])
     IN  \/ \E voice \in BOOLEAN :
              Set(s, [worker[s] EXCEPT !.pc = "heard", !.frame = f, !.voice = voice])
         \/ Set(s, [worker[s] EXCEPT !.pc = "top", !.lost = @ \cup {f.n}])
  /\ Elsewhere

ReceiveTimeout(s) ==
  /\ worker[s].pc = "recv" /\ chan[s] = <<>> /\ stream = s
  /\ Set(s, [worker[s] EXCEPT !.pc = "top"])
  /\ Elsewhere /\ UNCHANGED chan

\* Seeded fault: a closed channel is taken for a timeout.
ReceiveDisconnectedContinues(s) ==
  /\ worker[s].pc = "recv" /\ chan[s] = <<>> /\ stream # s
  /\ Set(s, [worker[s] EXCEPT !.pc = "top"])
  /\ Elsewhere /\ UNCHANGED chan

\* The channel is empty and its sender was dropped with the stream.  So it is with
\* cpal's streams; ScreenCaptureKit's context, with the sender in it, is never freed
\* (sc_audio.rs:356), and a superseded worker of such a session polls on.
ReceiveDisconnected(s) ==
  /\ worker[s].pc = "recv" /\ chan[s] = <<>> /\ stream # s
  /\ Done(s)
  /\ Elsewhere

InterimDue(w) ==
  streaming /\ IsSpeaking(w.seg) /\ w.frame.t - w.interim >= Interim

\* A transcript may fail or be empty: then nothing is emitted.
InterimTranscript(s) ==
  /\ worker[s].pc = "heard"
  /\ LET w == worker[s]
     IN  IF InterimDue(w)
           THEN \E event \in {NoEvent, [kind |-> "interim", audio |-> w.seg.buffer]} :
                  Set(s, [w EXCEPT !.pc = "feed", !.interim = w.frame.t, !.event = event])
           ELSE Set(s, [w EXCEPT !.pc = "feed"])
  /\ Elsewhere /\ UNCHANGED chan

\* The frame is fed to the segmenter and its event is handed to the callback.
FeedSegmenter(s) ==
  /\ worker[s].pc = "feed"
  /\ \E answer \in (IF etd THEN EtdAnswers ELSE {"none"}) :
       LET w == worker[s]
           r == Feed(w.seg, w.frame, w.voice, answer)
       IN  Set(s, [w EXCEPT
             !.pc = "top",
             !.seg = r.seg,
             !.event = r.event,
             !.interim = IF r.event.kind = "end" /\ streaming THEN 0 ELSE @,
             !.from = IF r.event.kind = "start" THEN w.frame.n ELSE @,
             !.voiced = IF w.voice THEN w.frame.t ELSE @])
  /\ Elsewhere /\ UNCHANGED chan

Worker(s) ==
  \/ WorkerInit(s) \/ WorkerTop(s)
  \/ Receive(s) \/ ReceiveTimeout(s) \/ ReceiveDisconnected(s)
  \/ InterimTranscript(s) \/ FeedSegmenter(s)

-----------------------------------------------------------------------------

Caller == StartCapture \/ StartWorker \/ StopFlag \/ StopStream \/ StopJoin

Next == Caller \/ EmitFrame \/ (\E s \in Sessions : Worker(s))

Spec == Init /\ [][Next]_vars

\* Threads run, and a call that was made goes on.  Nobody has to start or stop,
\* and no audio has to arrive.
Fairness ==
  /\ WF_vars(StartWorker) /\ WF_vars(StopStream) /\ WF_vars(StopJoin)
  /\ \A s \in Sessions : WF_vars(Worker(s))

FairSpec == Spec /\ Fairness

-----------------------------------------------------------------------------

Frame == [n : Nat, t : Nat]

TypeOK ==
  /\ etd \in BOOLEAN /\ streaming \in BOOLEAN
  /\ app \in {"free", "starting", "stopping", "joining"}
  /\ session \in 0 .. Starts /\ stream \in 0 .. Starts /\ handle \in 0 .. Starts
  /\ capRunning \in BOOLEAN /\ running \in BOOLEAN
  /\ sent \in Nat /\ clock \in Nat
  /\ \A s \in Sessions :
       /\ \A n \in DOMAIN chan[s] : chan[s][n] \in Frame
       /\ worker[s].pc \in {"none", "init", "top", "recv", "heard", "feed", "done"}
       /\ worker[s].frame \in Frame
       /\ worker[s].seg.state \in {"Idle", "Speaking", "TrailingSilence"}
       /\ worker[s].seg.state = "Idle" => worker[s].seg.buffer = <<>>
       /\ worker[s].seg.silenceStart \in Nat /\ worker[s].seg.voiceStart \in Nat
       /\ worker[s].event.kind \in {"none", "start", "interim", "end"}

\* The audio holds the frames from a to b that the VAD did not fail on, once and
\* in order.
IsHeard(audio, w, a, b) ==
  /\ {audio[n] : n \in DOMAIN audio} = (a .. b) \ w.lost
  /\ \A j, n \in DOMAIN audio : j < n => audio[j] < audio[n]

\* The audio of an utterance is whole: what VoiceEnd carries is every frame
\* heard since its VoiceStart, once and in order, and what an interim
\* transcript is made of is the same up to the frame before.
AudioIsWhole ==
  \A s \in Sessions :
    LET w == worker[s]
    IN  /\ w.event.kind = "end" => IsHeard(w.event.audio, w, w.from, w.frame.n)
        /\ w.event.kind = "interim" => IsHeard(w.event.audio, w, w.from, w.frame.n - 1)

\* An utterance is cut only at the predictor's word or after a whole timeout
\* without voice: a pause that ended does not count towards it.
EndsAfterSilence ==
  \A s \in Sessions :
    LET w == worker[s]
    IN  w.event.kind = "end" =>
          \/ etd /\ w.event.endOfTurn
          \/ w.frame.t - w.voiced >= SilenceTimeout

\* Between two frames no utterance is left open whose silence is over: it is
\* closed on the first frame that reaches the timeout, three times as late when
\* the predictor found the turn incomplete.
NeverOverdue ==
  \A s \in Sessions :
    LET w       == worker[s]
        silence == w.frame.t - w.seg.silenceStart
    IN  w.pc = "top" /\ w.seg.state = "TrailingSilence" /\ silence > 0 =>
          silence < IF w.seg.incomplete THEN 3 * SilenceTimeout ELSE SilenceTimeout

\* After stop has returned no worker is left to call back, except one whose
\* handle a second start had overwritten.
QuietAfterStop ==
  app = "free" /\ handle = 0 /\ session > 0 => worker[session].pc = "done"

\* stop returns: the worker notices, whatever it was doing.
StopReturns == app \in {"stopping", "joining"} ~> app = "free"

\* A worker whose stream was replaced by a second start ends too, although
\* nobody joins it and "running" stays set: its channel closes.
SupersededEnds == \A s \in Sessions : (worker[s].pc # "none" /\ stream # s) ~> worker[s].pc = "done"

-----------------------------------------------------------------------------
(* A statement of the sources that the code does not keep. *)

\* lib.rs: "Ignore utterances shorter than this".  What is compared with the
\* minimum includes the silence that ended the utterance.
ShortUtterancesIgnored ==
  \A s \in Sessions :
    LET w == worker[s]
    IN  w.event.kind = "end" => w.voiced - w.seg.voiceStart >= MinSpeech

=============================================================================
