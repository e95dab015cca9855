------------------------------ MODULE Segmenter ------------------------------
(***************************************************************************)
(* The speech segmentation state machine VadSegmenter                      *)
(* (crates/speech-capture/src/segmenter.rs): frames with a voice flag in,  *)
(* VoiceStart and VoiceEnd out, with the audio between them.               *)
(*                                                                         *)
(* A frame has a number n and a timestamp t.  Its samples are its number,  *)
(* so that a buffer of audio is a sequence of numbers.                     *)
(***************************************************************************)
EXTENDS Integers, Sequences

CONSTANTS MinSpeech,      \* min_speech_ms
          SilenceTimeout  \* silence_timeout_ms

ASSUME SegmenterAssumption == MinSpeech \in Nat /\ SilenceTimeout \in Nat

\* extended_silence_timeout_ms as VadSegmenter::new sets it.
Extended == 3 * SilenceTimeout

NoEvent == [kind |-> "none"]

NewSegmenter == [state        |-> "Idle",
                 silenceStart |-> 0,
                 incomplete   |-> FALSE,
                 buffer       |-> <<>>,
                 voiceStart   |-> 0]

IsSpeaking(g) == g.state # "Idle"

\* The answers of the end-of-turn predictor; "none" also when there is none.
EtdAnswers == {"none", "complete", "incomplete"}

-----------------------------------------------------------------------------
(* feed.  Each operator returns the segmenter and the event it emits. *)

Open(g, f) ==
  [seg   |-> [g EXCEPT !.state = "Speaking", !.voiceStart = f.t, !.buffer = <<f.n>>],
   event |-> [kind |-> "start"]]

LongEnough(g, f) == f.t - g.voiceStart >= MinSpeech

\* The utterance ends here, or is discarded when it was too short.
Close(g, f, endOfTurn) ==
  [seg   |-> [g EXCEPT !.state = "Idle", !.buffer = <<>>],
   event |-> IF LongEnough(g, f)
               THEN [kind |-> "end", audio |-> g.buffer, endOfTurn |-> endOfTurn]
               ELSE NoEvent]

Keep(g) == [seg |-> g, event |-> NoEvent]

Resume(g) == Keep([g EXCEPT !.state = "Speaking"])

TimeoutOf(g) == IF g.incomplete THEN Extended ELSE SilenceTimeout

\* Seeded fault: the timeout itself is not enough.
SilenceOverStrict(g, f) == f.t - g.silenceStart > TimeoutOf(g)

SilenceOver(g, f) == f.t - g.silenceStart >= TimeoutOf(g)

\* Seeded fault: the frame that opens the silence is left out of the audio.
HearLosesOnset(g, f, voice) ==
  IF g.state = "Speaking" /\ ~voice THEN g ELSE [g EXCEPT !.buffer = Append(@, f.n)]

Hear(g, f, voice) == [g EXCEPT !.buffer = Append(@, f.n)]

\* answer is what the predictor says if it is asked, at the onset of silence.
Feed(g, f, voice, answer) ==
  LET heard == Hear(g, f, voice)
  IN CASE g.state = "Idle" /\ voice -> Open(g, f)
       [] g.state = "Idle" /\ ~voice -> Keep(g)
       [] g.state = "Speaking" /\ voice -> Keep(heard)
       [] g.state = "Speaking" /\ ~voice /\ answer = "complete" -> Close(heard, f, TRUE)
       [] g.state = "Speaking" /\ ~voice /\ answer # "complete" ->
            Keep([heard EXCEPT !.state = "TrailingSilence", !.silenceStart = f.t,
                               !.incomplete = (answer = "incomplete")])
       [] g.state = "TrailingSilence" /\ voice -> Resume(heard)
       [] g.state = "TrailingSilence" /\ ~voice /\ SilenceOver(g, f) ->
            Close(heard, f, ~g.incomplete)
       [] OTHER -> Keep(heard)

=============================================================================
