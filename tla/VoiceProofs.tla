----------------------------- MODULE VoiceProofs -----------------------------
(***************************************************************************)
(* The two ends of the voice path: the audio captured (AudioCapture), and  *)
(* the answers to what was said (VoiceAgent).                              *)
(*                                                                         *)
(* Only the stream that is kept delivers, and the frames of a stream       *)
(* follow on from each other: for any number of starts, any platform, any  *)
(* sizes of batches and frames, and a system that answers when it likes.   *)
(*                                                                         *)
(* OnlyTheKeptDelivers speaks of the moments between calls. The invariant  *)
(* names, for every point of a call, the streams that may still deliver;   *)
(* all others are quiet for good: a cpal stream is off, a ScreenCaptureKit *)
(* one has its flag down, which nothing raises again.                      *)
(*                                                                         *)
(* Each utterance that entered the queue has one place, and they are in    *)
(* the order they were said: for channels of any capacity, any number of   *)
(* utterances and iterations, and any answers of the service.              *)
(* OneOutcomeEach becomes inductive with what the runner holds: an         *)
(* utterance from its Take until its outcome is out, and an outcome of     *)
(* that very utterance. All steps but Speak then leave the places as they  *)
(* are, up to a blank transcript: each moves one from the head of a part   *)
(* to the end of the part before.                                          *)
(*                                                                         *)
(* What the provider is sent is well formed: results come right after the  *)
(* message that requested them, one for each request. The invariant is     *)
(* about the history, turn by turn: one with results follows the one whose *)
(* requests they answer, all of them and in their order. The wire then     *)
(* leaves out blocks and whole turns, but no request, no result, and so no *)
(* turn that has one.                                                      *)
(***************************************************************************)
EXTENDS AudioCapture, VoiceAgent, Induction, SequenceTheorems, TLAPS

-----------------------------------------------------------------------------
(* The capture *)

Record == [kind : {"none", "cpal", "sc"}, os : OsStates, flag : BOOLEAN, handling : BOOLEAN,
           buffer : Seq(Nat), in : Nat, out : Nat]

Points == {"free", "playing", "content", "attaching", "starting", "started", "replacing",
           "stopping", "closing"}

CaptureTypes ==
  /\ made \in 0 .. Starts /\ backend \in 0 .. made
  /\ caller \in [pc : Points, new : 0 .. made, closing : 0 .. Starts, then : 0 .. made]
  /\ stream \in [Streams -> Record]

\* It can reach the callback no more, whatever the flags and the system do.
Quiet(s) == IF s.kind = "sc" THEN ~s.flag ELSE s.os = "off"

\* The streams that may deliver, at each point of the owner's calls.
Live ==
  CASE caller.pc \in {"free", "playing", "stopping"} -> {backend}
    [] caller.pc = "closing" -> {caller.then}
    [] OTHER -> {backend, caller.new}

OthersQuiet == \A k \in Streams \ Live : Quiet(stream[k])

\* The stream in the making is a later one than the one that is kept, and has the
\* kind its call gave it.
KindsKnown ==
  /\ caller.pc \notin {"free", "stopping", "closing"} => backend < caller.new
  /\ caller.pc = "playing" => caller.new \in Streams /\ stream[caller.new].kind = "cpal"
  /\ caller.pc \in {"content", "attaching", "starting"} =>
       caller.new \in Streams /\ stream[caller.new].kind = "sc"
  /\ \A k \in Streams : stream[k].kind = "none" => stream[k].os = "off"

\* The n samples that follow the one with number a.
After(a, n) == [i \in 1 .. n |-> a + i]

Buffered(s) ==
  /\ s.out <= s.in
  /\ s.buffer = After(s.out, s.in - s.out)
  /\ s.handling \/ Len(s.buffer) < FrameSize

CaptureInv == CaptureTypes /\ OthersQuiet /\ KindsKnown

\* A capture that is closed is quiet, whatever it was doing.
LEMMA ClosedIsQuiet ==
  ASSUME CaptureTypes, NEW k \in Streams, stream[k].kind = "none" => stream[k].os = "off"
  PROVE  /\ Closed(k) \in [Streams -> Record]
         /\ Quiet(Closed(k)[k])
         /\ \A j \in Streams \ {k} : Closed(k)[j] = stream[j]
         /\ \A j \in Streams : Closed(k)[j].kind = stream[j].kind
         /\ Closed(k)[k].kind = "none" => Closed(k)[k].os = "off"
<1>1. stream[k] \in Record
  BY DEF CaptureTypes
<1> QED BY <1>1 DEF CaptureTypes, Closed, Record, OsStates, Quiet

\* A stream that a call has just made is a record of a stream.
LEMMA NewStreamTyped == NewStream \in Record
BY DEF NewStream, Record, OsStates

\* Before the first start nothing delivers.
LEMMA CaptureStarts == Init => CaptureInv
<1> SUFFICES ASSUME Init PROVE CaptureInv
  OBVIOUS
<1>1. CaptureTypes
  BY AudioCaptureAssumption, NewStreamTyped DEF Init, CaptureTypes, Free, Points
<1>2. \A k \in Streams : Quiet(stream[k]) /\ stream[k].kind = "none" /\ stream[k].os = "off"
  BY DEF Init, NewStream, Quiet
<1>3. caller.pc = "free"
  BY DEF Init, Free
<1> QED BY <1>1, <1>2, <1>3 DEF CaptureInv, OthersQuiet, KindsKnown

\* Every call of the owner, at each of its points.
LEMMA OwnerKeeps == CaptureInv /\ Owner => CaptureInv'
<1> SUFFICES ASSUME CaptureInv, Owner PROVE CaptureInv'
  OBVIOUS
<1> USE DEF CaptureInv
<1>a. Starts \in Nat /\ made \in 0 .. Starts /\ backend \in 0 .. made /\ caller.new \in 0 .. made
      /\ caller.then \in 0 .. made /\ stream \in [Streams -> Record]
  BY AudioCaptureAssumption DEF CaptureTypes
<1>b. \A kind \in {"cpal", "sc"}, flag \in BOOLEAN :
        [NewStream EXCEPT !.kind = kind, !.flag = flag] \in Record
  <2>1. NewStream \in Record
    BY NewStreamTyped
  <2> QED BY <2>1 DEF Record
<1>1. ASSUME caller.pc = "free", made < Starts, NEW kind \in {"cpal", "sc"}, NEW flag \in BOOLEAN,
             NEW point \in {"playing", "content"}, Begin(kind, flag, point),
             point = "playing" <=> kind = "cpal"
      PROVE CaptureInv'
  <2>1. made + 1 \in Streams /\ made + 1 # backend /\ made' = made + 1 /\ backend' = backend
    BY <1>1, <1>a DEF Begin, Streams
  <2>2. stream' = [stream EXCEPT ![made + 1] = [NewStream EXCEPT !.kind = kind, !.flag = flag]]
    BY <1>1 DEF Begin
  <2>3. caller' = [pc |-> point, new |-> made + 1, closing |-> 0, then |-> 0]
    BY <1>1 DEF Begin, Free
  <2>4. CaptureTypes'
    <3>1. stream' \in [Streams -> Record]
      BY <1>a, <1>b, <1>1, <2>1, <2>2
    <3> QED BY <1>a, <2>1, <2>3, <3>1, <1>1 DEF CaptureTypes, Points, Streams
  <2>5. stream'[made + 1].kind = kind /\ stream'[made + 1].os = "off"
    BY <1>a, <2>1, <2>2 DEF NewStream
  <2>6. \A k \in Streams \ {made + 1} : stream'[k] = stream[k]
    BY <1>a, <2>1, <2>2
  <2>7. KindsKnown'
    BY <1>1, <1>a, <2>1, <2>3, <2>5, <2>6 DEF KindsKnown
  <2>8. \A k \in Streams \ {backend, made + 1} : Quiet(stream'[k])
    BY <1>1, <2>6 DEF OthersQuiet, Live
  <2>9. kind = "cpal" => Quiet(stream'[made + 1])
    BY <2>5 DEF Quiet
  <2>10. OthersQuiet'
    BY <1>1, <2>1, <2>3, <2>8, <2>9 DEF OthersQuiet, Live
  <2> QED BY <2>4, <2>7, <2>10
<1>2. CASE StartCpal
  BY <1>1, <1>2 DEF StartCpal
<1>3. CASE StartScreenCaptureKit
  BY <1>1, <1>3 DEF StartScreenCaptureKit
<1>4. CASE Play
  <2>1. caller.pc = "playing" /\ caller.new \in Streams /\ stream[caller.new].kind = "cpal"
    BY <1>4 DEF Play, KindsKnown
  <2>2. CASE stream' = [stream EXCEPT ![caller.new].os = "on"] /\ caller' = [caller EXCEPT !.pc = "started"]
    <3>1. /\ stream' \in [Streams -> Record]
          /\ \A k \in Streams \ {caller.new} : stream'[k] = stream[k]
          /\ \A k \in Streams : stream'[k].kind = stream[k].kind
      BY ZenonT(30), <1>a, <2>1, <2>2 DEF Record, OsStates
    <3>2. caller'.pc = "started" /\ caller'.new = caller.new /\ UNCHANGED <<made, backend>>
      BY <1>4, <2>2 DEF Play, CaptureTypes
    <3>3. CaptureTypes'
      BY <2>2, <3>1, <3>2 DEF CaptureTypes, Points
    <3>4. OthersQuiet' /\ KindsKnown'
      BY <2>1, <3>1, <3>2 DEF OthersQuiet, KindsKnown, Live
    <3> QED BY <3>3, <3>4
  <2>3. CASE caller' = Free /\ UNCHANGED stream
    BY <1>4, <1>a, <2>1, <2>3 DEF Play, Free, CaptureTypes, Points, KindsKnown, OthersQuiet, Live
  <2> QED BY <1>4, <2>2, <2>3 DEF Play
<1>5. ASSUME Refused, caller.pc \in {"content", "attaching"}, UNCHANGED <<config, running, backend, made>>
      PROVE CaptureInv'
  <2>1. caller.new \in Streams /\ stream[caller.new].kind = "sc"
    BY <1>5 DEF KindsKnown
  <2>2. stream' \in [Streams -> Record] /\ stream'[caller.new].kind = "sc" /\ ~stream'[caller.new].flag
    BY ZenonT(30), <1>5, <1>a, <2>1 DEF Refused, Record
  <2>3. \A k \in Streams : stream'[k].kind = stream[k].kind /\ stream'[k].os = stream[k].os
    BY <1>5, <1>a, <2>1 DEF Refused, Record
  <2>4. \A k \in Streams \ {caller.new} : stream'[k] = stream[k]
    BY <1>5, <1>a, <2>1 DEF Refused
  <2>5. caller' = [pc |-> "free", new |-> 0, closing |-> 0, then |-> 0] /\ backend' = backend /\ made' = made
    BY <1>5 DEF Refused, Free
  <2>6. CaptureTypes'
    BY <1>a, <2>2, <2>5 DEF CaptureTypes, Points
  <2>7. OthersQuiet'
    BY <1>5, <2>2, <2>4, <2>5 DEF OthersQuiet, Live, Quiet
  <2> QED BY <2>3, <2>5, <2>6, <2>7 DEF KindsKnown
<1>6. CASE GetShareableContent
  <2>1. CASE caller' = [caller EXCEPT !.pc = "attaching"] /\ UNCHANGED stream
    BY <1>6, <2>1 DEF GetShareableContent, CaptureTypes, Points, KindsKnown, OthersQuiet, Live
  <2> QED BY <1>5, <1>6, <2>1 DEF GetShareableContent
<1>7. CASE AddStreamOutput
  <2>1. CASE stream' = [stream EXCEPT ![caller.new].os = "starting"]
             /\ caller' = [caller EXCEPT !.pc = "starting"]
    <3>1. caller.pc = "attaching" /\ caller.new \in Streams /\ stream[caller.new].kind = "sc"
      BY <1>7 DEF AddStreamOutput, KindsKnown
    <3>2. /\ stream' \in [Streams -> Record]
          /\ \A k \in Streams \ {caller.new} : stream'[k] = stream[k]
          /\ \A k \in Streams : stream'[k].kind = stream[k].kind
      BY ZenonT(30), <1>a, <2>1, <3>1 DEF Record, OsStates
    <3>3. caller'.pc = "starting" /\ caller'.new = caller.new /\ UNCHANGED <<made, backend>>
      BY <1>7, <2>1 DEF AddStreamOutput, CaptureTypes
    <3>4. CaptureTypes'
      BY <2>1, <3>2, <3>3 DEF CaptureTypes, Points
    <3>5. OthersQuiet' /\ KindsKnown'
      BY <3>1, <3>2, <3>3 DEF OthersQuiet, KindsKnown, Live
    <3> QED BY <3>4, <3>5
  <2> QED BY <1>5, <1>7, <2>1 DEF AddStreamOutput
<1>8. CASE ScStarted
  BY <1>8 DEF ScStarted, CaptureTypes, Points, KindsKnown, OthersQuiet, Live
<1>9. ASSUME NEW k \in Streams, NEW then \in 0 .. made, Close(k, then),
             UNCHANGED <<config, running, backend, made>>,
             \A j \in Streams \ {k, then} : Quiet(stream[j]), k # then
      PROVE CaptureInv'
  <2>1. stream' = Closed(k) /\ caller' = [pc |-> "closing", new |-> 0, closing |-> k, then |-> then]
    BY <1>9 DEF Close, Free
  <2>2. /\ stream' \in [Streams -> Record]
        /\ Quiet(stream'[k])
        /\ \A j \in Streams \ {k} : stream'[j] = stream[j]
        /\ stream'[k].kind = "none" => stream'[k].os = "off"
    BY <2>1, ClosedIsQuiet DEF KindsKnown
  <2>3. CaptureTypes'
    BY <1>9, <1>a, <2>1, <2>2 DEF CaptureTypes, Points, Streams
  <2>4. OthersQuiet'
    BY <1>9, <2>1, <2>2 DEF OthersQuiet, Live
  <2>5. KindsKnown'
    BY <2>1, <2>2 DEF KindsKnown
  <2> QED BY <2>3, <2>4, <2>5
<1>10. CASE ScNotStarted
  <2>1. caller.new \in Streams /\ caller.pc = "starting" /\ caller.new # backend
    BY <1>10, <1>a DEF ScNotStarted, KindsKnown
  <2>2. \A j \in Streams \ {caller.new, backend} : Quiet(stream[j])
    BY <2>1 DEF OthersQuiet, Live
  <2> QED BY <1>9, <1>10, <1>a, <2>1, <2>2 DEF ScNotStarted
<1>11. CASE SetRunning
  BY <1>11 DEF SetRunning, CaptureTypes, Points, KindsKnown, OthersQuiet, Live
<1>12. CASE Replace
  <2>1. /\ caller.pc = "replacing" /\ caller.new # backend
        /\ \A j \in Streams \ {backend, caller.new} : Quiet(stream[j])
    BY <1>12, <1>a DEF Replace, OthersQuiet, Live, KindsKnown
  <2>2. CASE backend = 0
    BY <1>12, <1>a, <2>1, <2>2 DEF Replace, Free, CaptureTypes, Points, KindsKnown, OthersQuiet, Live, Streams
  <2>3. CASE backend # 0
    <3>1. backend \in Streams
      BY <1>a, <2>3 DEF Streams
    <3> QED BY <1>9, <1>12, <1>a, <2>1, <2>3, <3>1 DEF Replace
  <2> QED BY <2>2, <2>3
<1>13. CASE Stop
  BY <1>13, <1>a DEF Stop, Free, CaptureTypes, Points, KindsKnown, OthersQuiet, Live
<1>14. CASE StopBackend
  <2>1. caller.pc = "stopping" /\ \A j \in Streams \ {backend} : Quiet(stream[j])
    BY <1>14 DEF StopBackend, OthersQuiet, Live
  <2>2. CASE backend = 0
    BY <1>14, <1>a, <2>1, <2>2 DEF StopBackend, Free, CaptureTypes, Points, KindsKnown, OthersQuiet, Live
  <2>3. CASE backend # 0
    <3>1. backend \in Streams /\ 0 \in 0 .. made
      BY <1>a, <2>3 DEF Streams
    <3> QED BY <1>9, <1>14, <1>a, <2>1, <2>3, <3>1 DEF StopBackend
  <2> QED BY <2>2, <2>3
<1>15. CASE CloseReturns
  BY <1>15, <1>a DEF CloseReturns, Free, CaptureTypes, Points, KindsKnown, OthersQuiet, Live
<1> QED BY <1>2, <1>3, <1>4, <1>6, <1>7, <1>8, <1>10, <1>11, <1>12, <1>13, <1>14, <1>15 DEF Owner

\* A batch is a number of samples, also when it is resampled.
LEMMA ResampledIsNat == \A k \in Streams, n \in Batches : Resampled(k, n) \in Nat
<1> SUFFICES ASSUME NEW k \in Streams, NEW n \in Batches PROVE Resampled(k, n) \in Nat
  OBVIOUS
<1>1. n \in Nat /\ Ratio \in Nat \ {0}
  BY AudioCaptureAssumption
<1>2. (n + Ratio - 1) \div Ratio \in Nat
  BY <1>1
<1> QED BY <1>1, <1>2 DEF Resampled

\* What the system and the handlers do leaves the owner's fields alone, and a
\* quiet stream quiet.
LEMMA SystemKeeps == \A k \in Streams : CaptureInv /\ System(k) => CaptureInv'
<1> SUFFICES ASSUME NEW k \in Streams, CaptureInv, System(k) PROVE CaptureInv'
  OBVIOUS
<1>a. stream \in [Streams -> Record] /\ stream[k] \in Record
  BY DEF CaptureInv, CaptureTypes
<1>1. ASSUME NEW s \in Record, stream' = [stream EXCEPT ![k] = s], Sys,
             s.kind = stream[k].kind, s.flag = stream[k].flag,
             stream[k].os = "off" => s.os = "off"
      PROVE CaptureInv'
  <2>1. stream' \in [Streams -> Record]
    BY <1>1, <1>a
  <2>2. \A j \in Streams : /\ Quiet(stream[j]) => Quiet(stream'[j])
                           /\ stream'[j].kind = stream[j].kind
                           /\ stream[j].os = "off" => stream'[j].os = "off"
    BY <1>1, <1>a DEF Quiet
  <2> QED BY <1>1, <2>1, <2>2 DEF CaptureInv, CaptureTypes, OthersQuiet, KindsKnown, Live, Sys
<1>2. CASE Answer(k)
  <2>1. PICK os \in OsStates : /\ stream' = [stream EXCEPT ![k].os = os]
                               /\ stream[k].os # "off"
    BY <1>2 DEF Answer, OsStates
  <2>2. [stream[k] EXCEPT !.os = os] \in Record
    BY <1>a, <2>1 DEF Record
  <2>3. stream' = [stream EXCEPT ![k] = [stream[k] EXCEPT !.os = os]]
    BY <1>a, <2>1
  <2> QED BY <1>1, <1>2, <1>a, <2>1, <2>2, <2>3 DEF Answer, Record
<1>3. CASE HandlerEnters(k)
  <2>1. PICK n \in Batches :
          stream' = [stream EXCEPT
            ![k].handling = TRUE,
            ![k].buffer = @ \o [i \in 1 .. Resampled(k, n) |-> stream[k].in + i],
            ![k].in = @ + Resampled(k, n)]
    BY <1>3 DEF HandlerEnters
  <2> DEFINE m == Resampled(k, n)
             taken == [i \in 1 .. m |-> stream[k].in + i]
             s == [stream[k] EXCEPT !.handling = TRUE, !.buffer = @ \o taken, !.in = @ + m]
  <2>2. m \in Nat /\ taken \in Seq(Nat)
    <3>1. m \in Nat /\ taken \in [1 .. m -> Nat]
      BY ResampledIsNat, <1>a DEF Record
    <3> QED BY <3>1, SeqDef
  <2>3. stream[k].buffer \o taken \in Seq(Nat) /\ stream[k].in + m \in Nat
    BY <1>a, <2>2, ConcatProperties DEF Record
  <2>4. s \in Record
    BY <1>a, <2>3 DEF Record
  <2>5. stream' = [stream EXCEPT ![k] = s]
    BY <1>a, <2>1
  <2>6. s.kind = stream[k].kind /\ s.flag = stream[k].flag /\ s.os = stream[k].os
    BY <1>a DEF Record
  <2> HIDE DEF m, taken, s
  <2> QED BY <1>1, <1>3, <2>4, <2>5, <2>6 DEF HandlerEnters
<1>4. CASE EmitFrame(k)
  <2> DEFINE s == [stream[k] EXCEPT
                     !.buffer = SubSeq(@, FrameSize + 1, Len(@)),
                     !.out = stream[k].buffer[FrameSize]]
  <2>1. stream' = [stream EXCEPT ![k] = s]
    BY <1>4, <1>a DEF EmitFrame
  <2>2. FrameSize \in 1 .. Len(stream[k].buffer) /\ stream[k].buffer \in Seq(Nat)
    BY <1>4, <1>a, AudioCaptureAssumption DEF EmitFrame, Record
  <2>3. SubSeq(stream[k].buffer, FrameSize + 1, Len(stream[k].buffer)) \in Seq(Nat)
        /\ stream[k].buffer[FrameSize] \in Nat
    BY <2>2
  <2>4. s \in Record /\ s.kind = stream[k].kind /\ s.flag = stream[k].flag /\ s.os = stream[k].os
    BY <1>a, <2>3 DEF Record
  <2> HIDE DEF s
  <2> QED BY <1>1, <1>4, <2>1, <2>4 DEF EmitFrame
<1>5. CASE HandlerReturns(k)
  <2> DEFINE s == [stream[k] EXCEPT !.handling = FALSE]
  <2>1. s \in Record /\ stream' = [stream EXCEPT ![k] = s]
    BY <1>5, <1>a DEF HandlerReturns, Record
  <2>2. s.kind = stream[k].kind /\ s.flag = stream[k].flag /\ s.os = stream[k].os
    BY <1>a DEF Record
  <2> HIDE DEF s
  <2> QED BY <1>1, <1>5, <2>1, <2>2 DEF HandlerReturns
<1> QED BY <1>2, <1>3, <1>4, <1>5 DEF System

\* At every moment the streams outside Live are quiet for good.
THEOREM CaptureInvariance == Spec => []CaptureInv
<1>1. CaptureInv /\ [Next]_vars => CaptureInv'
  <2> SUFFICES ASSUME CaptureInv, [Next]_vars PROVE CaptureInv'
    OBVIOUS
  <2>1. CASE UNCHANGED vars
    BY <2>1 DEF vars, CaptureInv, CaptureTypes, OthersQuiet, KindsKnown, Live
  <2> QED BY <2>1, OwnerKeeps, SystemKeeps DEF Next
<1> QED BY <1>1, CaptureStarts, PTL DEF Spec

\* Between calls only the stream that is kept can reach its callback anew: not a
\* stopped or replaced one, and not one whose start was granted too late.
THEOREM KeptDelivers == Spec => []OnlyTheKeptDelivers
<1>1. CaptureInv => OnlyTheKeptDelivers
  BY DEF CaptureInv, OnlyTheKeptDelivers, OthersQuiet, Live, Quiet, Flag
<1> QED BY <1>1, CaptureInvariance, PTL

\* What a handler does to its stream's samples, and that the owner does nothing
\* to them.
Samples == \A k \in Streams : Buffered(stream[k])

\* The owner's calls leave the samples of every stream following on.
LEMMA OwnerKeepsSamples == CaptureInv /\ Samples /\ Owner => Samples'
<1> SUFFICES ASSUME CaptureInv, Samples, Owner PROVE Samples'
  OBVIOUS
<1>a. stream \in [Streams -> Record] /\ FrameSize \in Nat \ {0}
  BY AudioCaptureAssumption DEF CaptureInv, CaptureTypes
<1>1. ASSUME \A k \in Streams : /\ stream'[k].buffer = stream[k].buffer
                                /\ stream'[k].in = stream[k].in
                                /\ stream'[k].out = stream[k].out
                                /\ stream'[k].handling = stream[k].handling
      PROVE Samples'
  BY <1>1 DEF Samples, Buffered
<1>2. ASSUME NEW kind, NEW flag, NEW point, Begin(kind, flag, point) PROVE Samples'
  <2>1. stream' = [stream EXCEPT ![made + 1] = [NewStream EXCEPT !.kind = kind, !.flag = flag]]
    BY <1>2 DEF Begin
  <2> DEFINE s == [NewStream EXCEPT !.kind = kind, !.flag = flag]
  <2>2. s.buffer = <<>> /\ s.in = 0 /\ s.out = 0 /\ ~s.handling
    BY DEF NewStream
  <2>3. <<>> = After(s.out, s.in - s.out)
    BY <2>2 DEF After
  <2>4. Buffered(s)
    BY <1>a, <2>2, <2>3 DEF Buffered
  <2> HIDE DEF s
  <2> QED BY <1>a, <2>1, <2>4 DEF Samples, s
<1>3. CASE StartCpal \/ StartScreenCaptureKit
  BY <1>2, <1>3 DEF StartCpal, StartScreenCaptureKit
<1>4. CASE Play \/ GetShareableContent \/ AddStreamOutput
  <2>1. CASE UNCHANGED stream
    BY <1>1, <2>1
  <2>2. ASSUME NEW x, NEW v, stream' = [stream EXCEPT ![x].os = v] PROVE Samples'
    BY <1>1, <1>a, <2>2 DEF Record
  <2>3. ASSUME NEW x, NEW v, stream' = [stream EXCEPT ![x].flag = v] PROVE Samples'
    BY <1>1, <1>a, <2>3 DEF Record
  <2> QED BY <1>4, <2>1, <2>2, <2>3 DEF Play, GetShareableContent, AddStreamOutput, Refused
<1>5. CASE ScNotStarted \/ Replace \/ StopBackend
  <2>1. CASE UNCHANGED stream
    BY <1>1, <2>1
  <2>2. ASSUME NEW k, stream' = Closed(k) PROVE Samples'
    BY <1>1, <1>a, <2>2 DEF Closed, Record
  <2> QED BY <1>5, <2>1, <2>2 DEF ScNotStarted, Replace, StopBackend, Close
<1>6. CASE ScStarted \/ SetRunning \/ Stop \/ CloseReturns
  BY <1>1, <1>6 DEF ScStarted, SetRunning, Stop, CloseReturns
<1> QED BY <1>3, <1>4, <1>5, <1>6 DEF Owner

\* The n samples after a are a sequence, each one more than the last.
LEMMA AfterIsSeq ==
  ASSUME NEW a \in Nat, NEW n \in Nat
  PROVE  /\ After(a, n) \in Seq(Nat) /\ Len(After(a, n)) = n
         /\ \A i \in 1 .. n : After(a, n)[i] = a + i
<1>1. [i \in 1 .. n |-> a + i] \in [1 .. n -> Nat]
  OBVIOUS
<1>2. [i \in 1 .. n |-> a + i] \in Seq(Nat)
  BY <1>1, SeqDef
<1>3. Len([i \in 1 .. n |-> a + i]) = n
  BY <1>2
<1> QED BY <1>2, <1>3 DEF After

\* Joining what follows b to what lies between a and b.
LEMMA RunsJoin ==
  ASSUME NEW a \in Nat, NEW b \in Nat, NEW m \in Nat, a <= b
  PROVE  After(a, b - a) \o After(b, m) = After(a, b + m - a)
<1> DEFINE s == After(a, b - a)
           t == After(b, m)
           u == After(a, b + m - a)
<1>1. b - a \in Nat /\ b + m - a \in Nat
  OBVIOUS
<1>2. s \in Seq(Nat) /\ t \in Seq(Nat) /\ u \in Seq(Nat)
  BY <1>1, AfterIsSeq
<1>3. Len(s) = b - a /\ Len(t) = m /\ Len(u) = b + m - a
  BY <1>1, AfterIsSeq
<1>4. s \o t \in Seq(Nat) /\ Len(s \o t) = b + m - a
  <2> HIDE DEF s, t
  <2> QED BY <1>1, <1>2, <1>3, ConcatProperties
<1>5. \A i \in 1 .. b + m - a : (s \o t)[i] = u[i]
  <2> SUFFICES ASSUME NEW i \in 1 .. b + m - a PROVE (s \o t)[i] = u[i]
    OBVIOUS
  <2>1. (s \o t)[i] = IF i <= b - a THEN s[i] ELSE t[i - (b - a)]
    <3> HIDE DEF s, t
    <3>1. i \in 1 .. Len(s) + Len(t)
      BY <1>1, <1>3
    <3>2. (s \o t)[i] = IF i <= Len(s) THEN s[i] ELSE t[i - Len(s)]
      BY <1>2, <3>1, ConcatProperties
    <3> QED BY <1>3, <3>2
  <2>2. i <= b - a => s[i] = a + i
    BY <1>1, AfterIsSeq
  <2>3. ~(i <= b - a) => t[i - (b - a)] = b + (i - (b - a))
    BY <1>1, AfterIsSeq
  <2>4. u[i] = a + i
    BY <1>1, AfterIsSeq
  <2> HIDE DEF s, t, u
  <2> QED BY <1>1, <2>1, <2>2, <2>3, <2>4
<1> HIDE DEF s, t, u
<1>6. s \o t = u
  BY <1>2, <1>3, <1>4, <1>5, SeqEqual
<1> QED BY <1>6 DEF s, t, u

\* What lies between a and b, its length, its n-th number, and what is left when
\* the first n are taken off.
LEMMA RunsPart ==
  ASSUME NEW a \in Nat, NEW b \in Nat, NEW n \in Nat \ {0}, n <= b - a
  PROVE  /\ Len(After(a, b - a)) = b - a
         /\ After(a, b - a)[n] = a + n
         /\ SubSeq(After(a, b - a), n + 1, b - a) = After(a + n, b - (a + n))
<1> DEFINE s == After(a, b - a)
           u == After(a + n, b - (a + n))
           p == SubSeq(s, n + 1, b - a)
<1>1. b - (a + n) \in Nat /\ b - a \in Nat /\ a + n \in Nat
  OBVIOUS
<1>2. u \in Seq(Nat) /\ Len(u) = b - (a + n) /\ s \in Seq(Nat) /\ Len(s) = b - a
  BY <1>1, AfterIsSeq
<1>3. s[n] = a + n
  BY <1>1, AfterIsSeq
<1>4. /\ p \in Seq(Nat)
      /\ Len(p) = IF n + 1 <= b - a THEN (b - a) - (n + 1) + 1 ELSE 0
      /\ \A i \in 1 .. (b - a) - (n + 1) + 1 : p[i] = s[(n + 1) + i - 1]
  <2>1. \A i \in 1 .. b - a : s[i] = a + i
    BY <1>1, AfterIsSeq
  <2>2. \A i \in n + 1 .. b - a : i \in 1 .. b - a /\ a + i \in Nat
    BY <1>1
  <2>3. \A i \in n + 1 .. b - a : s[i] \in Nat
    <3> HIDE DEF s
    <3> QED BY <2>1, <2>2
  <2>4. n + 1 \in Int /\ b - a \in Int
    BY <1>1
  <2> HIDE DEF s
  <2> QED BY <2>3, <2>4, SubSeqProperties
<1>5. Len(p) = b - (a + n)
  BY <1>4
<1>6. \A i \in 1 .. b - (a + n) : p[i] = u[i]
  <2> SUFFICES ASSUME NEW i \in 1 .. b - (a + n) PROVE p[i] = u[i]
    OBVIOUS
  <2>1. p[i] = s[(n + 1) + i - 1]
    <3> HIDE DEF p, s
    <3> QED BY <1>4
  <2>2. s[(n + 1) + i - 1] = a + (n + i) /\ u[i] = (a + n) + i
    BY <1>1, AfterIsSeq
  <2> HIDE DEF p, s, u
  <2> QED BY <2>1, <2>2
<1> HIDE DEF p, u
<1>7. p = u
  BY <1>2, <1>4, <1>5, <1>6, SeqEqual
<1> QED BY <1>2, <1>3, <1>7 DEF p, u, s

\* So do a stream's handler and the answers of the system.
LEMMA SystemKeepsSamples == \A k \in Streams : CaptureInv /\ Samples /\ System(k) => Samples'
<1> SUFFICES ASSUME NEW k \in Streams, CaptureInv, Samples, System(k) PROVE Samples'
  OBVIOUS
<1>a. stream \in [Streams -> Record] /\ stream[k] \in Record /\ FrameSize \in Nat \ {0}
  BY AudioCaptureAssumption DEF CaptureInv, CaptureTypes
<1>b. Buffered(stream[k])
  BY DEF Samples
<1>c. /\ stream[k].in \in Nat /\ stream[k].out \in Nat /\ stream[k].out <= stream[k].in
      /\ stream[k].buffer = After(stream[k].out, stream[k].in - stream[k].out)
      /\ stream[k].in - stream[k].out \in Nat
  BY <1>a, <1>b DEF Record, Buffered
<1>1. ASSUME NEW s, stream' = [stream EXCEPT ![k] = s], Buffered(s) PROVE Samples'
  BY <1>1, <1>a DEF Samples
<1>2. CASE Answer(k)
  <2>1. PICK os : stream' = [stream EXCEPT ![k].os = os]
    BY <1>2 DEF Answer
  <2>2. \A j \in Streams : /\ stream'[j].buffer = stream[j].buffer
                           /\ stream'[j].in = stream[j].in
                           /\ stream'[j].out = stream[j].out
                           /\ stream'[j].handling = stream[j].handling
    BY <2>1, <1>a DEF Record
  <2> QED BY <2>2 DEF Samples, Buffered
<1>3. CASE HandlerEnters(k)
  <2>1. PICK n \in Batches :
          stream' = [stream EXCEPT
            ![k].handling = TRUE,
            ![k].buffer = @ \o [i \in 1 .. Resampled(k, n) |-> stream[k].in + i],
            ![k].in = @ + Resampled(k, n)]
    BY <1>3 DEF HandlerEnters
  <2> DEFINE m == Resampled(k, n)
             taken == [i \in 1 .. m |-> stream[k].in + i]
             s == [stream[k] EXCEPT !.handling = TRUE, !.buffer = @ \o taken, !.in = @ + m]
  <2>2. m \in Nat /\ taken = After(stream[k].in, m)
    BY ResampledIsNat DEF After
  <2>3. stream' = [stream EXCEPT ![k] = s]
    BY <1>a, <2>1
  <2>4. s.handling /\ s.in = stream[k].in + m /\ s.out = stream[k].out
        /\ s.buffer = stream[k].buffer \o taken
    BY <1>a DEF Record
  <2> HIDE DEF m, taken, s
  <2>5. s.buffer = After(s.out, s.in - s.out)
    <3>1. s.in - s.out = stream[k].in + m - stream[k].out
      BY <1>c, <2>2, <2>4
    <3>2. stream[k].buffer \o taken = After(stream[k].out, stream[k].in + m - stream[k].out)
      BY ZenonT(30), <1>c, <2>2, RunsJoin
    <3> QED BY <2>4, <3>1, <3>2
  <2>6. Buffered(s)
    BY SMTT(20), <1>c, <2>2, <2>4, <2>5 DEF Buffered
  <2> QED BY <1>1, <2>3, <2>6
<1>4. CASE EmitFrame(k)
  <2> DEFINE s == [stream[k] EXCEPT
                     !.buffer = SubSeq(@, FrameSize + 1, Len(@)),
                     !.out = stream[k].buffer[FrameSize]]
  <2>1. stream' = [stream EXCEPT ![k] = s]
    BY <1>4, <1>a DEF EmitFrame
  <2>2. Len(stream[k].buffer) = stream[k].in - stream[k].out
    <3> DEFINE n == stream[k].in - stream[k].out
    <3>1. n \in Nat
      BY <1>c
    <3>2. Len(After(stream[k].out, n)) = n
      <4> HIDE DEF n
      <4> QED BY <1>c, <3>1, AfterIsSeq
    <3> QED BY <1>c, <3>2
  <2>3. FrameSize <= stream[k].in - stream[k].out /\ stream[k].handling
    BY <1>4, <2>2 DEF EmitFrame
  <2>4. /\ s.handling /\ s.in = stream[k].in /\ s.out = stream[k].buffer[FrameSize]
        /\ s.buffer = SubSeq(stream[k].buffer, FrameSize + 1, Len(stream[k].buffer))
    BY <1>a, <2>3 DEF Record
  <2> HIDE DEF s
  <2>5. s.out = stream[k].out + FrameSize /\ s.buffer = After(s.out, s.in - s.out)
    <3>1. /\ stream[k].buffer[FrameSize] = stream[k].out + FrameSize
          /\ SubSeq(stream[k].buffer, FrameSize + 1, Len(stream[k].buffer))
               = After(stream[k].out + FrameSize, stream[k].in - (stream[k].out + FrameSize))
      <4> DEFINE a == stream[k].out
                 b == stream[k].in
      <4>1. a \in Nat /\ b \in Nat /\ FrameSize \in Nat \ {0} /\ FrameSize <= b - a
            /\ stream[k].buffer = After(a, b - a) /\ Len(stream[k].buffer) = b - a
        BY <1>a, <1>c, <2>2, <2>3
      <4> HIDE DEF a, b
      <4>2. /\ After(a, b - a)[FrameSize] = a + FrameSize
            /\ SubSeq(After(a, b - a), FrameSize + 1, b - a) = After(a + FrameSize, b - (a + FrameSize))
        BY <4>1, RunsPart
      <4> QED BY <4>1, <4>2 DEF a, b
    <3> QED BY <2>4, <3>1
  <2>6. Buffered(s)
    BY SMTT(20), <1>a, <1>c, <2>3, <2>4, <2>5 DEF Buffered
  <2> QED BY <1>1, <2>1, <2>6
<1>5. CASE HandlerReturns(k)
  <2> DEFINE s == [stream[k] EXCEPT !.handling = FALSE]
  <2>1. stream' = [stream EXCEPT ![k] = s] /\ Len(stream[k].buffer) < FrameSize
    BY <1>5, <1>a DEF HandlerReturns
  <2>2. s.in = stream[k].in /\ s.out = stream[k].out /\ s.buffer = stream[k].buffer
    BY <1>a DEF Record
  <2> HIDE DEF s
  <2>3. Buffered(s)
    BY <1>b, <2>1, <2>2 DEF Buffered
  <2> QED BY <1>1, <2>1, <2>3
<1> QED BY <1>2, <1>3, <1>4, <1>5 DEF System

\* A frame begins where the last one ended, for any sizes of batches and frames,
\* and a handler leaves less than a frame behind.
THEOREM FramesFollowOn == Spec => []SamplesFollowOn
<1>1. Init => Samples
  <2> SUFFICES ASSUME Init, NEW k \in Streams PROVE Buffered(stream[k])
    BY DEF Samples
  <2>1. stream[k].buffer = <<>> /\ stream[k].in = 0 /\ stream[k].out = 0
    BY DEF Init, NewStream
  <2>2. <<>> = After(stream[k].out, stream[k].in - stream[k].out)
    BY <2>1 DEF After
  <2> QED BY <2>1, <2>2, AudioCaptureAssumption DEF Buffered
<1>2. CaptureInv /\ Samples /\ [Next]_vars => Samples'
  <2> SUFFICES ASSUME CaptureInv, Samples, [Next]_vars PROVE Samples'
    OBVIOUS
  <2>1. CASE UNCHANGED vars
    BY <2>1 DEF vars, Samples
  <2> QED BY <2>1, OwnerKeepsSamples, SystemKeepsSamples DEF Next
<1>3. Samples => SamplesFollowOn
  BY DEF Samples, Buffered, After, SamplesFollowOn
<1> QED BY <1>1, <1>2, <1>3, CaptureInvariance, PTL DEF Spec

-----------------------------------------------------------------------------
(* The agent *)

Outcomes == [of : Nat, iterations : Nat, failed : BOOLEAN]

\* The utterances of queued are those at the places, in the order they were said,
\* and n is none of a later one.
Sound(places, queued, n) ==
  /\ \A i \in DOMAIN places : places[i] <= n
  /\ ToSet(queued) = ToSet(places) \ {Blank}
  /\ \A i, j \in DOMAIN places :
       i < j /\ places[i] # Blank /\ places[j] # Blank => places[i] < places[j]

AgentTypes ==
  /\ said \in Nat /\ iteration \in Nat /\ current \in Nat /\ consumer \in BOOLEAN
  /\ rxIn \in Seq(Nat) /\ accepted \in Seq(Nat)
  /\ got \in Seq(Outcomes) /\ out \in Seq(Outcomes)
  /\ pc \in {"recv", "ask", "tools", "send", "ended"}

\* The runner has an utterance from the time it takes it to the time its outcome
\* is out, and the outcome is of that utterance.
OneInHand ==
  /\ pc \in {"recv", "ended"} <=> current = Blank
  /\ pc = "send" => outcome \in Outcomes /\ outcome.of = current

\* While somebody reads, nothing is lost or out of place.
WhileRead == consumer => Sound(Places, accepted, said)

AgentInv == AgentTypes /\ OneInHand /\ WhileRead

\* The utterances of a queue of outcomes.
LEMMA OutcomesAreTyped ==
  ASSUME NEW q \in Seq(Outcomes)
  PROVE  /\ OutcomesOf(q) \in Seq(Nat) /\ Len(OutcomesOf(q)) = Len(q)
         /\ \A n \in 1 .. Len(q) : OutcomesOf(q)[n] = q[n].of
<1>1. \A n \in 1 .. Len(q) : q[n].of \in Nat
  <2>1. \A n \in 1 .. Len(q) : q[n] \in Outcomes
    OBVIOUS
  <2> QED BY <2>1 DEF Outcomes
<1>2. Len(q) \in Nat /\ DOMAIN q = 1 .. Len(q)
  OBVIOUS
<1>3. OutcomesOf(q) \in [1 .. Len(q) -> Nat]
  BY <1>1, <1>2 DEF OutcomesOf
<1>4. OutcomesOf(q) \in Seq(Nat)
  BY <1>2, <1>3
<1>5. Len(OutcomesOf(q)) = Len(q)
  BY <1>2, <1>3, <1>4, LenProperties
<1> QED BY <1>2, <1>4, <1>5 DEF OutcomesOf

\* An outcome more, and the first outcome taken.
LEMMA OutcomesMove ==
  ASSUME NEW q \in Seq(Outcomes)
  PROVE  /\ \A o \in Outcomes : OutcomesOf(Append(q, o)) = Append(OutcomesOf(q), o.of)
         /\ q # <<>> => /\ Head(q) \in Outcomes /\ Head(OutcomesOf(q)) = Head(q).of
                        /\ OutcomesOf(q) # <<>>
                        /\ Tail(q) \in Seq(Outcomes)
                        /\ OutcomesOf(Tail(q)) = Tail(OutcomesOf(q))
<1>1. ASSUME NEW o \in Outcomes
      PROVE  OutcomesOf(Append(q, o)) = Append(OutcomesOf(q), o.of)
  <2>1. Append(q, o) \in Seq(Outcomes) /\ o.of \in Nat
    BY DEF Outcomes
  <2>2. /\ OutcomesOf(q) \in Seq(Nat) /\ Len(OutcomesOf(q)) = Len(q)
        /\ \A n \in 1 .. Len(q) : OutcomesOf(q)[n] = q[n].of
    BY OutcomesAreTyped
  <2>3. /\ OutcomesOf(Append(q, o)) \in Seq(Nat)
        /\ Len(OutcomesOf(Append(q, o))) = Len(Append(q, o))
        /\ \A n \in 1 .. Len(Append(q, o)) : OutcomesOf(Append(q, o))[n] = Append(q, o)[n].of
    BY <2>1, OutcomesAreTyped
  <2>4. /\ Len(Append(q, o)) = Len(q) + 1 /\ Append(q, o)[Len(q) + 1] = o
        /\ \A n \in 1 .. Len(q) : Append(q, o)[n] = q[n]
    BY AppendProperties
  <2> DEFINE a == OutcomesOf(q)  b == OutcomesOf(Append(q, o))
  <2>5. /\ a \in Seq(Nat) /\ b \in Seq(Nat) /\ Len(b) = Len(a) + 1 /\ b[Len(a) + 1] = o.of
        /\ \A n \in 1 .. Len(a) : b[n] = a[n]
    <3>1. Len(q) \in Nat
      OBVIOUS
    <3>2. Len(q) + 1 \in 1 .. Len(q) + 1 /\ \A n \in 1 .. Len(q) : n \in 1 .. Len(q) + 1
      BY <3>1
    <3> QED BY <2>2, <2>3, <2>4, <3>2
  <2> HIDE DEF a, b
  <2>6. b = Append(a, o.of)
    BY <2>1, <2>5
  <2> QED BY <2>6 DEF a, b
<1>2. ASSUME q # <<>>
      PROVE  /\ Head(q) \in Outcomes /\ Head(OutcomesOf(q)) = Head(q).of
             /\ OutcomesOf(q) # <<>>
             /\ Tail(q) \in Seq(Outcomes)
             /\ OutcomesOf(Tail(q)) = Tail(OutcomesOf(q))
  <2>1. /\ Head(q) \in Outcomes /\ Head(q) = q[1] /\ Tail(q) \in Seq(Outcomes)
        /\ Len(Tail(q)) = Len(q) - 1 /\ Len(q) \in Nat \ {0}
        /\ \A n \in 1 .. Len(q) - 1 : Tail(q)[n] = q[n + 1]
    BY <1>2, HeadTailProperties, EmptySeq
  <2>2. /\ OutcomesOf(q) \in Seq(Nat) /\ Len(OutcomesOf(q)) = Len(q)
        /\ \A n \in 1 .. Len(q) : OutcomesOf(q)[n] = q[n].of
    BY OutcomesAreTyped
  <2>3. /\ OutcomesOf(Tail(q)) \in Seq(Nat)
        /\ Len(OutcomesOf(Tail(q))) = Len(Tail(q))
        /\ \A n \in 1 .. Len(Tail(q)) : OutcomesOf(Tail(q))[n] = Tail(q)[n].of
    BY <2>1, OutcomesAreTyped
  <2> DEFINE a == OutcomesOf(q)  b == OutcomesOf(Tail(q))
  <2>4. /\ a \in Seq(Nat) /\ b \in Seq(Nat) /\ Len(b) = Len(a) - 1 /\ a[1] = Head(q).of
        /\ Len(a) \in Nat \ {0}
        /\ \A n \in 1 .. Len(a) - 1 : b[n] = a[n + 1]
    <3>1. 1 \in 1 .. Len(q) /\ \A n \in 1 .. Len(q) - 1 : n + 1 \in 1 .. Len(q)
      BY <2>1
    <3> QED BY <2>1, <2>2, <2>3, <3>1
  <2> HIDE DEF a, b
  <2>5. a # <<>>
    BY <2>4
  <2>6. /\ Tail(a) \in Seq(Nat) /\ Len(Tail(a)) = Len(a) - 1
        /\ \A n \in 1 .. Len(a) - 1 : Tail(a)[n] = a[n + 1]
    BY <2>4, <2>5, HeadTailProperties
  <2>7. b = Tail(a)
    <3>1. PICK t \in Seq(Nat) : t = Tail(a)
      BY <2>6
    <3>2. Len(b) = Len(t) /\ \A n \in 1 .. Len(t) : b[n] = t[n]
      BY <3>1, <2>4, <2>6
    <3> QED BY <3>1, <3>2, <2>4, SeqEqual
  <2>8. Head(a) = Head(q).of
    BY <2>4, <2>5, HeadTailProperties
  <2> QED BY <2>1, <2>5, <2>7, <2>8 DEF a, b
<1> QED BY <1>1, <1>2

\* The places are a sequence.
LEMMA PlacesAreTyped ==
  ASSUME AgentTypes
  PROVE  /\ OutcomesOf(got) \in Seq(Nat) /\ OutcomesOf(out) \in Seq(Nat) /\ InHand \in Seq(Nat)
         /\ OutcomesOf(got) \o OutcomesOf(out) \in Seq(Nat)
         /\ OutcomesOf(got) \o OutcomesOf(out) \o InHand \in Seq(Nat)
         /\ Places \in Seq(Nat)
<1>1. OutcomesOf(got) \in Seq(Nat) /\ OutcomesOf(out) \in Seq(Nat) /\ InHand \in Seq(Nat)
      /\ rxIn \in Seq(Nat)
  BY OutcomesAreTyped DEF AgentTypes, InHand
<1> QED BY <1>1 DEF Places

\* Append adds one element.
LEMMA AppendToSet ==
  ASSUME NEW q \in Seq(Nat), NEW x \in Nat
  PROVE  ToSet(Append(q, x)) = ToSet(q) \cup {x}
<1>1. PICK n \in Nat : n = Len(q)
  OBVIOUS
<1>2. /\ Len(Append(q, x)) = n + 1 /\ Append(q, x)[n + 1] = x
      /\ \A i \in 1 .. n : Append(q, x)[i] = q[i]
      /\ Append(q, x) \in Seq(Nat)
  BY <1>1, AppendProperties
<1>3. DOMAIN Append(q, x) = 1 .. n + 1 /\ DOMAIN q = 1 .. n
  BY <1>1, <1>2
<1>4. /\ \A i \in 1 .. n + 1 : i \in 1 .. n \/ i = n + 1
      /\ n + 1 \in 1 .. n + 1 /\ \A i \in 1 .. n : i \in 1 .. n + 1
  OBVIOUS
<1> QED BY <1>2, <1>3, <1>4 DEF ToSet

\* An utterance later than all others goes to the end, and a blank transcript
\* too.
LEMMA SpeakingIsSound ==
  ASSUME NEW places \in Seq(Nat), NEW queued \in Seq(Nat), NEW n \in Nat,
         Sound(places, queued, n)
  PROVE  /\ Sound(Append(places, n + 1), Append(queued, n + 1), n + 1)
         /\ Sound(Append(places, Blank), queued, n + 1)
         /\ Sound(places, queued, n + 1)
<1>1. PICK k \in Nat : k = Len(places)
  OBVIOUS
<1>2. DOMAIN places = 1 .. k /\ \A i \in 1 .. k : places[i] \in Nat /\ places[i] <= n
  BY <1>1 DEF Sound
<1>3. \A i, j \in 1 .. k : i < j /\ places[i] # Blank /\ places[j] # Blank
                              => places[i] < places[j]
  BY <1>2 DEF Sound
<1>4. \A y \in Nat : y <= n => y <= n + 1 /\ y < n + 1
  OBVIOUS
<1>5. ASSUME NEW x \in Nat, x = n + 1 \/ x = Blank, NEW p, p = Append(places, x)
      PROVE  /\ \A i \in DOMAIN p : p[i] <= n + 1
             /\ \A i, j \in DOMAIN p :
                  i < j /\ p[i] # Blank /\ p[j] # Blank => p[i] < p[j]
  <2>1. /\ DOMAIN p = 1 .. k + 1 /\ p[k + 1] = x
        /\ \A i \in 1 .. k : p[i] = places[i]
    BY <1>1, <1>5, AppendProperties
  <2>2. \A i \in 1 .. k + 1 : i \in 1 .. k \/ i = k + 1
    OBVIOUS
  <2>3. x <= n + 1
    BY <1>5 DEF Blank
  <2>4. \A i \in DOMAIN p : p[i] <= n + 1
    BY <2>1, <2>2, <2>3, <1>2, <1>4
  <2>5. ASSUME NEW i \in DOMAIN p, NEW j \in DOMAIN p, i < j, p[i] # Blank, p[j] # Blank
        PROVE  p[i] < p[j]
    <3>1. i \in 1 .. k /\ (j \in 1 .. k \/ j = k + 1)
      BY <2>1, <2>5
    <3>2. CASE j \in 1 .. k
      BY <3>1, <3>2, <2>1, <2>5, <1>3
    <3>3. CASE j = k + 1
      <4>1. p[j] = n + 1
        BY <3>3, <2>1, <2>5, <1>5
      <4>2. p[i] = places[i] /\ places[i] \in Nat /\ places[i] <= n
        BY <3>1, <2>1, <1>2
      <4> QED BY <4>1, <4>2, <1>4
    <3> QED BY <3>1, <3>2, <3>3
  <2> QED BY <2>4, <2>5
<1>6. /\ ToSet(queued) = ToSet(places) \ {Blank}
      /\ ToSet(Append(places, n + 1)) = ToSet(places) \cup {n + 1}
      /\ ToSet(Append(places, Blank)) = ToSet(places) \cup {Blank}
      /\ ToSet(Append(queued, n + 1)) = ToSet(queued) \cup {n + 1}
  BY AppendToSet DEF Sound, Blank
<1>7. Sound(places, queued, n + 1)
  BY <1>2, <1>3, <1>4, <1>6 DEF Sound
<1>8. Sound(Append(places, Blank), queued, n + 1)
  BY <1>5, <1>6 DEF Sound, Blank
<1>9. Sound(Append(places, n + 1), Append(queued, n + 1), n + 1)
  <2>1. n + 1 # Blank
    BY DEF Blank
  <2> QED BY <1>5, <1>6, <2>1 DEF Sound
<1> QED BY <1>7, <1>8, <1>9

\* A blank transcript that is taken is no utterance.
LEMMA BlankIsNone ==
  ASSUME NEW a \in Seq(Nat), NEW q \in Seq(Nat), q # <<>>, Head(q) = Blank,
         NEW queued, NEW n \in Nat, Sound(a \o q, queued, n)
  PROVE  Sound(a \o Tail(q), queued, n)
<1>1. PICK k \in Nat, m \in Nat : k = Len(a) /\ m + 1 = Len(q)
  <2>1. Len(a) \in Nat /\ Len(q) \in Nat \ {0}
    BY EmptySeq
  <2>2. Len(q) - 1 \in Nat /\ (Len(q) - 1) + 1 = Len(q)
    BY <2>1
  <2> QED BY <2>1, <2>2
<1>2. PICK t \in Seq(Nat) : /\ t = Tail(q) /\ Len(t) = m
                           /\ \A i \in 1 .. m : t[i] = q[i + 1]
  <2>1. /\ Tail(q) \in Seq(Nat) /\ Len(Tail(q)) = Len(q) - 1
        /\ \A i \in 1 .. Len(Tail(q)) : Tail(q)[i] = q[i + 1]
    BY HeadTailProperties
  <2>2. Len(q) - 1 = m
    BY <1>1
  <2> QED BY <2>1, <2>2
<1>3. PICK p \in Seq(Nat) : /\ p = a \o q /\ Len(p) = k + (m + 1)
                           /\ \A i \in 1 .. k + (m + 1) :
                                p[i] = IF i <= k THEN a[i] ELSE q[i - k]
  <2>1. /\ a \o q \in Seq(Nat) /\ Len(a \o q) = Len(a) + Len(q)
        /\ \A i \in 1 .. Len(a) + Len(q) :
             (a \o q)[i] = IF i <= Len(a) THEN a[i] ELSE q[i - Len(a)]
    BY ConcatProperties
  <2>2. Len(a) = k /\ Len(a) + Len(q) = k + (m + 1)
    BY <1>1
  <2> DEFINE c == a \o q
  <2>3. /\ c \in Seq(Nat) /\ Len(c) = k + (m + 1)
        /\ \A i \in 1 .. k + (m + 1) : c[i] = IF i <= k THEN a[i] ELSE q[i - k]
    BY <2>1, <2>2
  <2>4. c = a \o q
    OBVIOUS
  <2> HIDE DEF c
  <2> QED BY <2>3, <2>4
<1>4. PICK r \in Seq(Nat) : /\ r = a \o t /\ Len(r) = k + m
                           /\ \A i \in 1 .. k + m :
                                r[i] = IF i <= k THEN a[i] ELSE t[i - k]
  <2>1. /\ a \o t \in Seq(Nat) /\ Len(a \o t) = Len(a) + Len(t)
        /\ \A i \in 1 .. Len(a) + Len(t) :
             (a \o t)[i] = IF i <= Len(a) THEN a[i] ELSE t[i - Len(a)]
    BY ConcatProperties
  <2>2. Len(a) = k /\ Len(a) + Len(t) = k + m
    BY <1>1, <1>2
  <2> DEFINE c == a \o t
  <2>3. /\ c \in Seq(Nat) /\ Len(c) = k + m
        /\ \A i \in 1 .. k + m : c[i] = IF i <= k THEN a[i] ELSE t[i - k]
    BY <2>1, <2>2
  <2>4. c = a \o t
    OBVIOUS
  <2> HIDE DEF c
  <2> QED BY <2>3, <2>4
<1>5. DOMAIN p = 1 .. k + (m + 1) /\ DOMAIN r = 1 .. k + m
  BY <1>3, <1>4
<1>6. p[k + 1] = Blank
  <2>1. k + 1 \in 1 .. k + (m + 1) /\ ~(k + 1 <= k) /\ (k + 1) - k = 1
    OBVIOUS
  <2>2. q[1] = Blank
    BY Head(q) = q[1]
  <2> QED BY <2>1, <2>2, <1>3
<1>7. \A i \in 1 .. k : i \in DOMAIN p /\ i \in DOMAIN r /\ r[i] = p[i]
  <2> SUFFICES ASSUME NEW i \in 1 .. k PROVE i \in DOMAIN p /\ i \in DOMAIN r /\ r[i] = p[i]
    OBVIOUS
  <2>1. i \in 1 .. k + (m + 1) /\ i \in 1 .. k + m /\ i <= k
    OBVIOUS
  <2>2. p[i] = a[i]
    BY <2>1, <1>3
  <2>3. r[i] = a[i]
    BY <2>1, <1>4
  <2> QED BY <2>1, <2>2, <2>3, <1>5
<1>8. \A i \in k + 1 .. k + m : i \in DOMAIN r /\ i + 1 \in DOMAIN p /\ r[i] = p[i + 1]
  <2> SUFFICES ASSUME NEW i \in k + 1 .. k + m
               PROVE  i \in DOMAIN r /\ i + 1 \in DOMAIN p /\ r[i] = p[i + 1]
    OBVIOUS
  <2>1. i + 1 \in 1 .. k + (m + 1) /\ i \in 1 .. k + m /\ ~(i <= k) /\ ~(i + 1 <= k)
    OBVIOUS
  <2>2. i - k \in 1 .. m /\ (i + 1) - k = (i - k) + 1
    OBVIOUS
  <2>3. p[i + 1] = q[(i + 1) - k]
    BY <2>1, <1>3
  <2>5. r[i] = t[i - k]
    BY <2>1, <1>4
  <2>4. t[i - k] = q[(i - k) + 1]
    BY <2>2, <1>2
  <2> QED BY <2>1, <2>2, <2>3, <2>4, <2>5, <1>5
<1>9. \A i \in DOMAIN r : i \in 1 .. k \/ i \in k + 1 .. k + m
  BY <1>5
<1>10. \A i \in DOMAIN p : i \in 1 .. k \/ i = k + 1 \/ i - 1 \in k + 1 .. k + m
  <2>1. \A i \in 1 .. k + (m + 1) : i \in 1 .. k \/ i = k + 1 \/ i - 1 \in k + 1 .. k + m
    OBVIOUS
  <2> QED BY <2>1, <1>5
<1>11. /\ \A i \in DOMAIN p : p[i] <= n
       /\ ToSet(queued) = ToSet(p) \ {Blank}
       /\ \A i, j \in DOMAIN p : i < j /\ p[i] # Blank /\ p[j] # Blank => p[i] < p[j]
  BY <1>3 DEF Sound
<1>12. \A i \in DOMAIN r : r[i] <= n
  BY <1>7, <1>8, <1>9, <1>11
<1>13. ToSet(r) \ {Blank} = ToSet(p) \ {Blank}
  <2>1. \A i \in DOMAIN r : \E j \in DOMAIN p : r[i] = p[j]
    BY <1>7, <1>8, <1>9
  <2>2. ASSUME NEW i \in DOMAIN p, p[i] # Blank
        PROVE  \E j \in DOMAIN r : p[i] = r[j]
    <3>1. i \in 1 .. k \/ i - 1 \in k + 1 .. k + m
      BY <2>2, <1>6, <1>10
    <3>2. i \in Int
      BY <1>5
    <3>3. (i - 1) + 1 = i
      BY <3>2
    <3>4. CASE i \in 1 .. k
      BY <3>4, <1>7
    <3>5. CASE i - 1 \in k + 1 .. k + m
      <4>1. i - 1 \in DOMAIN r /\ r[i - 1] = p[(i - 1) + 1]
        BY <3>5, <1>8
      <4> QED BY <4>1, <3>3
    <3> QED BY <3>1, <3>4, <3>5
  <2> QED BY <2>1, <2>2 DEF ToSet
<1>14. ASSUME NEW i \in DOMAIN r, NEW j \in DOMAIN r, i < j, r[i] # Blank, r[j] # Blank
       PROVE  r[i] < r[j]
  <2>1. CASE i \in 1 .. k /\ j \in 1 .. k
    BY <2>1, <1>14, <1>7, <1>11
  <2>2. CASE i \in 1 .. k /\ j \in k + 1 .. k + m
    <3>1. i < j + 1
      BY <2>2
    <3> QED BY <3>1, <2>2, <1>14, <1>7, <1>8, <1>11
  <2>3. CASE i \in k + 1 .. k + m /\ j \in k + 1 .. k + m
    <3>1. i + 1 < j + 1
      BY <2>3, <1>14
    <3> QED BY <3>1, <2>3, <1>14, <1>8, <1>11
  <2>4. ~(i \in k + 1 .. k + m /\ j \in 1 .. k)
    BY <1>14
  <2> QED BY <2>1, <2>2, <2>3, <2>4, <1>9
<1>15. Sound(r, queued, n)
  BY <1>11, <1>12, <1>13, <1>14 DEF Sound
<1> QED BY <1>15, <1>4, <1>2

\* What is first behind a goes to its end, and nothing is elsewhere than before.
LEMMA MovesOver ==
  ASSUME NEW a \in Seq(Nat), NEW q \in Seq(Nat), q # <<>>
  PROVE  Append(a, Head(q)) \o Tail(q) = a \o q
<1>1. Head(q) \in Nat /\ Tail(q) \in Seq(Nat) /\ q = <<Head(q)>> \o Tail(q)
  <2>1. /\ Head(q) \in Nat /\ Tail(q) \in Seq(Nat) /\ Len(Tail(q)) = Len(q) - 1
        /\ \A i \in 1 .. Len(Tail(q)) : Tail(q)[i] = q[i + 1]
    BY HeadTailProperties
  <2>2. PICK m \in Nat : m + 1 = Len(q)
    <3>1. Len(q) \in Nat \ {0}
      BY EmptySeq
    <3>2. Len(q) - 1 \in Nat /\ (Len(q) - 1) + 1 = Len(q)
      BY <3>1
    <3> QED BY <3>2
  <2>3. PICK t \in Seq(Nat) : t = Tail(q) /\ Len(t) = m /\ \A i \in 1 .. m : t[i] = q[i + 1]
    <3>1. Len(q) - 1 = m
      BY <2>2
    <3> QED BY <3>1, <2>1
  <2>4. <<Head(q)>> \in Seq(Nat) /\ Len(<<Head(q)>>) = 1 /\ <<Head(q)>>[1] = q[1]
    BY <2>1
  <2>5. PICK h \in Seq(Nat) : h = <<Head(q)>> /\ Len(h) = 1 /\ h[1] = q[1]
    BY <2>4
  <2>6. /\ h \o t \in Seq(Nat) /\ Len(h \o t) = 1 + m
        /\ \A i \in 1 .. 1 + m : (h \o t)[i] = IF i <= 1 THEN h[i] ELSE t[i - 1]
    BY <2>3, <2>5, ConcatProperties
  <2>7. ASSUME NEW i \in 1 .. m + 1
        PROVE  (h \o t)[i] = q[i]
    <3>1. i \in 1 .. 1 + m /\ (i = 1 \/ (~(i <= 1) /\ i - 1 \in 1 .. m /\ (i - 1) + 1 = i))
      OBVIOUS
    <3> QED BY <3>1, <2>3, <2>5, <2>6
  <2>8. Len(h \o t) = Len(q)
    BY <2>2, <2>6
  <2>9. h \o t = q
    BY <2>2, <2>6, <2>7, <2>8, SeqEqual
  <2> QED BY <2>1, <2>3, <2>5, <2>9
<1>2. PICK x \in Nat, t \in Seq(Nat) : x = Head(q) /\ t = Tail(q) /\ q = <<x>> \o t
  BY <1>1
<1>3. Append(a, x) = a \o <<x>>
  BY AppendIsConcat
<1>4. <<x>> \in Seq(Nat)
  OBVIOUS
<1>5. (a \o <<x>>) \o t = a \o (<<x>> \o t)
  BY SMTT(20), <1>4, ConcatAssociative
<1> QED BY <1>2, <1>3, <1>5

\* What is put at the end of the last part is put at the end of the whole.
LEMMA AppendsToLast ==
  ASSUME NEW a \in Seq(Nat), NEW b \in Seq(Nat), NEW x \in Nat
  PROVE  a \o Append(b, x) = Append(a \o b, x)
<1>1. <<x>> \in Seq(Nat) /\ a \o b \in Seq(Nat)
  OBVIOUS
<1>2. Append(b, x) = b \o <<x>> /\ Append(a \o b, x) = (a \o b) \o <<x>>
  BY <1>1, AppendIsConcat
<1>3. (a \o b) \o <<x>> = a \o (b \o <<x>>)
  BY <1>1, ConcatAssociative
<1> QED BY <1>2, <1>3

-----------------------------------------------------------------------------

\* Everything is where it was: nothing but the runner's place changes.
LEMMA NothingMoves ==
  ASSUME AgentInv, AgentTypes', OneInHand',
         UNCHANGED <<said, accepted, rxIn, current, out, consumer, got>>
  PROVE  AgentInv'
<1>1. Places' = Places
  BY DEF Places, OutcomesOf, InHand
<1> QED BY <1>1 DEF AgentInv, WhileRead

\* The utterance that is said now is a new one, at the end.
LEMMA SpeakKeeps ==
  ASSUME AgentInv, Speak
  PROVE  AgentInv'
<1>1. PICK x \in {said + 1, Blank} :
        IF CanQueue
          THEN /\ rxIn' = Append(rxIn, x)
               /\ accepted' = IF x = Blank THEN accepted ELSE Append(accepted, x)
          ELSE UNCHANGED <<rxIn, accepted>>
  BY DEF Speak
<1>2. /\ said' = said + 1
      /\ UNCHANGED <<pc, current, iteration, outcome, out, consumer, got>>
  BY DEF Speak, agentVars, consumerVars
<1>3. said \in Nat /\ said' \in Nat /\ x \in Nat /\ rxIn \in Seq(Nat) /\ accepted \in Seq(Nat)
  BY <1>1, <1>2 DEF AgentInv, AgentTypes, Blank
<1>4. AgentTypes'
  <2>1. Append(rxIn, x) \in Seq(Nat) /\ Append(accepted, x) \in Seq(Nat)
    BY <1>3, AppendProperties
  <2>2. rxIn' = rxIn \/ rxIn' = Append(rxIn, x)
    BY <1>1
  <2>3. accepted' = accepted \/ accepted' = Append(accepted, x)
    BY <1>1
  <2>4. rxIn' \in Seq(Nat) /\ accepted' \in Seq(Nat)
    BY <1>3, <2>1, <2>2, <2>3
  <2> QED BY <1>2, <1>3, <2>4 DEF AgentInv, AgentTypes
<1>5. OneInHand'
  BY <1>2 DEF AgentInv, OneInHand
<1>6. ASSUME consumer'
      PROVE  Sound(Places', accepted', said')
  <2> DEFINE a == OutcomesOf(got) \o OutcomesOf(out) \o InHand
  <2>1. a \in Seq(Nat) /\ Places = a \o rxIn /\ Places \in Seq(Nat)
    BY PlacesAreTyped DEF AgentInv, Places
  <2>2. Places' = a \o rxIn'
    BY <1>2 DEF Places, OutcomesOf, InHand
  <2>3. Sound(Places, accepted, said)
    BY <1>2, <1>6 DEF AgentInv, WhileRead
  <2> HIDE DEF a
  <2>4. /\ Sound(Append(Places, said + 1), Append(accepted, said + 1), said + 1)
        /\ Sound(Append(Places, Blank), accepted, said + 1)
        /\ Sound(Places, accepted, said + 1)
    BY <2>1, <2>3, <1>3, SpeakingIsSound
  <2>5. CASE CanQueue
    <3>1. Places' = Append(Places, x)
      <4>1. a \o Append(rxIn, x) = Append(a \o rxIn, x)
        BY <2>1, <1>3, AppendsToLast
      <4>2. rxIn' = Append(rxIn, x)
        BY <2>5, <1>1
      <4> QED BY <4>1, <4>2, <2>1, <2>2
    <3>2. accepted' = IF x = Blank THEN accepted ELSE Append(accepted, x)
      BY <2>5, <1>1
    <3>3. said + 1 # Blank
      BY <1>3 DEF Blank
    <3>4. CASE x = Blank
      BY <3>1, <3>2, <3>4, <2>4, <1>2
    <3>5. CASE x = said + 1
      BY <3>1, <3>2, <3>3, <3>5, <2>4, <1>2
    <3> QED BY <3>4, <3>5
  <2>6. CASE ~CanQueue
    BY <2>1, <2>2, <2>4, <2>6, <1>1, <1>2
  <2> QED BY <2>5, <2>6
<1> QED BY <1>4, <1>5, <1>6 DEF AgentInv, WhileRead

\* The head of the queue goes into the runner's hand, which was empty.
LEMMA TakeKeeps ==
  ASSUME AgentInv, Take
  PROVE  AgentInv'
<1>1. /\ pc = "recv" /\ rxIn # <<>> /\ rxIn' = Tail(rxIn)
      /\ UNCHANGED <<said, accepted, out, consumer, got>>
  BY DEF Take, callerVars, consumerVars
<1>2. /\ rxIn \in Seq(Nat) /\ Head(rxIn) \in Nat /\ Tail(rxIn) \in Seq(Nat)
  BY <1>1, HeadTailProperties DEF AgentInv, AgentTypes
<1>3. current = Blank /\ InHand = <<>>
  BY <1>1 DEF AgentInv, OneInHand, InHand
<1> DEFINE a == OutcomesOf(got) \o OutcomesOf(out)
<1>4. /\ a \in Seq(Nat) /\ Places \in Seq(Nat) /\ Places = a \o rxIn
  <2>1. /\ a \in Seq(Nat) /\ Places \in Seq(Nat) /\ Places = (a \o InHand) \o rxIn
    BY PlacesAreTyped DEF AgentInv, Places
  <2> HIDE DEF a
  <2>2. a \o InHand = a
    BY <2>1, <1>3, ConcatEmptySeq
  <2> QED BY <2>1, <2>2
<1>5. Places' = (a \o InHand') \o rxIn'
  BY <1>1 DEF Places, OutcomesOf
<1> HIDE DEF a
<1>6. CASE Head(rxIn) = Blank
  <2>1. UNCHANGED <<pc, current, iteration, history, outcome>>
    BY <1>6 DEF Take, agentVars
  <2>2. AgentTypes' /\ OneInHand'
    BY <1>1, <1>2, <2>1 DEF AgentInv, AgentTypes, OneInHand
  <2>3. Places' = a \o Tail(rxIn)
    <3>1. InHand' = <<>>
      BY <2>1, <1>3 DEF InHand
    <3>2. a \o <<>> = a
      BY <1>4, ConcatEmptySeq
    <3> QED BY <3>1, <3>2, <1>1, <1>5
  <2>4. ASSUME consumer'
        PROVE  Sound(Places', accepted', said')
    <3>1. Sound(a \o rxIn, accepted, said) /\ said \in Nat
      BY <1>1, <1>4, <2>4 DEF AgentInv, WhileRead, AgentTypes
    <3>2. Sound(a \o Tail(rxIn), accepted, said)
      BY <3>1, <1>1, <1>2, <1>4, <1>6, BlankIsNone
    <3> QED BY <3>2, <2>3, <1>1
  <2> QED BY <2>2, <2>4 DEF AgentInv, WhileRead
<1>7. CASE Head(rxIn) # Blank
  <2>1. /\ current' = Head(rxIn) /\ iteration' = 0
        /\ \/ pc' = "send" /\ outcome' = Outcome(Head(rxIn), 0, TRUE)
           \/ pc' = "ask" /\ UNCHANGED outcome
    BY <1>7 DEF Take
  <2>2. AgentTypes'
    BY <1>1, <1>2, <2>1 DEF AgentInv, AgentTypes
  <2>3. OneInHand'
    <3>1. Outcome(Head(rxIn), 0, TRUE) \in Outcomes /\ Outcome(Head(rxIn), 0, TRUE).of = Head(rxIn)
      BY <1>2 DEF Outcome, Outcomes
    <3> QED BY <3>1, <2>1, <1>7 DEF OneInHand
  <2>4. Places' = Places
    <3>1. InHand' = <<Head(rxIn)>>
      BY <2>1, <1>7 DEF InHand
    <3>2. a \o <<Head(rxIn)>> = Append(a, Head(rxIn))
      BY <1>2, <1>4, AppendIsConcat
    <3>3. Append(a, Head(rxIn)) \o Tail(rxIn) = a \o rxIn
      BY <1>1, <1>2, <1>4, MovesOver
    <3> QED BY <3>1, <3>2, <3>3, <1>1, <1>4, <1>5
  <2> QED BY <2>2, <2>3, <2>4, <1>1 DEF AgentInv, WhileRead
<1> QED BY <1>6, <1>7

\* respond resolves the utterance in hand, whatever the provider and the tools do.
LEMMA RespondKeeps ==
  ASSUME AgentInv, ProviderFails \/ ProviderAnswers \/ RunTools
  PROVE  AgentInv'
<1>1. /\ UNCHANGED <<said, accepted, rxIn, current, out, consumer, got>>
      /\ pc \in {"ask", "tools"}
  BY DEF ProviderFails, ProviderAnswers, RunTools, Fail, callerVars, consumerVars
<1>2. /\ iteration' = iteration \/ iteration' = iteration + 1
      /\ \/ pc' \in {"ask", "tools"}
         \/ \E n \in Nat, failed \in BOOLEAN :
              pc' = "send" /\ outcome' = Outcome(current, n, failed)
  <2>1. CASE ProviderFails
    BY <2>1 DEF ProviderFails, Fail
  <2>2. CASE ProviderAnswers
    <3>1. /\ iteration' = iteration + 1
          /\ \/ pc' = "tools"
             \/ pc' = "send" /\ outcome' = Outcome(current, iteration + 1, FALSE)
      BY <2>2 DEF ProviderAnswers
    <3>2. iteration + 1 \in Nat
      BY DEF AgentInv, AgentTypes
    <3> QED BY <3>1, <3>2
  <2>3. CASE RunTools
    <3>1. /\ iteration' = iteration
          /\ pc' = "ask" \/ (pc' = "send" /\ outcome' = Outcome(current, 0, TRUE))
      BY <2>3 DEF RunTools
    <3> QED BY <3>1
  <2> QED BY <2>1, <2>2, <2>3
<1>3. AgentTypes'
  <2>1. iteration' \in Nat
    BY <1>2 DEF AgentInv, AgentTypes
  <2> QED BY <2>1, <1>1, <1>2 DEF AgentInv, AgentTypes
<1>4. OneInHand'
  <2>1. current' = current /\ current # Blank /\ current \in Nat
    BY <1>1 DEF AgentInv, OneInHand, AgentTypes
  <2>2. \A n \in Nat, failed \in BOOLEAN :
          Outcome(current, n, failed) \in Outcomes /\ Outcome(current, n, failed).of = current
    BY <2>1 DEF Outcome, Outcomes
  <2> QED BY <2>1, <2>2, <1>2 DEF OneInHand
<1> QED BY <1>1, <1>3, <1>4, NothingMoves

\* From the hand to the end of the outcomes queued.
LEMMA SendOutcomeKeeps ==
  ASSUME AgentInv, SendOutcome
  PROVE  AgentInv'
<1>1. /\ pc = "send" /\ pc' = "recv" /\ current' = Blank /\ out' = Append(out, outcome)
      /\ UNCHANGED <<said, accepted, rxIn, iteration, consumer, got>>
  BY DEF SendOutcome, callerVars, consumerVars
<1>2. /\ outcome \in Outcomes /\ outcome.of = current /\ current # Blank /\ current \in Nat
      /\ out \in Seq(Outcomes)
  BY <1>1 DEF AgentInv, AgentTypes, OneInHand
<1>3. AgentTypes' /\ OneInHand'
  <2>1. out' \in Seq(Outcomes) /\ Blank \in Nat
    BY <1>1, <1>2 DEF Blank
  <2> QED BY <2>1, <1>1 DEF AgentInv, AgentTypes, OneInHand
<1>4. Places' = Places
  <2> DEFINE g == OutcomesOf(got)
             o == OutcomesOf(out)
  <2>1. g \in Seq(Nat) /\ o \in Seq(Nat) /\ g \o o \in Seq(Nat)
    BY PlacesAreTyped DEF AgentInv
  <2>2. OutcomesOf(out') = Append(o, current)
    BY <1>1, <1>2, OutcomesMove
  <2>3. Places = ((g \o o) \o <<current>>) \o rxIn
    BY <1>2 DEF Places, InHand
  <2>4. Places' = ((g \o OutcomesOf(out')) \o <<>>) \o rxIn
    BY <1>1 DEF Places, InHand, OutcomesOf
  <2> HIDE DEF g, o
  <2>5. g \o Append(o, current) = Append(g \o o, current)
    BY <2>1, <1>2, AppendsToLast
  <2>6. Append(g \o o, current) = (g \o o) \o <<current>>
    BY <2>1, <1>2, AppendIsConcat
  <2>7. PICK w \in Seq(Nat) : w = Append(g \o o, current)
    BY <2>1, <1>2, AppendProperties
  <2>8. w \o <<>> = w
    BY <2>7, ConcatEmptySeq
  <2> QED BY <2>2, <2>3, <2>4, <2>5, <2>6, <2>7, <2>8
<1> QED BY <1>1, <1>3, <1>4 DEF AgentInv, WhileRead

\* From the head of the outcomes queued to the end of those read.
LEMMA ReadOutcomeKeeps ==
  ASSUME AgentInv, ReadOutcome
  PROVE  AgentInv'
<1>1. /\ out # <<>> /\ got' = Append(got, Head(out)) /\ out' = Tail(out)
      /\ UNCHANGED <<said, accepted, rxIn, pc, current, iteration, outcome, consumer>>
  BY DEF ReadOutcome, callerVars, agentVars
<1>2. got \in Seq(Outcomes) /\ out \in Seq(Outcomes)
  BY DEF AgentInv, AgentTypes
<1>3. Head(out) \in Outcomes /\ Tail(out) \in Seq(Outcomes)
  BY <1>1, <1>2, OutcomesMove
<1>4. AgentTypes' /\ OneInHand'
  BY <1>1, <1>2, <1>3 DEF AgentInv, AgentTypes, OneInHand
<1>5. Places' = Places
  <2> DEFINE g == OutcomesOf(got)
             o == OutcomesOf(out)
  <2>1. g \in Seq(Nat) /\ o \in Seq(Nat)
    BY PlacesAreTyped DEF AgentInv
  <2>2. OutcomesOf(got') = Append(g, Head(o)) /\ OutcomesOf(out') = Tail(o) /\ o # <<>>
    BY <1>1, <1>2, <1>3, OutcomesMove
  <2>3. Places = ((g \o o) \o InHand) \o rxIn
    BY DEF Places
  <2>4. Places' = ((OutcomesOf(got') \o OutcomesOf(out')) \o InHand) \o rxIn
    BY <1>1 DEF Places, InHand, OutcomesOf
  <2> HIDE DEF g, o
  <2>5. Append(g, Head(o)) \o Tail(o) = g \o o
    BY <2>1, <2>2, MovesOver
  <2> QED BY <2>2, <2>3, <2>4, <2>5
<1> QED BY <1>1, <1>4, <1>5 DEF AgentInv, WhileRead

\* An end of either side: only one with nobody reading loses something.
LEMMA EndingKeeps ==
  ASSUME AgentInv, DropSender \/ ChannelClosed \/ SendFails \/ DropConsumer
  PROVE  AgentInv'
<1>1. CASE DropSender
  <2>1. UNCHANGED <<said, accepted, rxIn, pc, current, iteration, outcome, out, consumer, got>>
    BY <1>1 DEF DropSender, agentVars, consumerVars
  <2>2. AgentTypes' /\ OneInHand'
    BY <2>1 DEF AgentInv, AgentTypes, OneInHand
  <2> QED BY <2>1, <2>2, NothingMoves
<1>2. CASE ChannelClosed
  <2>1. /\ UNCHANGED <<said, accepted, iteration, out, consumer, got>>
        /\ pc = "recv" /\ rxIn = <<>> /\ pc' = "ended" /\ rxIn' = <<>> /\ current' = Blank
    BY <1>2 DEF ChannelClosed, Ended, callerVars, consumerVars
  <2>2. current = Blank /\ Blank \in Nat
    BY <2>1 DEF AgentInv, OneInHand, Blank
  <2>3. AgentTypes' /\ OneInHand'
    BY <2>1, <2>2 DEF AgentInv, AgentTypes, OneInHand
  <2>4. UNCHANGED <<said, accepted, rxIn, current, out, consumer, got>>
    BY <2>1, <2>2
  <2> QED BY <2>3, <2>4, NothingMoves
<1>3. CASE SendFails
  <2>1. /\ UNCHANGED <<said, accepted, iteration, out, consumer, got>>
        /\ pc' = "ended" /\ rxIn' = <<>> /\ current' = Blank /\ ~consumer
    BY <1>3 DEF SendFails, Ended, callerVars, consumerVars
  <2>2. AgentTypes' /\ OneInHand'
    BY <2>1 DEF AgentInv, AgentTypes, OneInHand, Blank
  <2> QED BY <2>1, <2>2 DEF AgentInv, WhileRead
<1>4. CASE DropConsumer
  <2>1. /\ UNCHANGED <<said, accepted, rxIn, pc, current, iteration, outcome, got>>
        /\ out' = <<>> /\ consumer' = FALSE
    BY <1>4 DEF DropConsumer, callerVars, agentVars
  <2>2. AgentTypes'
    <3>1. out' \in Seq(Outcomes)
      BY <2>1
    <3> QED BY <2>1, <3>1 DEF AgentInv, AgentTypes
  <2>3. OneInHand'
    BY <2>1 DEF AgentInv, OneInHand
  <2> QED BY <2>1, <2>2, <2>3 DEF AgentInv, WhileRead
<1> QED BY <1>1, <1>2, <1>3, <1>4

\* Nothing has been said.
LEMMA AgentStarts == VoiceInit => AgentInv
<1> SUFFICES ASSUME VoiceInit PROVE AgentInv
  OBVIOUS
<1>1. AgentTypes /\ OneInHand
  BY DEF VoiceInit, AgentTypes, OneInHand, Blank
<1>2. Places = <<>> /\ accepted = <<>>
  <2>1. OutcomesOf(got) = <<>> /\ OutcomesOf(out) = <<>>
    BY DEF VoiceInit, OutcomesOf
  <2>2. InHand = <<>> /\ rxIn = <<>> /\ accepted = <<>>
    BY DEF VoiceInit, InHand, Blank
  <2> QED BY <2>1, <2>2 DEF Places
<1>3. DOMAIN <<>> = {}
  OBVIOUS
<1>4. WhileRead
  BY <1>2, <1>3 DEF WhileRead, Sound, ToSet
<1> QED BY <1>1, <1>4 DEF AgentInv

\* At every moment of SpeechRunner::run the runner holds at most one utterance, and
\* everything else is in one of the two channels or has been read.
THEOREM AgentInvariance == VoiceSpec => []AgentInv
<1>1. VoiceInit => AgentInv
  BY AgentStarts
<1>2. AgentInv /\ [VoiceNext]_voiceVars => AgentInv'
  <2> SUFFICES ASSUME AgentInv, [VoiceNext]_voiceVars
               PROVE  AgentInv'
    OBVIOUS
  <2>1. CASE Speak
    BY <2>1, SpeakKeeps
  <2>2. CASE Take
    BY <2>2, TakeKeeps
  <2>3. CASE ProviderFails \/ ProviderAnswers \/ RunTools
    BY <2>3, RespondKeeps
  <2>4. CASE SendOutcome
    BY <2>4, SendOutcomeKeeps
  <2>5. CASE ReadOutcome
    BY <2>5, ReadOutcomeKeeps
  <2>6. CASE DropSender \/ ChannelClosed \/ SendFails \/ DropConsumer
    BY <2>6, EndingKeeps
  <2>7. CASE UNCHANGED voiceVars
    <3>1. UNCHANGED <<said, accepted, rxIn, pc, current, iteration, outcome, out, consumer, got>>
      BY <2>7 DEF voiceVars, callerVars, agentVars, consumerVars
    <3>2. AgentTypes' /\ OneInHand'
      BY <3>1 DEF AgentInv, AgentTypes, OneInHand
    <3> QED BY <3>1, <3>2, NothingMoves
  <2> QED BY <2>1, <2>2, <2>3, <2>4, <2>5, <2>6, <2>7 DEF VoiceNext, Runner
<1> QED BY <1>1, <1>2, PTL DEF VoiceSpec

\* While somebody reads, every utterance that entered the queue is in one place, and
\* the outcomes come in the order of the utterances: speech.rs promises one outcome
\* "per resolved utterance, in order".
THEOREM OutcomesSound == VoiceSpec => []OneOutcomeEach
<1>1. AgentInv => OneOutcomeEach
  BY DEF AgentInv, WhileRead, Sound, OneOutcomeEach
<1> QED BY <1>1, AgentInvariance, PTL

-----------------------------------------------------------------------------
(* The messages *)

Messages == [role : {"user", "assistant"}, content : Seq(Blocks)]

\* What is selected is there, in its order.
LEMMA SelectedNth ==
  ASSUME NEW X, NEW s \in Seq(X), NEW positions, positions \subseteq 1 .. Len(s)
  PROVE  /\ Cardinality(positions) \in Nat
         /\ Selected(s, positions) \in Seq(X)
         /\ Len(Selected(s, positions)) = Cardinality(positions)
         /\ \A k \in 1 .. Cardinality(positions) :
              /\ Nth(positions, k) \in positions
              /\ Selected(s, positions)[k] = s[Nth(positions, k)]
<1>1. Len(s) \in Nat /\ \A n \in 1 .. Len(s) : s[n] \in X
  OBVIOUS
<1>2. Cardinality(positions) \in Nat
  BY <1>1, Ranks
<1>3. \A k \in 1 .. Cardinality(positions) : Nth(positions, k) \in positions
  BY <1>1, Enumerates
<1>4. Selected(s, positions) = [k \in 1 .. Cardinality(positions) |-> s[Nth(positions, k)]]
  BY DEF Selected, Nth, Rank, UpTo
<1>5. Selected(s, positions) \in [1 .. Cardinality(positions) -> X]
  BY <1>1, <1>3, <1>4
<1>6. Selected(s, positions) \in Seq(X)
  BY <1>2, <1>5
<1>7. Len(Selected(s, positions)) = Cardinality(positions)
  BY <1>2, <1>5, <1>6, LenProperties
<1> QED BY <1>2, <1>3, <1>4, <1>6, <1>7

\* Everything selected, and nothing.
LEMMA SelectedEnds ==
  ASSUME NEW X, NEW s \in Seq(X), NEW positions
  PROVE  /\ positions = 1 .. Len(s) => Selected(s, positions) = s
         /\ positions = {} => Selected(s, positions) = <<>>
<1>1. Len(s) \in Nat
  OBVIOUS
<1>2. ASSUME positions = 1 .. Len(s) PROVE Selected(s, positions) = s
  <2>1. /\ Selected(s, positions) \in Seq(X)
        /\ Len(Selected(s, positions)) = Cardinality(positions)
        /\ \A k \in 1 .. Cardinality(positions) : Selected(s, positions)[k] = s[Nth(positions, k)]
    BY <1>2, SelectedNth
  <2>2. Cardinality(positions) = Len(s) /\ \A k \in 1 .. Len(s) : Nth(positions, k) = k
    BY <1>1, <1>2, NthOfAll
  <2> QED BY <2>1, <2>2, SeqEqual
<1>3. ASSUME positions = {} PROVE Selected(s, positions) = <<>>
  <2>1. /\ Selected(s, positions) \in Seq(X)
        /\ Len(Selected(s, positions)) = Cardinality(positions)
    BY <1>3, SelectedNth
  <2> QED BY <1>3, <2>1, FS_EmptySet, EmptySeq
<1> QED BY <1>2, <1>3

\* What is filtered by its type is of that type, was there, and is all or nothing if all
\* or none is of the type.
LEMMA FilteredHas ==
  ASSUME NEW content \in Seq(Blocks), NEW types
  PROVE  /\ Filtered(content, types) \in Seq(Blocks)
         /\ \A k \in 1 .. Len(Filtered(content, types)) :
              /\ Filtered(content, types)[k].type \in types
              /\ \E n \in 1 .. Len(content) : Filtered(content, types)[k] = content[n]
         /\ (\A n \in 1 .. Len(content) : content[n].type \in types)
              => Filtered(content, types) = content
         /\ (\A n \in 1 .. Len(content) : content[n].type \notin types)
              => Filtered(content, types) = <<>>
<1> DEFINE positions == {n \in DOMAIN content : content[n].type \in types}
<1>1. Filtered(content, types) = Selected(content, positions)
  BY DEF Filtered
<1>2. DOMAIN content = 1 .. Len(content)
  OBVIOUS
<1>3. /\ positions \subseteq 1 .. Len(content)
      /\ \A n \in positions : content[n].type \in types
      /\ (\A n \in 1 .. Len(content) : content[n].type \in types) => positions = 1 .. Len(content)
      /\ (\A n \in 1 .. Len(content) : content[n].type \notin types) => positions = {}
  BY <1>2
<1> HIDE DEF positions
<1>4. /\ Selected(content, positions) \in Seq(Blocks)
      /\ Len(Selected(content, positions)) = Cardinality(positions)
      /\ \A k \in 1 .. Cardinality(positions) :
           /\ Nth(positions, k) \in positions
           /\ Selected(content, positions)[k] = content[Nth(positions, k)]
  BY <1>3, SelectedNth
<1>5. \A k \in 1 .. Cardinality(positions) :
        /\ Selected(content, positions)[k].type \in types
        /\ \E n \in 1 .. Len(content) : Selected(content, positions)[k] = content[n]
  BY <1>3, <1>4
<1>6. /\ positions = 1 .. Len(content) => Selected(content, positions) = content
      /\ positions = {} => Selected(content, positions) = <<>>
  BY SelectedEnds
<1> QED BY <1>1, <1>3, <1>4, <1>5, <1>6

\* The results of a turn's requests: as many, with their ids.
LEMMA ResultsAnswer ==
  ASSUME NEW content \in Seq(Blocks)
  PROVE  LET requests == Filtered(content, {"tool_use"})
             results == ToolResults(content).content
         IN  /\ ToolResults(content) \in Messages /\ ToolResults(content).role = "user"
             /\ requests \in Seq(Blocks) /\ results \in Seq(Blocks) /\ Len(results) = Len(requests)
             /\ \A n \in 1 .. Len(requests) :
                  results[n].type = "tool_result" /\ results[n].id = requests[n].id
<1> DEFINE requests == Filtered(content, {"tool_use"})
           results == [n \in DOMAIN requests |-> Block("tool_result", requests[n].id)]
<1>1. ToolResults(content) = [role |-> "user", content |-> results]
  BY DEF ToolResults, Message
<1>2. requests \in Seq(Blocks)
  BY FilteredHas
<1> HIDE DEF requests
<1>3. DOMAIN requests = 1 .. Len(requests) /\ Len(requests) \in Nat
  BY <1>2
<1>4. results \in [1 .. Len(requests) -> Blocks]
  <2>1. ASSUME NEW n \in 1 .. Len(requests)
        PROVE  Block("tool_result", requests[n].id) \in Blocks
    <3>1. requests[n] \in Blocks
      BY <1>2
    <3>2. requests[n].id \in Nat
      BY <3>1 DEF Blocks
    <3> QED BY <3>2 DEF Block, Blocks, BlockTypes
  <2> QED BY <2>1, <1>3
<1>5. results \in Seq(Blocks)
  BY <1>3, <1>4
<1>6. Len(results) = Len(requests)
  BY <1>3, <1>4, <1>5, LenProperties
<1>7. ASSUME NEW n \in 1 .. Len(requests)
      PROVE  results[n].type = "tool_result" /\ results[n].id = requests[n].id
  <2>1. n \in DOMAIN requests
    BY <1>3
  <2>2. results[n] = Block("tool_result", requests[n].id)
    BY <2>1
  <2> QED BY <2>2 DEF Block
<1> HIDE DEF results
<1>8. /\ ToolResults(content).role = "user" /\ ToolResults(content).content = results
      /\ ToolResults(content) = [role |-> "user", content |-> results]
  BY <1>1
<1>9. ToolResults(content) \in Messages
  <2>1. [role |-> "user", content |-> results] \in Messages
    BY <1>5 DEF Messages
  <2> QED BY <2>1, <1>8
<1> QED BY <1>2, <1>5, <1>6, <1>7, <1>8, <1>9 DEF requests

-----------------------------------------------------------------------------
(* The history *)

Kept == {"text", "tool_use", "tool_result"}

\* What turn n of a history is: an utterance, an answer of the service, or the
\* results of the very answer before it, which asked for some.
Turn(h, n) ==
  /\ \A k \in 1 .. Len(h[n].content) : h[n].content[k].type \in Kept
  /\ \/ h[n] = UserText
     \/ /\ h[n].role = "assistant"
        /\ \A k \in 1 .. Len(h[n].content) : h[n].content[k].type # "tool_result"
     \/ /\ n - 1 \in 1 .. Len(h) /\ h[n - 1].role = "assistant"
        /\ Filtered(h[n - 1].content, {"tool_use"}) # <<>>
        /\ h[n] = ToolResults(h[n - 1].content)

Turns(h) ==
  /\ h \in Seq(Messages)
  /\ \A n \in 1 .. Len(h) : Turn(h, n)
  /\ h # <<>> => h[1] = UserText

HistoryInv ==
  /\ Turns(history)
  /\ pc \in {"ask", "tools"} => history # <<>>
  /\ pc = "ask" => history[Len(history)].role = "user"
  /\ pc = "tools" => /\ history[Len(history)].role = "assistant"
                     /\ Filtered(history[Len(history)].content, {"tool_use"}) # <<>>

\* What the user said is a turn of one block of text.
LEMMA UserTextTyped ==
  /\ UserText \in Messages /\ UserText.role = "user"
  /\ UserText.content \in Seq(Blocks) /\ Len(UserText.content) = 1
  /\ UserText.content[1].type = "text"
<1>1. UserText = [role |-> "user", content |-> <<[type |-> "text", id |-> 0]>>]
  BY DEF UserText, Message, Block
<1>2. [type |-> "text", id |-> 0] \in Blocks
  BY DEF Blocks, BlockTypes
<1>3. <<[type |-> "text", id |-> 0]>> \in Seq(Blocks)
  BY <1>2
<1>4. UserText \in Messages
  BY <1>1, <1>3 DEF Messages
<1> QED BY <1>1, <1>3, <1>4

\* A turn more leaves those before it what they were.
LEMMA HistoryGrows ==
  ASSUME NEW h, NEW m, NEW g, Turns(h), m \in Messages, g = Append(h, m),
         Turn(g, Len(h) + 1), h = <<>> => m = UserText
  PROVE  Turns(g) /\ g # <<>> /\ g[Len(g)] = m
<1> USE DEF Turns
<1>1. /\ Len(h) \in Nat /\ g \in Seq(Messages) /\ Len(g) = Len(h) + 1 /\ g[Len(h) + 1] = m
      /\ \A n \in 1 .. Len(h) : g[n] = h[n]
  BY AppendProperties
<1>2. ASSUME NEW n \in 1 .. Len(g) PROVE Turn(g, n)
  <2>1. CASE n = Len(h) + 1
    BY <2>1
  <2>2. CASE n # Len(h) + 1
    <3>1. n \in 1 .. Len(h) /\ Turn(h, n)
      BY <1>1, <2>2
    <3>2. g[n] = h[n]
      BY <1>1, <3>1
    <3>3. n - 1 \in 1 .. Len(h) => n - 1 \in 1 .. Len(g) /\ g[n - 1] = h[n - 1]
      BY <1>1
    <3> QED BY <3>1, <3>2, <3>3 DEF Turn
  <2> QED BY <2>1, <2>2
<1>3. g[1] = UserText
  <2>1. CASE h = <<>>
    BY <2>1, <1>1
  <2>2. CASE h # <<>>
    <3>1. 1 \in 1 .. Len(h)
      BY <2>2, <1>1, EmptySeq
    <3> QED BY <3>1, <2>2, <1>1
  <2> QED BY <2>1, <2>2
<1>4. g # <<>> /\ g[Len(g)] = m
  BY <1>1
<1> QED BY <1>1, <1>2, <1>3, <1>4

\* Nothing has been said.
LEMMA HistoryStarts == VoiceInit => HistoryInv
BY EmptySeq DEF VoiceInit, HistoryInv, Turns

\* The runner takes an utterance: a turn of the user.
LEMMA TakeKeepsHistory ==
  ASSUME HistoryInv, Take
  PROVE  HistoryInv'
<1>1. CASE Head(rxIn) = Blank
  <2>1. UNCHANGED <<pc, history>>
    BY <1>1 DEF Take, agentVars
  <2> QED BY <2>1 DEF HistoryInv
<1>2. CASE Head(rxIn) # Blank
  <2>1. history' = Append(history, UserText) /\ pc' \in {"send", "ask"}
    BY <1>2 DEF Take
  <2>2. UserText \in Messages /\ UserText.role = "user" /\ UserText.content[1].type \in Kept
        /\ Len(UserText.content) = 1
    BY UserTextTyped DEF Kept
  <2>3. PICK g : g = Append(history, UserText)
    OBVIOUS
  <2>4. Turns(history) /\ history \in Seq(Messages)
    BY DEF HistoryInv, Turns
  <2>5. g[Len(history) + 1] = UserText
    BY <2>2, <2>3, <2>4, AppendProperties
  <2>6. Turn(g, Len(history) + 1)
    BY <2>2, <2>5 DEF Turn
  <2>7. Turns(g) /\ g # <<>> /\ g[Len(g)] = UserText
    BY <2>2, <2>3, <2>4, <2>6, HistoryGrows
  <2> QED BY <2>1, <2>2, <2>3, <2>7 DEF HistoryInv
<1> QED BY <1>1, <1>2

\* The answer of the service: what it may hold is what into_content_block keeps.
LEMMA AnswerKeepsHistory ==
  ASSUME HistoryInv, ProviderAnswers
  PROVE  HistoryInv'
<1>1. PICK reply \in Replies :
        /\ Possible(reply)
        /\ history' = Append(history, Message("assistant", reply.blocks))
        /\ pc' \in {"tools", "send"} /\ (pc' = "tools" => reply.stop = "ToolUse")
  BY DEF ProviderAnswers
<1>2. PICK content \in Contents : reply.blocks = Filtered(content, {"text", "tool_use"})
  BY DEF Replies, IntoTurnResponse, IntoContentBlocks
<1>3. PICK blocks : blocks = reply.blocks
  OBVIOUS
<1>4. blocks \in Seq(Blocks)
      /\ \A k \in 1 .. Len(blocks) : blocks[k].type \in {"text", "tool_use"}
  <2>1. content \in Seq(Blocks)
    BY VoiceAgentAssumption
  <2> QED BY <2>1, <1>2, <1>3, FilteredHas
<1>5. PICK m : m = Message("assistant", blocks)
  OBVIOUS
<1>6. m = [role |-> "assistant", content |-> blocks]
  BY <1>5 DEF Message
<1>7. m \in Messages /\ m.role = "assistant" /\ m.content = blocks
  BY <1>4, <1>6 DEF Messages
<1>8. PICK g : g = Append(history, m)
  OBVIOUS
<1>9. Turns(history) /\ history \in Seq(Messages)
  BY DEF HistoryInv, Turns
<1>10. g[Len(history) + 1] = m
  BY <1>7, <1>8, <1>9, AppendProperties
<1>11. Turn(g, Len(history) + 1)
  BY <1>4, <1>7, <1>10 DEF Turn, Kept
<1>12. history # <<>>
  BY DEF HistoryInv, ProviderAnswers
<1>13. Turns(g) /\ g # <<>> /\ g[Len(g)] = m
  BY <1>7, <1>8, <1>9, <1>11, <1>12, HistoryGrows
<1>14. pc' = "tools" => Filtered(blocks, {"tool_use"}) # <<>>
  BY <1>1, <1>3 DEF Possible
<1>15. history' = g
  BY <1>1, <1>3, <1>5, <1>8
<1> QED BY <1>1, <1>7, <1>13, <1>14, <1>15 DEF HistoryInv

\* The results, one for each request of the turn before.
LEMMA ToolsKeepHistory ==
  ASSUME HistoryInv, RunTools
  PROVE  HistoryInv'
<1>1. /\ history' = Append(history, ToolResults(history[Len(history)].content))
      /\ pc = "tools" /\ pc' \in {"ask", "send"}
  BY DEF RunTools, WithResults, Last
<1>2. /\ Turns(history) /\ history \in Seq(Messages) /\ history # <<>>
      /\ history[Len(history)].role = "assistant"
      /\ Filtered(history[Len(history)].content, {"tool_use"}) # <<>>
  BY <1>1 DEF HistoryInv, Turns
<1>3. Len(history) \in Nat /\ Len(history) \in 1 .. Len(history)
  BY <1>2, EmptySeq
<1>4. PICK content : content = history[Len(history)].content
  OBVIOUS
<1>5. content \in Seq(Blocks)
  <2>1. history[Len(history)] \in Messages
    BY <1>2, <1>3
  <2> QED BY <2>1, <1>4 DEF Messages
<1>6. PICK m : m = ToolResults(content)
  OBVIOUS
<1>7. /\ m \in Messages /\ m.role = "user"
      /\ \A k \in 1 .. Len(m.content) : m.content[k].type = "tool_result"
  BY <1>5, <1>6, ResultsAnswer
<1>8. PICK g : g = Append(history, m)
  OBVIOUS
<1>9. /\ g[Len(history) + 1] = m /\ g[Len(history)] = history[Len(history)]
      /\ Len(g) = Len(history) + 1
  BY <1>2, <1>3, <1>7, <1>8, AppendProperties
<1>10. Turn(g, Len(history) + 1)
  <2>1. (Len(history) + 1) - 1 = Len(history) /\ Len(history) \in 1 .. Len(g)
    BY <1>3, <1>9
  <2> QED BY <1>2, <1>4, <1>6, <1>7, <1>9, <2>1 DEF Turn, Kept
<1>11. Turns(g) /\ g # <<>> /\ g[Len(g)] = m
  BY <1>2, <1>7, <1>8, <1>10, HistoryGrows
<1>12. history' = g
  BY <1>1, <1>4, <1>6, <1>8
<1> QED BY <1>1, <1>7, <1>11, <1>12 DEF HistoryInv

\* The history only grows by whole turns, and is the user's when it is sent.
THEOREM HistoryInvariance == VoiceSpec => []HistoryInv
<1>1. HistoryInv /\ [VoiceNext]_voiceVars => HistoryInv'
  <2> SUFFICES ASSUME HistoryInv, [VoiceNext]_voiceVars PROVE HistoryInv'
    OBVIOUS
  <2>1. CASE Take
    BY <2>1, TakeKeepsHistory
  <2>2. CASE ProviderAnswers
    BY <2>2, AnswerKeepsHistory
  <2>3. CASE RunTools
    BY <2>3, ToolsKeepHistory
  <2>4. CASE \/ Speak \/ DropSender \/ ReadOutcome \/ DropConsumer \/ UNCHANGED voiceVars
             \/ ChannelClosed \/ SendOutcome \/ SendFails \/ ProviderFails
    <3>1. history' = history /\ pc' \in {pc, "ended", "recv", "send"}
      BY <2>4 DEF Speak, DropSender, ReadOutcome, DropConsumer, voiceVars, ChannelClosed,
                  SendOutcome, SendFails, ProviderFails, Ended, Fail, callerVars, agentVars,
                  consumerVars
    <3> QED BY <3>1 DEF HistoryInv
  <2> QED BY <2>1, <2>2, <2>3, <2>4 DEF VoiceNext, Runner
<1> QED BY <1>1, HistoryStarts, PTL DEF VoiceSpec

-----------------------------------------------------------------------------
(* The request *)

\* Which turns of the history have something left to send: all that hold anything.
Sent(h) == {n \in DOMAIN h : h[n].content # <<>>}

\* The filter of the blocks takes nothing out of a history, and there is no audio in
\* it: the request is the turns that hold something.
LEMMA WireIsSelected ==
  ASSUME NEW h, Turns(h)
  PROVE  WireMessages(h) = Selected(h, Sent(h))
<1>1. h \in Seq(Messages) /\ DOMAIN h = 1 .. Len(h) /\ Len(h) \in Nat
  BY DEF Turns
<1>2. ASSUME NEW n \in 1 .. Len(h)
      PROVE  /\ h[n].content \in Seq(Blocks)
             /\ Message(h[n].role, TryFromBlock(h[n].content)) = h[n]
             /\ Filtered(h[n].content, {"audio"}) = <<>>
  <2>1. h[n] \in Messages
    BY <1>1
  <2>2. h[n].content \in Seq(Blocks) /\ h[n] = [role |-> h[n].role, content |-> h[n].content]
    BY <2>1 DEF Messages
  <2>3. \A k \in 1 .. Len(h[n].content) : h[n].content[k].type \in Kept
    BY DEF Turns, Turn
  <2>4. \A k \in 1 .. Len(h[n].content) : h[n].content[k].type \notin {"audio"}
    BY <2>3 DEF Kept
  <2>5. Filtered(h[n].content, {"audio"}) = <<>>
    BY <2>2, <2>4, FilteredHas
  <2>6. Filtered(h[n].content, Kept) = h[n].content
    BY <2>2, <2>3, FilteredHas
  <2>7. TryFromBlock(h[n].content) = h[n].content
    BY <2>6 DEF TryFromBlock, Kept
  <2> QED BY <2>2, <2>5, <2>7 DEF Message
<1> DEFINE wire == [n \in DOMAIN h |-> Message(h[n].role, TryFromBlock(h[n].content))]
<1>3. wire = h
  <2>1. wire \in Seq(Messages) /\ Len(wire) = Len(h) /\ \A n \in 1 .. Len(h) : wire[n] = h[n]
    <3>1. \A n \in 1 .. Len(h) : wire[n] = h[n] /\ h[n] \in Messages
      BY <1>1, <1>2
    <3>2. wire \in [1 .. Len(h) -> Messages]
      BY <1>1, <3>1
    <3> QED BY <1>1, <3>1, <3>2, LenProperties
  <2> HIDE DEF wire
  <2> QED BY <2>1, <1>1, SeqEqual
<1>4. ~ \E n \in DOMAIN h : Filtered(h[n].content, {"audio"}) # <<>>
  BY <1>1, <1>2
<1>5. WireMessages(h) = Selected(wire, {n \in DOMAIN wire : Keeps(wire[n])})
  BY <1>4 DEF WireMessages
<1> QED BY <1>3, <1>5 DEF Sent, Keeps

\* The results of a turn are those it asked for, and there is no turn without any that
\* they could be mistaken for.
LEMMA ResultsAreAnswers ==
  ASSUME NEW h, Turns(h), NEW n \in 1 .. Len(h), ResultIds(h[n]) # <<>>
  PROVE  /\ n - 1 \in 1 .. Len(h) /\ h[n - 1].role = "assistant" /\ h[n - 1].content # <<>>
         /\ UseIds(h[n - 1]) = ResultIds(h[n])
<1>1. Turn(h, n) /\ h[n] \in Messages /\ h[n].content \in Seq(Blocks)
  <2>1. h[n] \in Messages
    BY DEF Turns
  <2> QED BY <2>1 DEF Turns, Messages
<1>2. ~ \A k \in 1 .. Len(h[n].content) : h[n].content[k].type # "tool_result"
  <2> SUFFICES ASSUME \A k \in 1 .. Len(h[n].content) : h[n].content[k].type # "tool_result"
               PROVE  ResultIds(h[n]) = <<>>
    OBVIOUS
  <2>1. \A k \in 1 .. Len(h[n].content) : h[n].content[k].type \notin {"tool_result"}
    OBVIOUS
  <2>2. Filtered(h[n].content, {"tool_result"}) = <<>>
    BY <2>1, <1>1, FilteredHas
  <2> QED BY <2>2 DEF ResultIds
<1>3. h[n] # UserText
  <2>1. Len(UserText.content) = 1 /\ UserText.content[1].type = "text"
    BY UserTextTyped
  <2>2. \A k \in 1 .. Len(UserText.content) : UserText.content[k].type = "text"
    BY <2>1
  <2> QED BY <2>2, <1>2
<1>4. /\ n - 1 \in 1 .. Len(h) /\ h[n - 1].role = "assistant"
      /\ Filtered(h[n - 1].content, {"tool_use"}) # <<>>
      /\ h[n] = ToolResults(h[n - 1].content)
  BY <1>1, <1>2, <1>3 DEF Turn
<1>5. PICK content : content = h[n - 1].content
  OBVIOUS
<1>6. content \in Seq(Blocks)
  <2>1. h[n - 1] \in Messages
    BY <1>4 DEF Turns
  <2> QED BY <2>1, <1>5 DEF Messages
<1>7. content # <<>>
  <2>1. content = <<>> => \A k \in 1 .. Len(content) : content[k].type \notin {"tool_use"}
    OBVIOUS
  <2>2. Filtered(content, {"tool_use"}) # <<>>
    BY <1>4, <1>5
  <2> QED BY <2>1, <2>2, <1>6, FilteredHas
<1>8. PICK requests : requests = Filtered(content, {"tool_use"})
  OBVIOUS
<1>9. PICK results : results = h[n].content
  OBVIOUS
<1>10. /\ requests \in Seq(Blocks) /\ results \in Seq(Blocks) /\ Len(results) = Len(requests)
       /\ \A k \in 1 .. Len(requests) :
            results[k].type = "tool_result" /\ results[k].id = requests[k].id
  BY SMTT(20), <1>4, <1>5, <1>6, <1>8, <1>9, ResultsAnswer
<1>11. Filtered(results, {"tool_result"}) = results
  <2>1. \A k \in 1 .. Len(results) : results[k].type \in {"tool_result"}
    BY <1>10
  <2> QED BY <2>1, <1>10, FilteredHas
<1>12. UseIds(h[n - 1]) = [k \in DOMAIN requests |-> requests[k].id]
  BY <1>5, <1>8 DEF UseIds
<1>13. ResultIds(h[n]) = [k \in DOMAIN results |-> results[k].id]
  BY <1>9, <1>11 DEF ResultIds
<1>14. DOMAIN requests = 1 .. Len(requests) /\ DOMAIN results = 1 .. Len(requests)
  BY <1>10
<1>15. UseIds(h[n - 1]) = ResultIds(h[n])
  BY <1>10, <1>12, <1>13, <1>14
<1> QED BY <1>4, <1>5, <1>7, <1>15

\* Nothing goes out that the service would not take as content of a turn.
LEMMA NothingBlank ==
  ASSUME NEW h, Turns(h), NEW n \in 1 .. Len(h)
  PROVE  Filtered(h[n].content, {"blank", "audio", "thinking"}) = <<>>
<1>1. h[n].content \in Seq(Blocks)
  <2>1. h[n] \in Messages
    BY DEF Turns
  <2> QED BY <2>1 DEF Messages
<1>2. \A k \in 1 .. Len(h[n].content) :
        h[n].content[k].type \notin {"blank", "audio", "thinking"}
  BY DEF Turns, Turn, Kept
<1> QED BY <1>1, <1>2, FilteredHas

\* A history that ends with the user's turn makes a request the service accepts.
LEMMA RequestAccepted ==
  ASSUME NEW h, Turns(h), h # <<>>, h[Len(h)].role = "user"
  PROVE  Acceptable(WireMessages(h))
<1> DEFINE N == Len(h)
           S == Sent(h)
           K == Cardinality(S)
           w == Selected(h, S)
<1>1. h \in Seq(Messages) /\ DOMAIN h = 1 .. N /\ N \in Nat /\ 1 \in 1 .. N /\ N \in 1 .. N
  BY EmptySeq DEF Turns
<1>2. S \subseteq 1 .. N /\ \A n \in S : h[n].content # <<>>
  BY <1>1 DEF Sent
<1>3. h[1] = UserText /\ 1 \in S
  <2>1. h[1] = UserText
    BY DEF Turns
  <2>2. UserText.content # <<>>
    BY UserTextTyped
  <2> QED BY <1>1, <2>1, <2>2 DEF Sent
<1>4. N \in S
  <2>1. Turn(h, N)
    BY <1>1 DEF Turns
  <2>2. CASE h[N] = UserText
    BY <2>2, <1>1, UserTextTyped DEF Sent
  <2>3. CASE h[N] # UserText
    <3>1. /\ N - 1 \in 1 .. N /\ Filtered(h[N - 1].content, {"tool_use"}) # <<>>
          /\ h[N] = ToolResults(h[N - 1].content)
      BY <2>1, <2>3 DEF Turn
    <3>2. PICK content : content = h[N - 1].content
      OBVIOUS
    <3>3. content \in Seq(Blocks)
      <4>1. h[N - 1] \in Messages
        BY <1>1, <3>1
      <4> QED BY <4>1, <3>2 DEF Messages
    <3>4. PICK requests : requests = Filtered(content, {"tool_use"})
      OBVIOUS
    <3>5. requests \in Seq(Blocks) /\ requests # <<>> /\ Len(h[N].content) = Len(requests)
      BY <3>1, <3>2, <3>3, <3>4, ResultsAnswer
    <3>6. Len(requests) # 0
      BY <3>5, EmptySeq
    <3>7. h[N].content # <<>>
      BY <3>5, <3>6
    <3> QED BY <1>1, <3>7 DEF Sent
  <2> QED BY <2>2, <2>3
<1> HIDE DEF S
<1>5. /\ K \in Nat /\ w \in Seq(Messages) /\ Len(w) = K
      /\ \A k \in 1 .. K : Nth(S, k) \in S /\ w[k] = h[Nth(S, k)]
  BY ZenonT(60), <1>1, <1>2, SelectedNth
<1>6. 1 <= K /\ Nth(S, 1) = 1 /\ Nth(S, K) = N
  BY <1>1, <1>2, <1>3, <1>4, NthOfEnds
<1>7. w # <<>> /\ Head(w).role = "user" /\ Last(w).role = "user"
  <2>1. 1 \in 1 .. K /\ K \in 1 .. K
    BY <1>5, <1>6
  <2>2. w[1] = h[1] /\ w[K] = h[N]
    BY <1>5, <1>6, <2>1
  <2>3. w # <<>>
    BY <1>5, <1>6
  <2>4. Head(w) = w[1] /\ Last(w) = w[K]
    BY <1>5, <2>3, HeadTailProperties DEF Last
  <2> QED BY <1>3, <2>2, <2>3, <2>4, UserTextTyped
<1>8. ASSUME NEW k \in 1 .. K
      PROVE  /\ w[k].content # <<>>
             /\ Filtered(w[k].content, {"blank", "audio", "thinking"}) = <<>>
             /\ ResultIds(w[k]) # <<>> =>
                  /\ k > 1 /\ w[k - 1].role = "assistant"
                  /\ UseIds(w[k - 1]) = ResultIds(w[k])
  <2>1. PICK n \in S : n = Nth(S, k) /\ w[k] = h[n]
    BY <1>5
  <2>2. n \in 1 .. N /\ h[n].content # <<>>
    BY <1>2
  <2>3. Filtered(h[n].content, {"blank", "audio", "thinking"}) = <<>>
    BY <2>2, NothingBlank
  <2>4. ASSUME ResultIds(h[n]) # <<>>
        PROVE  k > 1 /\ w[k - 1].role = "assistant" /\ UseIds(w[k - 1]) = ResultIds(h[n])
    <3>1. PICK m : m = n - 1
      OBVIOUS
    <3>2. /\ m \in 1 .. N /\ h[m].role = "assistant" /\ h[m].content # <<>>
          /\ UseIds(h[m]) = ResultIds(h[n])
      BY <2>2, <2>4, <3>1, ResultsAreAnswers
    <3>3. m \in S /\ m + 1 \in S /\ m + 1 = n /\ m \in Nat
      BY <1>1, <2>2, <3>1, <3>2 DEF S, Sent
    <3>4. /\ Rank(S, m) \in 1 .. K - 1 /\ Rank(S, m + 1) = Rank(S, m) + 1
          /\ Nth(S, Rank(S, m)) = m
      <4>1. N \in Nat /\ S \subseteq 1 .. N /\ m \in S /\ m + 1 \in S
        BY <1>1, <1>2, <3>3
      <4> HIDE DEF N, K, w, S
      <4>2. /\ Rank(S, m) \in 1 .. Cardinality(S) - 1 /\ Rank(S, m + 1) = Rank(S, m) + 1
            /\ Nth(S, Rank(S, m)) = m /\ Nth(S, Rank(S, m) + 1) = m + 1
        BY ZenonT(60), <4>1, NthOfNeighbour
      <4> QED BY <4>2 DEF K
    <3>5. Rank(S, n) = k
      BY <1>1, <1>2, <2>1, Enumerates
    <3>6. k - 1 = Rank(S, m) /\ k > 1 /\ k - 1 \in 1 .. K
      BY <1>5, <3>3, <3>4, <3>5
    <3>7. w[k - 1] = h[m]
      BY <1>5, <3>4, <3>6
    <3> QED BY <3>2, <3>6, <3>7
  <2> QED BY <2>1, <2>2, <2>3, <2>4
<1>9. WireMessages(h) = w
  BY WireIsSelected DEF S
<1>10. DOMAIN w = 1 .. K
  BY <1>5
<1> HIDE DEF w, K, N
<1> QED BY <1>7, <1>8, <1>9, <1>10 DEF Acceptable

\* Every request the agent makes is one the service accepts, with the results right
\* after the turn that asked for them: for any content of its turns, of any length,
\* and a conversation that goes on for ever.
THEOREM RequestsSound == VoiceSpec => []ResultsFollowRequests
<1>1. HistoryInv => ResultsFollowRequests
  BY RequestAccepted DEF HistoryInv, ResultsFollowRequests
<1> QED BY <1>1, HistoryInvariance, PTL

-----------------------------------------------------------------------------
(* The types: both channels within their capacity *)

Queued == [of : Utterances, iterations : 0 .. MaxIterations, failed : BOOLEAN]

VoiceTyped ==
  /\ VoiceTypeOK
  /\ pc = "ask" => iteration < MaxIterations
  /\ IF pc = "send" THEN outcome \in Queued ELSE outcome = NoOutcome

\* What the speakers and the reader of the outcomes do keeps the types.
LEMMA CallersAreTyped ==
  ASSUME VoiceTyped, HistoryInv',
         Speak \/ DropSender \/ ReadOutcome \/ DropConsumer
  PROVE  VoiceTyped'
<1>1. MaxUtterances \in Nat /\ Capacity \in Nat /\ MaxIterations \in Nat
  BY VoiceAgentAssumption
<1>2. CASE Speak
  <2>1. PICK x \in {said + 1, Blank} :
          IF CanQueue
            THEN /\ rxIn' = Append(rxIn, x)
                 /\ accepted' = IF x = Blank THEN accepted ELSE Append(accepted, x)
            ELSE UNCHANGED <<rxIn, accepted>>
    BY <1>2 DEF Speak
  <2>2. /\ said' = said + 1 /\ said < MaxUtterances /\ said \in 0 .. MaxUtterances
        /\ rxIn \in Seq({Blank} \cup Utterances) /\ accepted \in Seq(Utterances)
        /\ Len(rxIn) <= Capacity
    BY <1>2 DEF Speak, VoiceTyped, VoiceTypeOK
  <2>3. said + 1 \in Utterances /\ said' \in 0 .. MaxUtterances
    BY <1>1, <2>2 DEF Utterances
  <2>4. x \in {Blank} \cup Utterances /\ (x # Blank => x \in Utterances)
    BY <2>1, <2>3
  <2>5. /\ rxIn' \in Seq({Blank} \cup Utterances) /\ accepted' \in Seq(Utterances)
        /\ Len(rxIn') <= Capacity
    <3>1. CASE CanQueue
      <4>1. Len(rxIn) < Capacity /\ Len(rxIn) \in Nat
        BY <3>1, <2>2 DEF CanQueue
      <4>2. /\ Append(rxIn, x) \in Seq({Blank} \cup Utterances)
            /\ Len(Append(rxIn, x)) = Len(rxIn) + 1
        BY <2>2, <2>4, AppendProperties
      <4>3. x # Blank => Append(accepted, x) \in Seq(Utterances)
        BY <2>2, <2>4, AppendProperties
      <4>4. Len(Append(rxIn, x)) <= Capacity
        BY <1>1, <4>1, <4>2
      <4> QED BY <3>1, <2>1, <2>2, <4>2, <4>3, <4>4
    <3>2. CASE ~CanQueue
      BY <3>2, <2>1, <2>2
    <3> QED BY <3>1, <3>2
  <2>6. UNCHANGED <<sender, pc, current, iteration, history, outcome, out, consumer, got>>
    BY <1>2 DEF Speak, agentVars, consumerVars
  <2> QED BY <2>3, <2>5, <2>6 DEF VoiceTyped, VoiceTypeOK
<1>3. CASE DropSender
  BY <1>3 DEF DropSender, agentVars, consumerVars, VoiceTyped, VoiceTypeOK
<1>4. CASE ReadOutcome
  <2>1. got \in Seq(Queued) /\ out \in Seq(Queued) /\ Len(out) <= Capacity /\ out # <<>>
    BY <1>4 DEF ReadOutcome, VoiceTyped, VoiceTypeOK, Queued
  <2>2. /\ Head(out) \in Queued /\ Tail(out) \in Seq(Queued) /\ Len(Tail(out)) = Len(out) - 1
        /\ Len(out) \in Nat
    BY <2>1, HeadTailProperties
  <2>3. Append(got, Head(out)) \in Seq(Queued)
    BY <2>1, <2>2, AppendProperties
  <2>4. Len(Tail(out)) <= Capacity
    BY <1>1, <2>1, <2>2
  <2>5. got' \in Seq(Queued) /\ out' \in Seq(Queued) /\ Len(out') <= Capacity
    BY <1>4, <2>2, <2>3, <2>4 DEF ReadOutcome
  <2>6. UNCHANGED <<said, accepted, sender, rxIn, pc, current, iteration, history, outcome, consumer>>
    BY <1>4 DEF ReadOutcome, callerVars, agentVars
  <2> QED BY <2>5, <2>6 DEF VoiceTyped, VoiceTypeOK, Queued
<1>5. CASE DropConsumer
  <2>1. /\ UNCHANGED <<said, accepted, sender, rxIn, pc, current, iteration, history, outcome, got>>
        /\ out' = <<>> /\ consumer' = FALSE
    BY <1>5 DEF DropConsumer, callerVars, agentVars
  <2>2. out' \in Seq(Queued) /\ Len(out') <= Capacity
    BY <2>1, <1>1
  <2> QED BY <2>1, <2>2 DEF VoiceTyped, VoiceTypeOK, Queued
<1> QED BY <1>2, <1>3, <1>4, <1>5

\* So does what the runner does between its awaits.
LEMMA RunnerIsTyped ==
  ASSUME VoiceTyped, AgentInv, HistoryInv',
         Runner \/ ProviderFails \/ ProviderAnswers \/ RunTools
  PROVE  VoiceTyped'
<1>1. MaxUtterances \in Nat /\ Capacity \in Nat \ {0} /\ MaxIterations \in Nat
  BY VoiceAgentAssumption
<1>2. /\ said \in 0 .. MaxUtterances /\ sender \in BOOLEAN /\ consumer \in BOOLEAN
      /\ rxIn \in Seq({Blank} \cup Utterances) /\ Len(rxIn) <= Capacity
      /\ accepted \in Seq(Utterances) /\ current \in {Blank} \cup Utterances
      /\ iteration \in 0 .. MaxIterations
      /\ got \in Seq(Queued) /\ out \in Seq(Queued) /\ Len(out) <= Capacity
  BY DEF VoiceTyped, VoiceTypeOK, Queued
<1>3. history' \in Seq(Messages)
  BY DEF HistoryInv, Turns
<1>4. pc \in {"ask", "tools", "send"} => current \in Utterances
  BY <1>2 DEF AgentInv, OneInHand
<1>5. NoOutcome.of = Blank /\ \A u \in Utterances, n \in 0 .. MaxIterations, failed \in BOOLEAN :
        Outcome(u, n, failed) \in Queued /\ Outcome(u, n, failed).of = u
  BY DEF Outcome, NoOutcome, Queued
<1> DEFINE Typed(c, i, o) ==
      /\ c \in {Blank} \cup Utterances /\ i \in 0 .. MaxIterations
      /\ pc' \in {"recv", "ask", "tools", "send", "ended"}
      /\ pc' = "ask" => i < MaxIterations
      /\ IF pc' = "send" THEN o \in Queued /\ o.of = c ELSE o = NoOutcome
<1>6. ASSUME UNCHANGED <<said, accepted, sender, consumer, got>>,
             rxIn' \in Seq({Blank} \cup Utterances), Len(rxIn') <= Capacity,
             out' \in Seq(Queued), Len(out') <= Capacity,
             Typed(current', iteration', outcome')
      PROVE  VoiceTyped'
  BY <1>2, <1>3, <1>6 DEF VoiceTyped, VoiceTypeOK, Queued, Messages
<1>7. CASE Take
  <2>1. /\ pc = "recv" /\ rxIn # <<>> /\ rxIn' = Tail(rxIn)
        /\ UNCHANGED <<said, accepted, sender, consumer, got, out>>
    BY <1>7 DEF Take, callerVars, consumerVars
  <2>2. /\ Head(rxIn) \in {Blank} \cup Utterances /\ Tail(rxIn) \in Seq({Blank} \cup Utterances)
        /\ Len(Tail(rxIn)) = Len(rxIn) - 1 /\ Len(rxIn) \in Nat
    BY <1>2, <2>1, HeadTailProperties
  <2>3. Len(rxIn') <= Capacity
    BY <1>1, <1>2, <2>1, <2>2
  <2>4. outcome = NoOutcome
    BY <2>1 DEF VoiceTyped
  <2>5. Typed(current', iteration', outcome')
    <3>1. CASE Head(rxIn) = Blank
      BY <3>1, <1>2, <1>7, <2>1, <2>4 DEF Take, agentVars
    <3>2. CASE Head(rxIn) # Blank
      <4>1. /\ current' = Head(rxIn) /\ iteration' = 0 /\ Head(rxIn) \in Utterances
            /\ IF MaxIterations = 0
                 THEN pc' = "send" /\ outcome' = Outcome(Head(rxIn), 0, TRUE)
                 ELSE pc' = "ask" /\ outcome' = outcome
        BY <3>2, <1>7, <2>2 DEF Take
      <4>2. 0 \in 0 .. MaxIterations /\ (MaxIterations # 0 => 0 < MaxIterations)
        BY <1>1
      <4> QED BY <4>1, <4>2, <1>5, <2>4
    <3> QED BY <3>1, <3>2
  <2> HIDE DEF Typed
  <2> QED BY <1>2, <1>6, <2>1, <2>2, <2>3, <2>5
<1>8. CASE ChannelClosed \/ SendFails
  <2>1. /\ pc' = "ended" /\ rxIn' = <<>> /\ current' = Blank /\ outcome' = NoOutcome
        /\ UNCHANGED <<said, accepted, sender, iteration, consumer, got, out>>
    BY <1>8 DEF ChannelClosed, SendFails, Ended, callerVars, consumerVars
  <2>2. rxIn' \in Seq({Blank} \cup Utterances) /\ Len(rxIn') <= Capacity
    BY <2>1, <1>1
  <2>3. Typed(current', iteration', outcome')
    BY <2>1, <1>2
  <2> HIDE DEF Typed
  <2> QED BY <1>2, <1>6, <2>1, <2>2, <2>3
<1>9. CASE SendOutcome
  <2>1. /\ pc = "send" /\ Len(out) < Capacity /\ out' = Append(out, outcome)
        /\ pc' = "recv" /\ current' = Blank /\ outcome' = NoOutcome
        /\ UNCHANGED <<said, accepted, sender, rxIn, iteration, consumer, got>>
    BY <1>9 DEF SendOutcome, callerVars, consumerVars
  <2>2. outcome \in Queued
    BY <2>1 DEF VoiceTyped
  <2>3. /\ out' \in Seq(Queued) /\ Len(out') = Len(out) + 1 /\ Len(out) \in Nat
    BY <1>2, <2>1, <2>2, AppendProperties
  <2>4. Len(out') <= Capacity
    BY <1>1, <2>1, <2>3
  <2>5. Typed(current', iteration', outcome')
    BY <2>1, <1>2
  <2> HIDE DEF Typed
  <2> QED BY <1>2, <1>6, <2>1, <2>3, <2>4, <2>5
<1>10. CASE ProviderFails \/ ProviderAnswers \/ RunTools
  <2>1. /\ UNCHANGED <<said, accepted, sender, rxIn, current, consumer, got, out>>
        /\ pc \in {"ask", "tools"}
    BY <1>10 DEF ProviderFails, ProviderAnswers, RunTools, Fail, callerVars, consumerVars
  <2>2. outcome = NoOutcome
    BY <2>1 DEF VoiceTyped
  <2>3. current \in Utterances
    BY <1>4, <2>1
  <2>4. Typed(current', iteration', outcome')
    <3>1. CASE ProviderFails
      <4>1. pc' = "send" /\ iteration' = iteration /\ outcome' = Outcome(current, 0, TRUE)
        BY <3>1 DEF ProviderFails, Fail
      <4>2. 0 \in 0 .. MaxIterations
        BY <1>1
      <4> QED BY <4>1, <4>2, <1>2, <1>5, <2>1, <2>3
    <3>2. CASE ProviderAnswers
      <4>1. /\ iteration' = iteration + 1
            /\ \/ pc' = "tools" /\ outcome' = outcome
               \/ pc' = "send" /\ outcome' = Outcome(current, iteration + 1, FALSE)
        BY <3>2 DEF ProviderAnswers
      <4>2. iteration < MaxIterations
        BY <3>2 DEF ProviderAnswers, VoiceTyped
      <4>3. iteration + 1 \in 0 .. MaxIterations
        BY <1>1, <1>2, <4>2
      <4> QED BY <4>1, <4>3, <1>5, <2>1, <2>2, <2>3
    <3>3. CASE RunTools
      <4>1. /\ iteration' = iteration
            /\ IF iteration < MaxIterations
                 THEN pc' = "ask" /\ outcome' = outcome
                 ELSE pc' = "send" /\ outcome' = Outcome(current, 0, TRUE)
        BY <3>3 DEF RunTools
      <4>2. 0 \in 0 .. MaxIterations
        BY <1>1
      <4> QED BY <4>1, <4>2, <1>2, <1>5, <2>1, <2>2, <2>3
    <3> QED BY <1>10, <3>1, <3>2, <3>3
  <2> HIDE DEF Typed
  <2> QED BY <1>2, <1>6, <2>1, <2>4
<1> QED BY <1>7, <1>8, <1>9, <1>10 DEF Runner

\* Neither channel holds more than its capacity, no utterance costs more requests than
\* it may, and what waits to be sent is the outcome of the utterance in hand.
THEOREM VoiceTypeCorrect == VoiceSpec => []VoiceTypeOK
<1>1. VoiceInit => VoiceTyped
  <2> SUFFICES ASSUME VoiceInit PROVE VoiceTyped
    OBVIOUS
  <2>1. MaxUtterances \in Nat /\ Capacity \in Nat /\ MaxIterations \in Nat
    BY VoiceAgentAssumption
  <2>2. Len(<<>>) = 0 /\ 0 <= Capacity
    BY <2>1
  <2> QED BY <2>1, <2>2 DEF VoiceInit, VoiceTyped, VoiceTypeOK
<1>2. VoiceTyped /\ AgentInv /\ HistoryInv' /\ [VoiceNext]_voiceVars => VoiceTyped'
  <2> SUFFICES ASSUME VoiceTyped, AgentInv, HistoryInv', [VoiceNext]_voiceVars PROVE VoiceTyped'
    OBVIOUS
  <2>1. CASE UNCHANGED voiceVars
    BY <2>1 DEF voiceVars, callerVars, agentVars, consumerVars, VoiceTyped, VoiceTypeOK
  <2> QED BY <2>1, CallersAreTyped, RunnerIsTyped DEF VoiceNext
<1>3. VoiceTyped => VoiceTypeOK
  BY DEF VoiceTyped
<1> QED BY <1>1, <1>2, <1>3, AgentInvariance, HistoryInvariance, PTL DEF VoiceSpec

=============================================================================
