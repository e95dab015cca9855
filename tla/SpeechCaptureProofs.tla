------------------------- MODULE SpeechCaptureProofs -------------------------
(***************************************************************************)
(* A capture of any number of sessions, which hear any number of frames:   *)
(* stop leaves no worker behind, and utterances are whole and are cut      *)
(* where the silence is over.                                              *)
(*                                                                         *)
(* QuietAfterStop says nothing of the states in between.  The invariant    *)
(* says whom the handle stands for in all of them: outside start it is the *)
(* current session's, unless stop has joined that session's worker.        *)
(*                                                                         *)
(* What an utterance holds follows from the numbers: the frames a worker   *)
(* has not taken yet are those after the last one it took, and what is     *)
(* missing between the frame it holds and that one is what the VAD failed  *)
(* on.  Its buffer then ends at the frame it holds, or, once it has taken  *)
(* a frame that is not fed yet, at the one before.                         *)
(***************************************************************************)
EXTENDS SpeechCapture, TLAPS

IInv ==
  /\ DOMAIN worker = Sessions
  /\ session \in 0 .. Starts
  /\ app \in {"free", "starting", "stopping", "joining"}
  /\ app = "starting" => session > 0
  /\ app # "starting" /\ session > 0 =>
       handle = session \/ (handle = 0 /\ worker[session].pc = "done")

\* What a worker does to the array: its own entry changes, and only while it
\* has not ended.
LEMMA WorkerStep ==
  ASSUME NEW s \in Sessions, Worker(s)
  PROVE  /\ worker[s].pc # "done"
         /\ \E w : worker' = [worker EXCEPT ![s] = w]
         /\ UNCHANGED callerVars
<1>1. CASE WorkerInit(s)
  BY <1>1 DEF WorkerInit, Set, Done, Elsewhere
<1>2. CASE WorkerTop(s)
  BY <1>2 DEF WorkerTop, Set, Done, Elsewhere
<1>3. CASE Receive(s)
  BY <1>3 DEF Receive, Set, Elsewhere
<1>4. CASE ReceiveTimeout(s)
  BY <1>4 DEF ReceiveTimeout, Set, Elsewhere
<1>5. CASE ReceiveDisconnected(s)
  BY <1>5 DEF ReceiveDisconnected, Set, Done, Elsewhere
<1>6. CASE InterimTranscript(s)
  <2>1. worker[s].pc # "done" /\ UNCHANGED callerVars
    BY <1>6 DEF InterimTranscript, Elsewhere
  <2>2. \E w : Set(s, w)
    BY <1>6 DEF InterimTranscript
  <2> QED BY <2>1, <2>2 DEF Set
<1>7. CASE FeedSegmenter(s)
  <2>1. worker[s].pc # "done" /\ UNCHANGED callerVars
    BY <1>7 DEF FeedSegmenter, Elsewhere
  <2>2. \E w : Set(s, w)
    BY <1>7 DEF FeedSegmenter
  <2> QED BY <2>1, <2>2 DEF Set
<1> QED BY <1>1, <1>2, <1>3, <1>4, <1>5, <1>6, <1>7 DEF Worker

\* Before the first start no handle is held.
LEMMA InitHolds == Init => IInv
BY SpeechCaptureAssumption DEF Init, IInv

\* Every step of the caller, the audio thread and the workers keeps the
\* invariant.
LEMMA StepKeeps == IInv /\ [Next]_vars => IInv'
<1> SUFFICES ASSUME IInv, [Next]_vars PROVE IInv'
  OBVIOUS
<1>1. CASE StartCapture
  BY <1>1, SpeechCaptureAssumption DEF StartCapture, IInv
<1>2. CASE StartWorker
  BY <1>2 DEF StartWorker, IInv
<1>3. CASE StopFlag
  BY <1>3 DEF StopFlag, IInv
<1>4. CASE StopStream
  BY <1>4 DEF StopStream, IInv
<1>5. CASE StopJoin
  BY <1>5 DEF StopJoin, IInv
<1>6. CASE EmitFrame
  BY <1>6 DEF EmitFrame, callerVars, IInv
<1>7. ASSUME NEW s \in Sessions, Worker(s) PROVE IInv'
  <2>1. PICK w : worker' = [worker EXCEPT ![s] = w]
    BY <1>7, WorkerStep
  <2>2. worker[s].pc # "done" /\ UNCHANGED callerVars
    BY <1>7, WorkerStep
  <2>3. session > 0 => session \in Sessions
    BY DEF IInv, Sessions
  <2> QED BY <2>1, <2>2, <2>3 DEF callerVars, IInv
<1>8. CASE UNCHANGED vars
  BY <1>8 DEF vars, callerVars, IInv
<1> QED BY <1>1, <1>2, <1>3, <1>4, <1>5, <1>6, <1>7, <1>8 DEF Next, Caller

\* When stop has returned, the worker of the session it stopped has ended, and
\* no callback of it can still come: for any number of starts and stops, also
\* of a capture that was started twice.
THEOREM StopIsQuiet == Spec => []QuietAfterStop
<1>1. IInv => QuietAfterStop
  BY DEF IInv, QuietAfterStop
<1> QED BY <1>1, InitHolds, StepKeeps, PTL DEF Spec

-----------------------------------------------------------------------------
(* What a worker holds *)

Segs == [state : {"Idle", "Speaking", "TrailingSilence"}, silenceStart : Nat,
         incomplete : BOOLEAN, buffer : Seq(Nat), voiceStart : Nat]

Events == {NoEvent} \cup {[kind |-> "start"]} \cup [kind : {"interim"}, audio : Seq(Nat)]
            \cup [kind : {"end"}, audio : Seq(Nat), endOfTurn : BOOLEAN]

Workers == [pc : {"none", "init", "top", "recv", "heard", "feed", "done"}, frame : Frame,
            voice : BOOLEAN, seg : Segs, interim : Nat, event : Events, from : Nat,
            lost : SUBSET Nat, voiced : Nat]

\* The frame is taken and not fed yet.
Unfed(w) == w.pc \in {"heard", "feed"}

\* The last frame in the audio of the utterance.
AudioTo(w) == IF Unfed(w) THEN w.frame.n - 1 ELSE w.frame.n

AudioSound(w) ==
  /\ IF w.seg.state = "Idle" THEN w.seg.buffer = <<>>
       ELSE w.from <= AudioTo(w) /\ IsHeard(w.seg.buffer, w, w.from, AudioTo(w))
  /\ w.event.kind = "end" => w.pc = "top" /\ IsHeard(w.event.audio, w, w.from, w.frame.n)
  /\ w.event.kind = "interim" => w.pc = "feed" /\ IsHeard(w.event.audio, w, w.from, w.frame.n - 1)

\* No voice was heard since the silence began, which is not over yet.
SilenceSound(w, asked) ==
  /\ w.voiced <= w.frame.t
  /\ w.seg.state = "TrailingSilence" =>
       /\ w.voiced <= w.seg.silenceStart
       /\ ~Unfed(w) => w.frame.t = w.seg.silenceStart \/ ~SilenceOver(w.seg, w.frame)
  /\ w.event.kind = "end" =>
       (asked /\ w.event.endOfTurn) \/ w.frame.t - w.voiced >= SilenceTimeout

\* asked: an end-of-turn predictor is configured.
WorkerSound(w, asked) ==
  w \in Workers /\ w.frame.n \notin w.lost /\ AudioSound(w) /\ SilenceSound(w, asked)

\* The worker has taken the frames up to m, and the others are in its queue.
Taken(w, queue, m) ==
  /\ w.frame.n <= m /\ w.lost \subseteq 1 .. m
  /\ (w.frame.n + 1) .. m \subseteq w.lost
  /\ \A k \in DOMAIN queue : queue[k].n = m + k /\ w.frame.t <= queue[k].t
  /\ \A j, k \in DOMAIN queue : j <= k => queue[j].t <= queue[k].t

\* While its stream is open the last of them is the last that was sent.
QueueSound(w, queue, open, last, time) ==
  \E m \in Nat :
    /\ Taken(w, queue, m)
    /\ open => /\ last = m + Len(queue) /\ w.frame.t <= time
               /\ \A k \in DOMAIN queue : queue[k].t <= time

Listens(s) == stream = s /\ worker[s].pc # "done"

SessionsFresh ==
  /\ stream \in {0, session}
  /\ app = "starting" => worker[session].pc = "none"
  /\ \A s \in Sessions : s > session => worker[s] = NewWorker /\ chan[s] = <<>>

AudioInv ==
  /\ IInv /\ SessionsFresh
  /\ worker \in [Sessions -> Workers] /\ chan \in [Sessions -> Seq(Frame)]
  /\ sent \in Nat /\ clock \in Nat /\ etd \in BOOLEAN
  /\ \A s \in Sessions :
       WorkerSound(worker[s], etd) /\ QueueSound(worker[s], chan[s], Listens(s), sent, clock)

-----------------------------------------------------------------------------
(* Lemmas about the audio and the queue *)

\* A frame that is heard after the others makes the audio one longer.
LEMMA HearingExtends ==
  ASSUME NEW audio \in Seq(Nat), NEW w \in Workers, NEW a \in Nat, NEW n \in Nat,
         a <= n, n \notin w.lost, IsHeard(audio, w, a, n - 1)
  PROVE  Append(audio, n) \in Seq(Nat) /\ IsHeard(Append(audio, n), w, a, n)
<1> DEFINE more == Append(audio, n)
<1>1. /\ more \in Seq(Nat) /\ DOMAIN more = DOMAIN audio \cup {Len(audio) + 1}
      /\ more[Len(audio) + 1] = n /\ \A k \in DOMAIN audio : more[k] = audio[k]
      /\ Len(audio) \in Nat /\ DOMAIN audio = 1 .. Len(audio)
  OBVIOUS
<1> HIDE DEF more
<1>2. \A k \in DOMAIN audio : audio[k] \in a .. n - 1
  BY DEF IsHeard
<1>3. {more[k] : k \in DOMAIN more} = {audio[k] : k \in DOMAIN audio} \cup {n}
  BY <1>1
<1>4. (a .. n) \ w.lost = ((a .. n - 1) \ w.lost) \cup {n}
  OBVIOUS
<1>5. \A j, k \in DOMAIN more : j < k => more[j] < more[k]
  <2> SUFFICES ASSUME NEW j \in DOMAIN more, NEW k \in DOMAIN more, j < k
               PROVE  more[j] < more[k]
    OBVIOUS
  <2>1. j \in DOMAIN audio
    BY <1>1
  <2>2. CASE k \in DOMAIN audio
    BY <1>1, <2>1, <2>2 DEF IsHeard
  <2>3. CASE k = Len(audio) + 1
    BY <1>1, <1>2, <2>1, <2>3
  <2> QED BY <1>1, <2>2, <2>3
<1> QED BY <1>1, <1>3, <1>4, <1>5 DEF IsHeard, more

\* The first frame of an utterance is its audio.
LEMMA FirstIsHeard ==
  ASSUME NEW w \in Workers, NEW n \in Nat, n \notin w.lost
  PROVE  IsHeard(<<n>>, w, n, n)
<1>1. n .. n = {n}
  OBVIOUS
<1> QED BY <1>1 DEF IsHeard

\* A stream that was closed asks nothing more of the queue.
LEMMA QueueCloses ==
  ASSUME NEW w, NEW queue, NEW open, NEW last, NEW time, NEW l, NEW t,
         QueueSound(w, queue, open, last, time)
  PROVE  QueueSound(w, queue, FALSE, l, t)
BY DEF QueueSound

\* A frame that is emitted goes to the end of the queue.
LEMMA QueueGrows ==
  ASSUME NEW w \in Workers, NEW queue \in Seq(Frame), NEW last \in Nat, NEW time \in Nat,
         NEW gap \in Nat, QueueSound(w, queue, TRUE, last, time)
  PROVE  LET more == Append(queue, [n |-> last + 1, t |-> time + gap])
         IN  more \in Seq(Frame) /\ QueueSound(w, more, TRUE, last + 1, time + gap)
<1> DEFINE f == [n |-> last + 1, t |-> time + gap]
           more == Append(queue, f)
<1>1. f \in Frame /\ f.n = last + 1 /\ f.t = time + gap
  BY DEF Frame
<1> HIDE DEF f
<1>2. /\ more \in Seq(Frame) /\ Len(more) = Len(queue) + 1
      /\ DOMAIN more = DOMAIN queue \cup {Len(queue) + 1} /\ DOMAIN queue = 1 .. Len(queue)
      /\ more[Len(queue) + 1] = f /\ \A k \in DOMAIN queue : more[k] = queue[k]
      /\ Len(queue) \in Nat /\ \A k \in DOMAIN queue : queue[k] \in Frame
  BY <1>1
<1> HIDE DEF more
<1>3. PICK m \in Nat : /\ Taken(w, queue, m)
                       /\ last = m + Len(queue) /\ w.frame.t <= time
                       /\ \A k \in DOMAIN queue : queue[k].t <= time
  BY DEF QueueSound
<1>4. w.frame.t \in Nat /\ \A k \in DOMAIN queue : queue[k].t \in Nat
  BY <1>2 DEF Workers, Frame
<1>5. /\ \A k \in DOMAIN more : more[k].n = m + k /\ w.frame.t <= more[k].t
      /\ \A k \in DOMAIN more : more[k].t <= time + gap
      /\ \A j, k \in DOMAIN more : j <= k => more[j].t <= more[k].t
  <2>1. /\ more[Len(queue) + 1].n = m + (Len(queue) + 1)
        /\ more[Len(queue) + 1].t = time + gap /\ w.frame.t <= time + gap
        /\ \A k \in DOMAIN queue : queue[k].t <= time + gap
    BY <1>1, <1>2, <1>3, <1>4
  <2>2. \A k \in DOMAIN queue : queue[k].n = m + k /\ w.frame.t <= queue[k].t
    BY <1>3 DEF Taken
  <2>3. \A j, k \in DOMAIN queue : j <= k => queue[j].t <= queue[k].t
    BY <1>3 DEF Taken
  <2>4. \A k \in DOMAIN more : k # Len(queue) + 1 => k \in DOMAIN queue /\ more[k] = queue[k]
    BY <1>2
  <2>5. \A j \in DOMAIN queue : ~(Len(queue) + 1 <= j)
    BY <1>2
  <2>6. /\ \A k \in DOMAIN more : more[k].n = m + k /\ w.frame.t <= more[k].t
        /\ \A k \in DOMAIN more : more[k].t <= time + gap
    <3> SUFFICES ASSUME NEW k \in DOMAIN more
                 PROVE  more[k].n = m + k /\ w.frame.t <= more[k].t /\ more[k].t <= time + gap
      OBVIOUS
    <3>1. CASE k = Len(queue) + 1
      <4>1. more[k].t = time + gap /\ more[k].n = m + k
        BY <2>1, <3>1
      <4> QED BY <2>1, <4>1
    <3>2. CASE k # Len(queue) + 1
      BY <2>1, <2>2, <2>4, <3>2
    <3> QED BY <3>1, <3>2
  <2>7. \A j, k \in DOMAIN more : j <= k => more[j].t <= more[k].t
    <3> SUFFICES ASSUME NEW j \in DOMAIN more, NEW k \in DOMAIN more, j <= k
                 PROVE  more[j].t <= more[k].t
      OBVIOUS
    <3>1. CASE k = Len(queue) + 1
      BY <2>1, <2>6, <3>1
    <3>2. CASE k # Len(queue) + 1
      BY <2>3, <2>4, <2>5, <3>2
    <3> QED BY <3>1, <3>2
  <2> QED BY <2>6, <2>7
<1>6. Taken(w, more, m)
  BY <1>3, <1>5 DEF Taken
<1>7. w.frame.t <= time + gap /\ last + 1 = m + Len(more)
  <2>1. w.frame.t <= time /\ w.frame.t \in Nat
    BY <1>3, <1>4
  <2>2. last = m + Len(queue) /\ Len(more) = Len(queue) + 1 /\ Len(queue) \in Nat
    BY <1>2, <1>3
  <2>3. w.frame.t <= time + gap
    BY <2>1
  <2>4. last + 1 = m + Len(more)
    BY <2>2
  <2> QED BY <2>3, <2>4
<1>8. QueueSound(w, more, TRUE, last + 1, time + gap)
  BY <1>5, <1>6, <1>7 DEF QueueSound
<1> QED BY <1>2, <1>8 DEF more, f

\* A queue is as it was for a worker that took nothing from it.
LEMMA QueueStays ==
  ASSUME NEW w, NEW v, NEW queue, NEW open, NEW now, NEW last, NEW time,
         QueueSound(w, queue, open, last, time), now => open,
         v.frame = w.frame, v.lost = w.lost
  PROVE  QueueSound(v, queue, now, last, time)
BY DEF QueueSound, Taken

\* The frame at the head of the queue is the next one, but for those that are
\* lost, and it is held or lost itself when it was taken.
LEMMA FrameTaken ==
  ASSUME NEW w \in Workers, NEW queue \in Seq(Frame), queue # <<>>,
         NEW open, NEW last, NEW time, QueueSound(w, queue, open, last, time)
  PROVE  LET f == Head(queue)
         IN  /\ f \in Frame /\ Tail(queue) \in Seq(Frame)
             /\ w.frame.n < f.n /\ w.frame.t <= f.t
             /\ (w.frame.n + 1) .. (f.n - 1) \subseteq w.lost /\ f.n \notin w.lost
             /\ \A v \in Workers :
                  \/ v.frame = f /\ v.lost = w.lost
                  \/ v.frame = w.frame /\ v.lost = w.lost \cup {f.n}
                  => QueueSound(v, Tail(queue), open, last, time)
<1> DEFINE f == Head(queue)
           rest == Tail(queue)
<1>1. /\ f \in Frame /\ rest \in Seq(Frame) /\ f = queue[1] /\ 1 \in DOMAIN queue
      /\ Len(rest) = Len(queue) - 1 /\ Len(queue) \in Nat
      /\ \A k \in DOMAIN rest : k + 1 \in DOMAIN queue /\ rest[k] = queue[k + 1] /\ k \in Nat
  OBVIOUS
<1>2. /\ f.n \in Nat /\ f.t \in Nat /\ w.frame.n \in Nat /\ w.frame.t \in Nat
      /\ w.lost \subseteq Nat
  BY <1>1 DEF Workers, Frame
<1> HIDE DEF f, rest
<1>3. PICK m \in Nat :
        /\ Taken(w, queue, m)
        /\ open => /\ last = m + Len(queue) /\ w.frame.t <= time
                   /\ \A k \in DOMAIN queue : queue[k].t <= time
  BY DEF QueueSound
<1>4. /\ f.n = m + 1 /\ w.frame.t <= f.t /\ w.frame.n <= m /\ w.lost \subseteq 1 .. m
      /\ (w.frame.n + 1) .. m \subseteq w.lost
  BY <1>1, <1>3 DEF Taken
<1>5. f.n - 1 = m /\ f.n \notin w.lost /\ w.frame.n < f.n
  BY <1>2, <1>4
<1>6. \A k \in DOMAIN rest : /\ rest[k].n = (m + 1) + k
                             /\ w.frame.t <= rest[k].t /\ f.t <= rest[k].t
  <2> SUFFICES ASSUME NEW k \in DOMAIN rest
               PROVE  /\ rest[k].n = (m + 1) + k
                      /\ w.frame.t <= rest[k].t /\ f.t <= rest[k].t
    OBVIOUS
  <2>1. k + 1 \in DOMAIN queue /\ rest[k] = queue[k + 1] /\ k \in Nat /\ 1 <= k + 1
    BY <1>1
  <2>2. rest[k].n = m + (k + 1) /\ w.frame.t <= rest[k].t /\ f.t <= rest[k].t
    BY <1>1, <1>3, <2>1 DEF Taken
  <2> QED BY <2>1, <2>2
<1>7. \A j, k \in DOMAIN rest : j <= k => rest[j].t <= rest[k].t
  <2> SUFFICES ASSUME NEW j \in DOMAIN rest, NEW k \in DOMAIN rest, j <= k
               PROVE  rest[j].t <= rest[k].t
    OBVIOUS
  <2>1. /\ j + 1 \in DOMAIN queue /\ rest[j] = queue[j + 1]
        /\ k + 1 \in DOMAIN queue /\ rest[k] = queue[k + 1] /\ j + 1 <= k + 1
    BY <1>1
  <2> QED BY <1>3, <2>1 DEF Taken
<1>8. open => /\ last = (m + 1) + Len(rest) /\ w.frame.t <= time /\ f.t <= time
              /\ \A k \in DOMAIN rest : rest[k].t <= time
  <2> SUFFICES ASSUME open
               PROVE  /\ last = (m + 1) + Len(rest) /\ w.frame.t <= time /\ f.t <= time
                      /\ \A k \in DOMAIN rest : rest[k].t <= time
    OBVIOUS
  <2>1. last = (m + 1) + Len(rest)
    BY <1>1, <1>3
  <2>2. \A k \in DOMAIN queue : queue[k].t <= time
    BY <1>3
  <2>3. f.t <= time /\ \A k \in DOMAIN rest : rest[k].t <= time
    BY <1>1, <2>2
  <2> QED BY <1>3, <2>1, <2>3
<1>9. ASSUME NEW v \in Workers, v.frame = f, v.lost = w.lost
      PROVE  QueueSound(v, rest, open, last, time)
  <2>1. v.frame.n <= m + 1 /\ v.lost \subseteq 1 .. m + 1 /\ (v.frame.n + 1) .. (m + 1) = {}
    BY <1>2, <1>4, <1>9
  <2>2. Taken(v, rest, m + 1)
    BY <1>6, <1>7, <1>9, <2>1 DEF Taken
  <2> QED BY <1>8, <1>9, <2>2 DEF QueueSound
<1>10. ASSUME NEW v \in Workers, v.frame = w.frame, v.lost = w.lost \cup {f.n}
       PROVE  QueueSound(v, rest, open, last, time)
  <2>1. /\ v.frame.n <= m + 1 /\ v.lost \subseteq 1 .. m + 1
        /\ (v.frame.n + 1) .. (m + 1) \subseteq v.lost
    BY <1>2, <1>4, <1>10
  <2>2. Taken(v, rest, m + 1)
    BY <1>6, <1>7, <1>10, <2>1 DEF Taken
  <2> QED BY <1>8, <1>10, <2>2 DEF QueueSound
<1> QED BY <1>1, <1>4, <1>5, <1>9, <1>10 DEF f, rest

-----------------------------------------------------------------------------
(* Lemmas about the worker *)

\* The audio depends on the frames that are lost only among its own.
LEMMA StillHeard ==
  ASSUME NEW audio, NEW w \in Workers, NEW v \in Workers, NEW a \in Nat, NEW b \in Int,
         NEW c \in Int, (a .. b) \ w.lost = (a .. c) \ v.lost, IsHeard(audio, w, a, b)
  PROVE  IsHeard(audio, v, a, c)
BY DEF IsHeard

\* A worker that waits takes the next frame, and holds it.
LEMMA HeardKeeps ==
  ASSUME NEW asked \in BOOLEAN, NEW w, WorkerSound(w, asked), w.pc = "recv",
         NEW f \in Frame, w.frame.n < f.n, w.frame.t <= f.t,
         (w.frame.n + 1) .. (f.n - 1) \subseteq w.lost, f.n \notin w.lost,
         NEW voice \in BOOLEAN
  PROVE  LET v == [w EXCEPT !.pc = "heard", !.frame = f, !.voice = voice]
         IN  WorkerSound(v, asked)
<1> DEFINE v == [w EXCEPT !.pc = "heard", !.frame = f, !.voice = voice]
<1>1. w \in Workers
  BY DEF WorkerSound
<1>2. /\ v \in Workers /\ v.pc = "heard" /\ v.frame = f /\ v.seg = w.seg /\ v.event = w.event
      /\ v.from = w.from /\ v.lost = w.lost /\ v.voiced = w.voiced
  BY <1>1 DEF Workers
<1> HIDE DEF v
<1>3. /\ w.frame.n \in Nat /\ w.frame.t \in Nat /\ f.n \in Nat /\ f.t \in Nat
      /\ w.from \in Nat /\ w.voiced \in Nat
  BY <1>1 DEF Workers, Frame
<1>4. w.event.kind # "end" /\ w.event.kind # "interim"
  BY DEF WorkerSound, AudioSound
<1>5. AudioSound(v)
  <2>1. CASE w.seg.state = "Idle"
    BY <1>2, <1>4, <2>1 DEF WorkerSound, AudioSound
  <2>2. CASE w.seg.state # "Idle"
    <3>1. w.from <= w.frame.n /\ IsHeard(w.seg.buffer, w, w.from, w.frame.n)
      BY <2>2 DEF WorkerSound, AudioSound, AudioTo, Unfed
    <3>2. (w.from .. w.frame.n) \ w.lost = (w.from .. (f.n - 1)) \ w.lost
      BY <1>3
    <3>3. IsHeard(w.seg.buffer, v, w.from, f.n - 1)
      BY <1>1, <1>2, <1>3, <3>1, <3>2, StillHeard
    <3>4. w.from <= f.n - 1 /\ AudioTo(v) = f.n - 1
      BY <1>2, <1>3, <3>1 DEF AudioTo, Unfed
    <3> QED BY <1>2, <1>4, <2>2, <3>3, <3>4 DEF AudioSound
  <2> QED BY <2>1, <2>2
<1>6. SilenceSound(v, asked)
  <2>1. w.voiced <= f.t
    BY <1>3 DEF WorkerSound, SilenceSound
  <2> QED BY <1>2, <1>4, <2>1 DEF WorkerSound, SilenceSound, Unfed
<1>7. WorkerSound(v, asked)
  BY <1>2, <1>5, <1>6 DEF WorkerSound
<1> QED BY <1>7 DEF v

\* A frame the VAD failed on is none of the utterance's so far.
LEMMA LostKeeps ==
  ASSUME NEW asked \in BOOLEAN, NEW w, WorkerSound(w, asked), w.pc = "recv",
         NEW n \in Nat, w.frame.n < n
  PROVE  LET v == [w EXCEPT !.pc = "top", !.lost = @ \cup {n}]
         IN  WorkerSound(v, asked)
<1> DEFINE v == [w EXCEPT !.pc = "top", !.lost = @ \cup {n}]
<1>1. w \in Workers
  BY DEF WorkerSound
<1>2. /\ v \in Workers /\ v.pc = "top" /\ v.frame = w.frame /\ v.seg = w.seg
      /\ v.event = w.event /\ v.from = w.from /\ v.lost = w.lost \cup {n} /\ v.voiced = w.voiced
  BY <1>1 DEF Workers
<1> HIDE DEF v
<1>3. w.frame.n \in Nat /\ w.from \in Nat
  BY <1>1 DEF Workers, Frame
<1>4. w.event.kind # "end" /\ w.event.kind # "interim" /\ ~Unfed(w) /\ ~Unfed(v)
  BY <1>2 DEF WorkerSound, AudioSound, Unfed
<1>5. AudioSound(v)
  <2>1. CASE w.seg.state = "Idle"
    BY <1>2, <1>4, <2>1 DEF WorkerSound, AudioSound
  <2>2. CASE w.seg.state # "Idle"
    <3>1. w.from <= w.frame.n /\ IsHeard(w.seg.buffer, w, w.from, w.frame.n)
      BY <1>4, <2>2 DEF WorkerSound, AudioSound, AudioTo
    <3>2. (w.from .. w.frame.n) \ w.lost = (w.from .. w.frame.n) \ v.lost
      BY <1>2, <1>3
    <3>3. IsHeard(w.seg.buffer, v, w.from, w.frame.n)
      BY <1>1, <1>2, <1>3, <3>1, <3>2, StillHeard
    <3> QED BY <1>2, <1>4, <2>2, <3>1, <3>3 DEF AudioSound, AudioTo
  <2> QED BY <2>1, <2>2
<1>6. SilenceSound(v, asked)
  BY <1>2, <1>4 DEF WorkerSound, SilenceSound
<1>7. v.frame.n \notin v.lost
  BY <1>2, <1>3 DEF WorkerSound
<1>8. WorkerSound(v, asked)
  BY <1>2, <1>5, <1>6, <1>7 DEF WorkerSound
<1> QED BY <1>8 DEF v

\* The steps between the frames: to go on without an event, and to emit one that
\* is not the end of an utterance.
LEMMA GoingOnKeeps ==
  ASSUME NEW asked \in BOOLEAN, NEW w, WorkerSound(w, asked), NEW v \in Workers,
         v.frame = w.frame, v.seg = w.seg, v.from = w.from, v.lost = w.lost,
         v.voiced = w.voiced, Unfed(v) <=> Unfed(w), v.event.kind # "end",
         v.event.kind = "interim" =>
           v.pc = "feed" /\ IsHeard(v.event.audio, w, w.from, w.frame.n - 1)
  PROVE  WorkerSound(v, asked)
<1>1. AudioTo(v) = AudioTo(w)
  BY DEF AudioTo
<1>2. AudioSound(v)
  BY <1>1 DEF WorkerSound, AudioSound, IsHeard
<1>3. SilenceSound(v, asked)
  BY DEF WorkerSound, SilenceSound
<1> QED BY <1>2, <1>3 DEF WorkerSound

\* What becomes of an utterance on a frame: it begins, there is still none, it
\* goes on, or it ends.
Opens(g, f, voice, r) ==
  /\ g.state = "Idle" /\ voice
  /\ r.seg.state = "Speaking" /\ r.seg.buffer = <<f.n>> /\ r.event = [kind |-> "start"]

StaysIdle(g, voice, r) == g.state = "Idle" /\ ~voice /\ r.seg = g /\ r.event = NoEvent

GoesOn(g, f, voice, r) ==
  /\ g.state # "Idle" /\ r.seg.state # "Idle"
  /\ r.seg.buffer = Append(g.buffer, f.n) /\ r.event = NoEvent
  /\ r.seg.state = "TrailingSilence" =>
       /\ ~voice
       /\ \/ r.seg.silenceStart = f.t
          \/ /\ g.state = "TrailingSilence" /\ r.seg.silenceStart = g.silenceStart
             /\ ~SilenceOver(r.seg, f)

Ends(g, f, voice, answer, r) ==
  /\ g.state # "Idle" /\ ~voice /\ r.seg.state = "Idle" /\ r.seg.buffer = <<>>
  /\ \/ r.event = NoEvent
     \/ \E turn \in BOOLEAN :
          /\ r.event = [kind |-> "end", audio |-> Append(g.buffer, f.n), endOfTurn |-> turn]
          /\ \/ turn /\ answer = "complete"
             \/ g.state = "TrailingSilence" /\ SilenceOver(g, f)

\* feed does one of these, and nothing else.
LEMMA FeedCases ==
  ASSUME NEW g \in Segs, NEW f \in Frame, NEW voice \in BOOLEAN, NEW answer \in EtdAnswers
  PROVE  LET r == Feed(g, f, voice, answer)
         IN  /\ r.seg \in Segs /\ r.event \in Events
             /\ \/ Opens(g, f, voice, r) \/ StaysIdle(g, voice, r)
                \/ GoesOn(g, f, voice, r) \/ Ends(g, f, voice, answer, r)
<1> DEFINE r == Feed(g, f, voice, answer)
           heard == Hear(g, f, voice)
<1>1. /\ g.state \in {"Idle", "Speaking", "TrailingSilence"} /\ g.buffer \in Seq(Nat)
      /\ g.silenceStart \in Nat /\ g.voiceStart \in Nat /\ g.incomplete \in BOOLEAN
      /\ f.n \in Nat /\ f.t \in Nat
  BY DEF Segs, Frame
<1>2. <<f.n>> \in Seq(Nat) /\ Append(g.buffer, f.n) \in Seq(Nat) /\ <<>> \in Seq(Nat)
  BY <1>1
<1>3. /\ heard \in Segs /\ heard.state = g.state /\ heard.buffer = Append(g.buffer, f.n)
      /\ heard.silenceStart = g.silenceStart /\ heard.incomplete = g.incomplete
  BY <1>1, <1>2 DEF Hear, Segs
<1> HIDE DEF heard
<1>4. CASE g.state = "Idle" /\ voice
  <2>1. r = Open(g, f)
    BY <1>4 DEF Feed
  <2> HIDE DEF r
  <2>2. /\ r.event = [kind |-> "start"]
        /\ r.seg = [g EXCEPT !.state = "Speaking", !.voiceStart = f.t, !.buffer = <<f.n>>]
    BY <2>1 DEF Open
  <2>3. r.seg \in Segs /\ r.seg.state = "Speaking" /\ r.seg.buffer = <<f.n>>
    BY <1>1, <1>2, <2>2 DEF Segs
  <2>4. r.seg \in Segs /\ r.event \in Events /\ Opens(g, f, voice, r)
    BY <1>4, <2>2, <2>3 DEF Events, Opens
  <2> QED BY <2>4 DEF r
<1>5. CASE g.state = "Idle" /\ ~voice
  <2>1. r = Keep(g)
    BY <1>5 DEF Feed
  <2> HIDE DEF r
  <2>2. r.seg \in Segs /\ r.event \in Events /\ StaysIdle(g, voice, r)
    BY <1>5, <2>1 DEF Keep, Events, StaysIdle
  <2> QED BY <2>2 DEF r
<1>6. ASSUME NEW turn \in BOOLEAN, r = Close(heard, f, turn), g.state # "Idle", ~voice,
             (turn /\ answer = "complete") \/ (g.state = "TrailingSilence" /\ SilenceOver(g, f))
      PROVE  r.seg \in Segs /\ r.event \in Events /\ Ends(g, f, voice, answer, r)
  <2> HIDE DEF r
  <2>1. r.seg = [heard EXCEPT !.state = "Idle", !.buffer = <<>>]
    BY <1>6 DEF Close
  <2>2. r.seg \in Segs /\ r.seg.state = "Idle" /\ r.seg.buffer = <<>>
    BY <1>2, <1>3, <2>1 DEF Segs
  <2>3. \/ r.event = NoEvent
        \/ r.event = [kind |-> "end", audio |-> heard.buffer, endOfTurn |-> turn]
    BY <1>6 DEF Close
  <2>4. heard.buffer \in Seq(Nat)
    BY <1>2, <1>3
  <2>5. [kind |-> "end", audio |-> heard.buffer, endOfTurn |-> turn]
          \in [kind : {"end"}, audio : Seq(Nat), endOfTurn : BOOLEAN]
    BY <2>4
  <2>6. r.event \in Events
    BY <2>3, <2>5, Zenon DEF Events
  <2> QED BY <1>3, <1>6, <2>2, <2>3, <2>6 DEF Ends
<1>7. ASSUME NEW seg \in Segs, r = Keep(seg), g.state # "Idle", seg.state # "Idle",
             seg.buffer = heard.buffer,
             seg.state = "TrailingSilence" =>
               /\ ~voice
               /\ \/ seg.silenceStart = f.t
                  \/ /\ g.state = "TrailingSilence" /\ seg.silenceStart = g.silenceStart
                     /\ ~SilenceOver(seg, f)
      PROVE  r.seg \in Segs /\ r.event \in Events /\ GoesOn(g, f, voice, r)
  <2> HIDE DEF r
  <2>1. r.seg = seg /\ r.event = NoEvent
    BY <1>7 DEF Keep
  <2> QED BY <1>3, <1>7, <2>1 DEF GoesOn, Events
<1>8. CASE g.state = "Speaking" /\ voice
  <2>1. r = Keep(heard)
    BY <1>8 DEF Feed, heard
  <2> QED BY <1>3, <1>7, <1>8, <2>1
<1>9. CASE g.state = "Speaking" /\ ~voice /\ answer = "complete"
  <2>1. r = Close(heard, f, TRUE)
    BY <1>9 DEF Feed, heard
  <2> QED BY <1>6, <1>9, <2>1
<1>10. CASE g.state = "Speaking" /\ ~voice /\ answer # "complete"
  <2> DEFINE seg == [heard EXCEPT !.state = "TrailingSilence", !.silenceStart = f.t,
                                  !.incomplete = (answer = "incomplete")]
  <2>1. r = Keep(seg)
    BY <1>10 DEF Feed, heard
  <2>2. /\ seg \in Segs /\ seg.state = "TrailingSilence" /\ seg.silenceStart = f.t
        /\ seg.buffer = heard.buffer
    BY <1>1, <1>3 DEF Segs
  <2> HIDE DEF seg, r
  <2>3. r.seg \in Segs /\ r.event \in Events /\ GoesOn(g, f, voice, r)
    BY <1>7, <1>10, <2>1, <2>2
  <2> QED BY <2>3 DEF r
<1>11. CASE g.state = "TrailingSilence" /\ voice
  <2> DEFINE seg == [heard EXCEPT !.state = "Speaking"]
  <2>1. r = Keep(seg)
    BY <1>11 DEF Feed, Resume, heard
  <2>2. seg \in Segs /\ seg.state = "Speaking" /\ seg.buffer = heard.buffer
    BY <1>3 DEF Segs
  <2> HIDE DEF seg, r
  <2>3. r.seg \in Segs /\ r.event \in Events /\ GoesOn(g, f, voice, r)
    BY <1>7, <1>11, <2>1, <2>2
  <2> QED BY <2>3 DEF r
<1>12. CASE g.state = "TrailingSilence" /\ ~voice /\ SilenceOver(g, f)
  <2>1. r = Close(heard, f, ~g.incomplete)
    BY <1>12 DEF Feed, heard
  <2> QED BY <1>1, <1>6, <1>12, <2>1
<1>13. CASE g.state = "TrailingSilence" /\ ~voice /\ ~SilenceOver(g, f)
  <2>1. r = Keep(heard)
    BY <1>13 DEF Feed, heard
  <2>2. ~SilenceOver(heard, f)
    BY <1>3, <1>13 DEF SilenceOver, TimeoutOf
  <2> QED BY <1>3, <1>7, <1>13, <2>1, <2>2
<1> QED BY <1>1, <1>4, <1>5, <1>8, <1>9, <1>10, <1>11, <1>12, <1>13

\* The frame a worker holds is fed: the audio reaches up to it, and an utterance
\* that is cut has been silent for as long as it takes.
LEMMA FedKeeps ==
  ASSUME NEW asked \in BOOLEAN, NEW w, WorkerSound(w, asked), w.pc = "feed",
         NEW answer \in EtdAnswers, answer = "complete" => asked,
         NEW r, r = Feed(w.seg, w.frame, w.voice, answer),
         NEW v, v.pc = "top", v.frame = w.frame, v.seg = r.seg, v.event = r.event,
         v.from = IF r.event.kind = "start" THEN w.frame.n ELSE w.from,
         v.lost = w.lost, v.voiced = IF w.voice THEN w.frame.t ELSE w.voiced, v \in Workers
  PROVE  WorkerSound(v, asked)
<1> DEFINE g == w.seg
           f == w.frame
<1>1. /\ w \in Workers /\ g \in Segs /\ f \in Frame /\ f.n \in Nat /\ f.t \in Nat
      /\ w.voice \in BOOLEAN /\ w.from \in Nat /\ w.voiced \in Nat /\ w.voiced <= f.t
      /\ g.buffer \in Seq(Nat) /\ g.silenceStart \in Nat /\ f.n \notin w.lost
  BY DEF WorkerSound, SilenceSound, Workers, Segs, Frame
<1>2. \/ Opens(g, f, w.voice, r) \/ StaysIdle(g, w.voice, r)
      \/ GoesOn(g, f, w.voice, r) \/ Ends(g, f, w.voice, answer, r)
  BY <1>1, FeedCases
<1>3. g.state # "Idle" => w.from <= f.n - 1 /\ IsHeard(g.buffer, w, w.from, f.n - 1)
  BY DEF WorkerSound, AudioSound, AudioTo, Unfed
<1>4. g.state # "Idle" => IsHeard(Append(g.buffer, f.n), w, w.from, f.n)
  BY <1>1, <1>3, HearingExtends
<1>5. g.state = "TrailingSilence" => w.voiced <= g.silenceStart
  BY DEF WorkerSound, SilenceSound
<1>6. ~Unfed(v) /\ AudioTo(v) = f.n /\ \A audio, a, b : IsHeard(audio, v, a, b) <=> IsHeard(audio, w, a, b)
  BY DEF AudioTo, Unfed, IsHeard
<1>7. v.voiced <= f.t /\ v.voiced \in Nat
  BY <1>1
<1> HIDE DEF g, f
<1>8. CASE Opens(g, f, w.voice, r)
  <2>1. IsHeard(<<f.n>>, w, f.n, f.n)
    BY <1>1, FirstIsHeard
  <2>2. /\ v.seg.state = "Speaking" /\ v.seg.buffer = <<f.n>>
        /\ v.from = f.n /\ v.event.kind = "start"
    <3>1. r.event.kind = "start"
      <4>1. r.event = [kind |-> "start"]
        BY <1>8 DEF Opens
      <4>2. [kind |-> "start"].kind = "start"
        OBVIOUS
      <4> QED BY <4>1, <4>2, Zenon
    <3> QED BY <1>8, <3>1 DEF Opens, f
  <2>3. AudioSound(v)
    BY <1>1, <1>6, <2>1, <2>2 DEF AudioSound
  <2>4. SilenceSound(v, asked)
    BY <1>7, <2>2 DEF SilenceSound, f
  <2> QED BY <1>1, <2>3, <2>4 DEF WorkerSound, f
<1>9. CASE StaysIdle(g, w.voice, r)
  <2>1. v.seg.state = "Idle" /\ v.seg.buffer = <<>> /\ v.event.kind = "none"
    BY <1>9 DEF StaysIdle, NoEvent, WorkerSound, AudioSound, g
  <2>2. AudioSound(v) /\ SilenceSound(v, asked)
    BY <1>7, <2>1 DEF AudioSound, SilenceSound, f
  <2> QED BY <1>1, <2>2 DEF WorkerSound, f
<1>10. CASE GoesOn(g, f, w.voice, r)
  <2>1. v.seg.state # "Idle" /\ v.seg.buffer = Append(g.buffer, f.n) /\ v.event.kind = "none"
        /\ v.from = w.from /\ g.state # "Idle"
    BY <1>10 DEF GoesOn, NoEvent
  <2>2. w.from <= f.n
    BY <1>1, <1>3, <2>1
  <2>3. AudioSound(v)
    BY <1>4, <1>6, <2>1, <2>2 DEF AudioSound
  <2>4. v.seg.state = "TrailingSilence" =>
          /\ v.voiced <= v.seg.silenceStart
          /\ f.t = v.seg.silenceStart \/ ~SilenceOver(v.seg, f)
    BY <1>1, <1>5, <1>10 DEF GoesOn
  <2>5. SilenceSound(v, asked)
    BY <1>7, <2>1, <2>4 DEF SilenceSound, f
  <2> QED BY <1>1, <2>3, <2>5 DEF WorkerSound, f
<1>11. CASE Ends(g, f, w.voice, answer, r)
  <2>1. v.seg.state = "Idle" /\ v.seg.buffer = <<>> /\ g.state # "Idle" /\ ~w.voice
    BY <1>11 DEF Ends
  <2>2. CASE r.event = NoEvent
    <3>1. v.event.kind = "none"
      BY <2>2 DEF NoEvent
    <3>2. AudioSound(v) /\ SilenceSound(v, asked)
      BY <1>7, <2>1, <3>1 DEF AudioSound, SilenceSound, f
    <3> QED BY <1>1, <3>2 DEF WorkerSound, f
  <2>3. CASE r.event # NoEvent
    <3>1. PICK turn \in BOOLEAN :
            /\ r.event = [kind |-> "end", audio |-> Append(g.buffer, f.n), endOfTurn |-> turn]
            /\ \/ turn /\ answer = "complete"
               \/ g.state = "TrailingSilence" /\ SilenceOver(g, f)
      BY <1>11, <2>3 DEF Ends
    <3>2. /\ v.event.kind = "end" /\ v.event.audio = Append(g.buffer, f.n)
          /\ v.event.endOfTurn = turn /\ v.from = w.from /\ v.voiced = w.voiced
      BY <2>1, <3>1
    <3>3. AudioSound(v)
      BY <1>4, <1>6, <2>1, <3>2 DEF AudioSound, f
    <3>4. SilenceOver(g, f) => f.t - g.silenceStart >= SilenceTimeout
      BY <1>1, SegmenterAssumption DEF SilenceOver, TimeoutOf, Extended
    <3>5. (asked /\ v.event.endOfTurn) \/ f.t - v.voiced >= SilenceTimeout
      <4>1. CASE turn /\ answer = "complete"
        BY <3>2, <4>1
      <4>2. CASE g.state = "TrailingSilence" /\ SilenceOver(g, f)
        <5>1. f.t - g.silenceStart >= SilenceTimeout /\ w.voiced <= g.silenceStart
          BY <1>5, <3>4, <4>2
        <5> QED BY <1>1, <3>2, <5>1, SegmenterAssumption
      <4> QED BY <3>1, <4>1, <4>2
    <3>6. SilenceSound(v, asked)
      BY <1>7, <2>1, <3>5 DEF SilenceSound, f
    <3> QED BY <1>1, <3>3, <3>6 DEF WorkerSound, f
  <2> QED BY <2>2, <2>3
<1> QED BY <1>2, <1>8, <1>9, <1>10, <1>11

\* A worker that has ended holds nothing.
LEMMA DoneIsSound ==
  ASSUME NEW asked \in BOOLEAN, NEW last, NEW time
  PROVE  /\ WorkerSound(NewWorker, asked) /\ WorkerSound(DoneWorker, asked)
         /\ DoneWorker.pc = "done"
         /\ QueueSound(NewWorker, <<>>, FALSE, last, time)
         /\ QueueSound(DoneWorker, <<>>, FALSE, last, time)
<1>1. NewSegmenter \in Segs /\ NoFrame \in Frame /\ NoEvent \in Events
  BY DEF NewSegmenter, Segs, NoFrame, Frame, Events
<1>2. ASSUME NEW w, w = NewWorker \/ w = DoneWorker
      PROVE  WorkerSound(w, asked) /\ QueueSound(w, <<>>, FALSE, last, time)
  <2>1. /\ w.pc \in {"none", "done"} /\ w.frame = NoFrame /\ w.seg = NewSegmenter
        /\ w.event = NoEvent /\ w.from = 0 /\ w.lost = {} /\ w.voiced = 0
    BY <1>2 DEF NewWorker, DoneWorker
  <2>2. NewWorker \in Workers
    BY <1>1 DEF NewWorker, Workers
  <2>3. DoneWorker \in Workers
    BY <2>2 DEF DoneWorker, Workers
  <2>4. w \in Workers
    BY <1>2, <2>2, <2>3
  <2>5. WorkerSound(w, asked)
    BY <2>1, <2>4
       DEF WorkerSound, AudioSound, SilenceSound, NewSegmenter, NoEvent, NoFrame, Unfed
  <2>6. Taken(w, <<>>, 0)
    BY <2>1 DEF Taken, NoFrame
  <2> QED BY <2>5, <2>6 DEF QueueSound
<1>3. DoneWorker.pc = "done"
  BY DEF NewWorker, DoneWorker
<1> QED BY <1>2, <1>3

-----------------------------------------------------------------------------
(* The steps of the capture *)

\* What a worker's step comes to: v and queue take the place of what was s's.
Turns(s, v, queue) ==
  /\ worker[s].pc \notin {"none", "done"}
  /\ worker' = [worker EXCEPT ![s] = v] /\ chan' = [chan EXCEPT ![s] = queue]
  /\ WorkerSound(v, etd) /\ queue \in Seq(Frame)
  /\ QueueSound(v, queue, Listens(s) /\ v.pc # "done", sent, clock)
  /\ Elsewhere

\* The frame of a worker, lost or held, is the next one.
LEMMA ReceiveTurns ==
  ASSUME AudioInv, NEW s \in Sessions, Receive(s)
  PROVE  \E v, queue : Turns(s, v, queue)
<1> DEFINE w == worker[s]
           f == Head(chan[s])
           rest == Tail(chan[s])
<1>1. /\ w \in Workers /\ chan[s] \in Seq(Frame) /\ chan[s] # <<>> /\ w.pc = "recv"
      /\ QueueSound(w, chan[s], Listens(s), sent, clock) /\ WorkerSound(w, etd)
      /\ etd \in BOOLEAN /\ chan' = [chan EXCEPT ![s] = rest] /\ Elsewhere
  BY DEF AudioInv, Receive
<1>2. /\ f \in Frame /\ rest \in Seq(Frame)
      /\ w.frame.n < f.n /\ w.frame.t <= f.t
      /\ (w.frame.n + 1) .. (f.n - 1) \subseteq w.lost /\ f.n \notin w.lost
      /\ \A v \in Workers :
           \/ v.frame = f /\ v.lost = w.lost
           \/ v.frame = w.frame /\ v.lost = w.lost \cup {f.n}
           => QueueSound(v, rest, Listens(s), sent, clock)
  BY <1>1, FrameTaken
<1>3. PICK v : /\ worker' = [worker EXCEPT ![s] = v]
               /\ \/ \E voice \in BOOLEAN :
                       v = [w EXCEPT !.pc = "heard", !.frame = f, !.voice = voice]
                  \/ v = [w EXCEPT !.pc = "top", !.lost = @ \cup {f.n}]
  BY DEF Receive, Set
<1> HIDE DEF w, f, rest
<1>4. f.n \in Nat
  BY <1>2 DEF Frame
<1>5. CASE \E voice \in BOOLEAN : v = [w EXCEPT !.pc = "heard", !.frame = f, !.voice = voice]
  <2>1. PICK voice \in BOOLEAN : v = [w EXCEPT !.pc = "heard", !.frame = f, !.voice = voice]
    BY <1>5
  <2>2. WorkerSound(v, etd)
    BY <1>1, <1>2, <2>1, HeardKeeps
  <2>3. v \in Workers /\ v.frame = f /\ v.lost = w.lost /\ v.pc # "done"
    BY <1>1, <2>1, <2>2 DEF WorkerSound, Workers
  <2>4. QueueSound(v, rest, Listens(s), sent, clock)
    BY <1>2, <2>3
  <2>5. Turns(s, v, rest)
    BY <1>1, <1>2, <1>3, <2>2, <2>3, <2>4, QueueStays DEF Turns, w
  <2> QED BY <2>5
<1>6. CASE v = [w EXCEPT !.pc = "top", !.lost = @ \cup {f.n}]
  <2>1. WorkerSound(v, etd)
    BY <1>1, <1>2, <1>4, <1>6, LostKeeps
  <2>2. v \in Workers /\ v.frame = w.frame /\ v.lost = w.lost \cup {f.n} /\ v.pc # "done"
    BY <1>1, <1>6, <2>1 DEF WorkerSound, Workers
  <2>3. QueueSound(v, rest, Listens(s), sent, clock)
    BY <1>2, <2>2
  <2>4. Turns(s, v, rest)
    BY <1>1, <1>2, <1>3, <2>1, <2>2, <2>3, QueueStays DEF Turns, w
  <2> QED BY <2>4
<1> QED BY <1>3, <1>5, <1>6

\* A step that leaves the queue and the frame alone.
LEMMA StaysTurns ==
  ASSUME AudioInv, NEW s \in Sessions, NEW v, WorkerSound(v, etd),
         worker[s].pc \notin {"none", "done"}, worker' = [worker EXCEPT ![s] = v],
         v.frame = worker[s].frame, v.lost = worker[s].lost, UNCHANGED chan, Elsewhere
  PROVE  Turns(s, v, chan[s])
<1>1. chan[s] \in Seq(Frame) /\ chan' = [chan EXCEPT ![s] = chan[s]]
  BY DEF AudioInv
<1>2. QueueSound(worker[s], chan[s], Listens(s), sent, clock)
  BY DEF AudioInv
<1>3. QueueSound(v, chan[s], Listens(s) /\ v.pc # "done", sent, clock)
  BY <1>2, QueueStays
<1> QED BY <1>1, <1>3 DEF Turns

\* The end of a worker.
LEMMA DoneTurns ==
  ASSUME AudioInv, NEW s \in Sessions, worker[s].pc \notin {"none", "done"}, Done(s), Elsewhere
  PROVE  Turns(s, DoneWorker, <<>>)
<1>1. etd \in BOOLEAN /\ <<>> \in Seq(Frame)
  BY DEF AudioInv
<1>2. WorkerSound(DoneWorker, etd) /\ QueueSound(DoneWorker, <<>>, FALSE, sent, clock)
  BY <1>1, DoneIsSound
<1>3. DoneWorker.pc = "done"
  BY <1>1, DoneIsSound
<1>4. QueueSound(DoneWorker, <<>>, Listens(s) /\ DoneWorker.pc # "done", sent, clock)
  BY <1>2, <1>3
<1> QED BY <1>1, <1>2, <1>4 DEF Turns, Done, Set

\* Every step of a worker is such a turn.
LEMMA WorkerTurns ==
  ASSUME AudioInv, NEW s \in Sessions, Worker(s)
  PROVE  \E v, queue : Turns(s, v, queue)
<1> DEFINE w == worker[s]
<1>1. w \in Workers /\ WorkerSound(w, etd) /\ etd \in BOOLEAN
  BY DEF AudioInv
<1>2. ASSUME NEW v \in Workers, worker' = [worker EXCEPT ![s] = v], UNCHANGED chan, Elsewhere,
             w.pc \notin {"none", "done"}, v.frame = w.frame, v.seg = w.seg, v.from = w.from,
             v.lost = w.lost, v.voiced = w.voiced, Unfed(v) <=> Unfed(w), v.event.kind # "end",
             v.event.kind = "interim" =>
               v.pc = "feed" /\ IsHeard(v.event.audio, w, w.from, w.frame.n - 1)
      PROVE  Turns(s, v, chan[s])
  <2>1. WorkerSound(v, etd)
    BY <1>1, <1>2, GoingOnKeeps
  <2> QED BY <1>2, <2>1, StaysTurns
<1>3. NoEvent.kind = "none" /\ NoEvent \in Events
  BY DEF NoEvent, Events
<1>4. w.pc # "top" => w.event.kind # "end"
  BY <1>1 DEF WorkerSound, AudioSound
<1>5. w.pc # "feed" => w.event.kind # "interim"
  BY <1>1 DEF WorkerSound, AudioSound
<1>6. CASE WorkerInit(s)
  <2>1. CASE Done(s)
    BY <1>6, <2>1, DoneTurns DEF WorkerInit
  <2>2. CASE Set(s, [w EXCEPT !.pc = "top"]) /\ UNCHANGED chan
    <3> DEFINE v == [w EXCEPT !.pc = "top"]
    <3>1. /\ v \in Workers /\ v.pc = "top" /\ v.frame = w.frame /\ v.seg = w.seg
          /\ v.from = w.from /\ v.lost = w.lost /\ v.voiced = w.voiced /\ v.event = w.event
      BY <1>1 DEF Workers
    <3>2. worker' = [worker EXCEPT ![s] = v] /\ w.pc = "init" /\ UNCHANGED chan /\ Elsewhere
      BY <1>6, <2>2 DEF WorkerInit, Set
    <3> HIDE DEF v
    <3> QED BY <1>2, <1>4, <1>5, <3>1, <3>2 DEF Unfed
  <2> QED BY <1>6, <2>1, <2>2 DEF WorkerInit
<1>7. CASE WorkerTop(s)
  <2>1. CASE ~running
    BY <1>7, <2>1, DoneTurns DEF WorkerTop
  <2>2. CASE running
    <3> DEFINE v == [w EXCEPT !.pc = "recv", !.event = NoEvent]
    <3>1. /\ v \in Workers /\ v.pc = "recv" /\ v.frame = w.frame /\ v.seg = w.seg
          /\ v.from = w.from /\ v.lost = w.lost /\ v.voiced = w.voiced /\ v.event = NoEvent
      BY <1>1, <1>3 DEF Workers
    <3>2. worker' = [worker EXCEPT ![s] = v] /\ w.pc = "top" /\ UNCHANGED chan /\ Elsewhere
      BY <1>7, <2>2 DEF WorkerTop, Set
    <3> HIDE DEF v
    <3> QED BY <1>2, <1>3, <3>1, <3>2 DEF Unfed
  <2> QED BY <2>1, <2>2
<1>8. CASE Receive(s)
  BY <1>8, ReceiveTurns
<1>9. CASE ReceiveTimeout(s)
  <2> DEFINE v == [w EXCEPT !.pc = "top"]
  <2>1. /\ v \in Workers /\ v.pc = "top" /\ v.frame = w.frame /\ v.seg = w.seg
        /\ v.from = w.from /\ v.lost = w.lost /\ v.voiced = w.voiced /\ v.event = w.event
    BY <1>1 DEF Workers
  <2>2. worker' = [worker EXCEPT ![s] = v] /\ w.pc = "recv" /\ UNCHANGED chan /\ Elsewhere
    BY <1>9 DEF ReceiveTimeout, Set
  <2> HIDE DEF v
  <2> QED BY <1>2, <1>4, <1>5, <2>1, <2>2 DEF Unfed
<1>10. CASE ReceiveDisconnected(s)
  BY <1>10, DoneTurns DEF ReceiveDisconnected
<1>11. CASE InterimTranscript(s)
  <2>1. PICK v : /\ worker' = [worker EXCEPT ![s] = v]
                 /\ \/ v = [w EXCEPT !.pc = "feed"]
                    \/ v = [w EXCEPT !.pc = "feed", !.interim = w.frame.t, !.event = NoEvent]
                    \/ /\ IsSpeaking(w.seg)
                       /\ v = [w EXCEPT !.pc = "feed", !.interim = w.frame.t,
                                        !.event = [kind |-> "interim", audio |-> w.seg.buffer]]
    BY <1>11 DEF InterimTranscript, Set, InterimDue
  <2>2. w.pc = "heard" /\ UNCHANGED chan /\ Elsewhere
    BY <1>11 DEF InterimTranscript
  <2> DEFINE spoken == [kind |-> "interim", audio |-> w.seg.buffer]
  <2>3. w.frame.t \in Nat /\ w.seg.buffer \in Seq(Nat)
    BY <1>1 DEF Workers, Frame, Segs
  <2>4. spoken.kind = "interim" /\ spoken.audio = w.seg.buffer
        /\ spoken \in [kind : {"interim"}, audio : Seq(Nat)]
    BY <2>3
  <2> HIDE DEF spoken
  <2>5. spoken \in Events
    BY <2>4 DEF Events
  <2>6. /\ v \in Workers /\ v.pc = "feed" /\ v.frame = w.frame /\ v.seg = w.seg
        /\ v.from = w.from /\ v.lost = w.lost /\ v.voiced = w.voiced
        /\ \/ v.event = w.event
           \/ v.event = NoEvent
           \/ IsSpeaking(w.seg) /\ v.event = spoken
    <3>1. CASE v = [w EXCEPT !.pc = "feed"]
      BY <1>1, <3>1 DEF Workers
    <3>2. CASE v = [w EXCEPT !.pc = "feed", !.interim = w.frame.t, !.event = NoEvent]
      BY <1>1, <1>3, <2>3, <3>2 DEF Workers
    <3>3. CASE /\ IsSpeaking(w.seg)
               /\ v = [w EXCEPT !.pc = "feed", !.interim = w.frame.t, !.event = spoken]
      BY <1>1, <2>3, <2>5, <3>3 DEF Workers
    <3> QED BY <2>1, <3>1, <3>2, <3>3 DEF spoken
  <2>7. IsSpeaking(w.seg) => IsHeard(w.seg.buffer, w, w.from, w.frame.n - 1)
    BY <1>1, <2>2 DEF IsSpeaking, WorkerSound, AudioSound, AudioTo, Unfed
  <2> HIDE DEF w
  <2>8. /\ v.event.kind # "end"
        /\ v.event.kind = "interim" => IsHeard(v.event.audio, w, w.from, w.frame.n - 1)
    BY <1>3, <1>4, <1>5, <2>2, <2>4, <2>6, <2>7
  <2>9. (Unfed(v) <=> Unfed(w)) /\ w.pc \notin {"none", "done"}
    BY <2>2, <2>6 DEF Unfed
  <2> QED BY <1>2, <2>1, <2>2, <2>6, <2>8, <2>9
<1>12. CASE FeedSegmenter(s)
  <2>1. PICK answer \in (IF etd THEN EtdAnswers ELSE {"none"}) :
          LET r == Feed(w.seg, w.frame, w.voice, answer)
          IN  Set(s, [w EXCEPT
                !.pc = "top",
                !.seg = r.seg,
                !.event = r.event,
                !.interim = IF r.event.kind = "end" /\ streaming THEN 0 ELSE @,
                !.from = IF r.event.kind = "start" THEN w.frame.n ELSE @,
                !.voiced = IF w.voice THEN w.frame.t ELSE @])
    BY <1>12 DEF FeedSegmenter
  <2> DEFINE r == Feed(w.seg, w.frame, w.voice, answer)
             v == [w EXCEPT
                     !.pc = "top",
                     !.seg = r.seg,
                     !.event = r.event,
                     !.interim = IF r.event.kind = "end" /\ streaming THEN 0 ELSE @,
                     !.from = IF r.event.kind = "start" THEN w.frame.n ELSE @,
                     !.voiced = IF w.voice THEN w.frame.t ELSE @]
  <2>2. worker' = [worker EXCEPT ![s] = v] /\ w.pc = "feed" /\ UNCHANGED chan /\ Elsewhere
    BY <1>12, <2>1 DEF FeedSegmenter, Set
  <2>3. answer \in EtdAnswers /\ (answer = "complete" => etd)
    BY <2>1 DEF EtdAnswers
  <2>4. /\ w.seg \in Segs /\ w.frame \in Frame /\ w.voice \in BOOLEAN
        /\ w.frame.n \in Nat /\ w.frame.t \in Nat
    BY <1>1 DEF Workers, Frame
  <2>5. r.seg \in Segs /\ r.event \in Events
    BY <2>3, <2>4, FeedCases
  <2>6. r = Feed(w.seg, w.frame, w.voice, answer)
    OBVIOUS
  <2> HIDE DEF r, w
  <2>7. /\ v \in Workers /\ v.pc = "top" /\ v.frame = w.frame /\ v.seg = r.seg
        /\ v.event = r.event /\ v.from = (IF r.event.kind = "start" THEN w.frame.n ELSE w.from)
        /\ v.lost = w.lost /\ v.voiced = (IF w.voice THEN w.frame.t ELSE w.voiced)
    BY <1>1, <2>4, <2>5 DEF Workers
  <2> HIDE DEF v
  <2>8. WorkerSound(v, etd)
    BY <1>1, <2>2, <2>3, <2>6, <2>7, FedKeeps
  <2>9. Turns(s, v, chan[s])
    BY <2>2, <2>7, <2>8, StaysTurns DEF w
  <2> QED BY <2>9
<1> QED BY <1>6, <1>7, <1>8, <1>9, <1>10, <1>11, <1>12 DEF Worker

\* Before the first start nothing was heard.
LEMMA AudioInitHolds == Init => AudioInv
<1> SUFFICES ASSUME Init PROVE AudioInv
  OBVIOUS
<1>1. /\ IInv /\ etd \in BOOLEAN /\ sent \in Nat /\ clock \in Nat /\ session = 0 /\ stream = 0
      /\ worker = [s \in Sessions |-> NewWorker] /\ chan = [s \in Sessions |-> <<>>]
      /\ app = "free"
  BY InitHolds, SpeechCaptureAssumption DEF Init
<1>2. WorkerSound(NewWorker, etd) /\ QueueSound(NewWorker, <<>>, FALSE, sent, clock)
  BY <1>1, DoneIsSound
<1>3. NewWorker \in Workers /\ <<>> \in Seq(Frame)
  BY <1>2 DEF WorkerSound
<1>4. \A s \in Sessions : ~Listens(s)
  BY <1>1, SpeechCaptureAssumption DEF Listens, Sessions
<1>5. SessionsFresh
  BY <1>1 DEF SessionsFresh
<1>6. ASSUME NEW s \in Sessions
      PROVE  WorkerSound(worker[s], etd) /\ QueueSound(worker[s], chan[s], Listens(s), sent, clock)
  <2>1. worker[s] = NewWorker /\ chan[s] = <<>> /\ Listens(s) = FALSE
    BY <1>1, <1>4 DEF Listens
  <2> QED BY <1>2, <2>1
<1> QED BY <1>1, <1>3, <1>5, <1>6 DEF AudioInv

\* A step that leaves the workers, the queues and the audio thread alone keeps
\* the invariant, if no stream is opened.
LEMMA CallerKeeps ==
  ASSUME AudioInv, IInv', SessionsFresh', UNCHANGED <<etd, worker, audioVars>>,
         stream' \in {0, stream}
  PROVE  AudioInv'
<1>1. ASSUME NEW s \in Sessions
      PROVE  QueueSound(worker[s], chan[s], Listens(s)', sent, clock)
  <2>1. QueueSound(worker[s], chan[s], Listens(s), sent, clock)
    BY DEF AudioInv
  <2>2. s # 0
    BY SpeechCaptureAssumption DEF Sessions
  <2>3. Listens(s)' => Listens(s)
    BY <2>2 DEF Listens
  <2> QED BY <2>1, <2>3, QueueStays
<1> QED BY <1>1 DEF AudioInv, audioVars

\* Every step of the caller, the audio thread and the workers keeps the
\* invariant of the audio.
LEMMA AudioStepKeeps == AudioInv /\ [Next]_vars => AudioInv'
<1> SUFFICES ASSUME AudioInv, [Next]_vars PROVE AudioInv'
  OBVIOUS
<1>1. IInv /\ IInv'
  BY StepKeeps DEF AudioInv
<1>2. session \in 0 .. Starts /\ Starts \in Nat /\ stream \in {0, session}
  BY SpeechCaptureAssumption DEF AudioInv, IInv, SessionsFresh
<1>3. CASE StartCapture
  <2>1. /\ session' = session + 1 /\ stream' = session + 1 /\ sent' = 0 /\ clock' = 0
        /\ session < Starts /\ UNCHANGED <<etd, chan, worker>> /\ app' = "starting"
    BY <1>3 DEF StartCapture, configVars
  <2>2. session + 1 \in Sessions
    BY <1>2, <2>1 DEF Sessions
  <2>3. worker[session + 1] = NewWorker /\ chan[session + 1] = <<>>
    BY <1>2, <2>2 DEF AudioInv, SessionsFresh
  <2>4. SessionsFresh'
    <3>1. worker[session + 1].pc = "none"
      BY <2>3 DEF NewWorker
    <3>2. \A s \in Sessions : s > session + 1 => worker[s] = NewWorker /\ chan[s] = <<>>
      BY <1>2 DEF AudioInv, SessionsFresh, Sessions
    <3> QED BY <2>1, <3>1, <3>2 DEF SessionsFresh
  <2>5. ASSUME NEW s \in Sessions
        PROVE  QueueSound(worker[s], chan[s], Listens(s)', 0, 0)
    <3>1. CASE s = session + 1
      <4>1. Taken(NewWorker, <<>>, 0)
        BY DEF Taken, NewWorker, NoFrame
      <4>2. NewWorker.frame.t = 0
        BY DEF NewWorker, NoFrame
      <4> QED BY <2>3, <3>1, <4>1, <4>2 DEF QueueSound
    <3>2. CASE s # session + 1
      <4>1. ~Listens(s)'
        BY <2>1, <3>2 DEF Listens
      <4>2. QueueSound(worker[s], chan[s], Listens(s), sent, clock)
        BY DEF AudioInv
      <4>3. QueueSound(worker[s], chan[s], FALSE, 0, 0)
        BY <4>2, QueueCloses
      <4> QED BY <4>1, <4>3, QueueStays
    <3> QED BY <3>1, <3>2
  <2> QED BY <1>1, <2>1, <2>4, <2>5 DEF AudioInv
<1>4. CASE StartWorker
  <2> DEFINE w == worker[session]
             v == [w EXCEPT !.pc = "init"]
  <2>1. /\ app = "starting" /\ app' = "free" /\ worker' = [worker EXCEPT ![session] = v]
        /\ UNCHANGED <<etd, session, stream, audioVars>> /\ w.pc = "none"
    BY <1>4 DEF StartWorker, configVars, AudioInv, SessionsFresh
  <2>2. session \in Sessions
    BY <1>1, <1>2, <2>1 DEF IInv, Sessions
  <2>3. /\ w \in Workers /\ WorkerSound(w, etd) /\ etd \in BOOLEAN
        /\ QueueSound(w, chan[session], Listens(session), sent, clock)
    BY <2>2 DEF AudioInv
  <2>4. /\ v \in Workers /\ v.pc = "init" /\ v.frame = w.frame /\ v.seg = w.seg
        /\ v.from = w.from /\ v.lost = w.lost /\ v.voiced = w.voiced /\ v.event = w.event
    BY <2>3 DEF Workers
  <2>5. w.event.kind # "end" /\ w.event.kind # "interim"
    BY <2>1, <2>3 DEF WorkerSound, AudioSound
  <2> HIDE DEF v, w
  <2>6. WorkerSound(v, etd)
    BY <2>1, <2>3, <2>4, <2>5, GoingOnKeeps DEF Unfed
  <2>7. Listens(session)' = Listens(session)
    BY <2>1, <2>2, <2>4 DEF Listens, AudioInv, w
  <2>8. QueueSound(v, chan[session], Listens(session)', sent, clock)
    BY <2>3, <2>4, <2>7, QueueStays
  <2>9. SessionsFresh'
    BY <1>2, <2>1 DEF AudioInv, SessionsFresh, audioVars
  <2>10. worker' \in [Sessions -> Workers] /\ \A s \in Sessions : WorkerSound(worker'[s], etd)
    BY <2>1, <2>2, <2>4, <2>6 DEF AudioInv
  <2>11. ASSUME NEW s \in Sessions
         PROVE  QueueSound(worker'[s], chan[s], Listens(s)', sent, clock)
    <3>1. CASE s = session
      BY <2>1, <2>2, <2>8, <3>1 DEF AudioInv
    <3>2. CASE s # session
      BY <2>1, <3>2 DEF AudioInv, Listens
    <3> QED BY <3>1, <3>2
  <2> QED BY <1>1, <2>1, <2>9, <2>10, <2>11 DEF AudioInv, audioVars
<1>5. CASE StopFlag \/ StopStream \/ StopJoin
  <2>1. /\ UNCHANGED <<etd, session, worker, audioVars>> /\ stream' \in {0, stream}
        /\ app' # "starting"
    BY <1>5 DEF StopFlag, StopStream, StopJoin, configVars
  <2>2. SessionsFresh'
    BY <2>1 DEF AudioInv, SessionsFresh, audioVars
  <2> QED BY <1>1, <2>1, <2>2, CallerKeeps
<1>6. CASE EmitFrame
  <2>1. /\ stream # 0 /\ sent' = sent + 1 /\ UNCHANGED <<etd, worker, session, stream, app>>
    BY <1>6 DEF EmitFrame, configVars, callerVars
  <2>2. PICK gap \in Gaps :
          /\ clock' = clock + gap
          /\ chan' = IF worker[stream].pc = "done" THEN chan
                     ELSE [chan EXCEPT ![stream] =
                             Append(@, [n |-> sent + 1, t |-> clock + gap])]
    BY <1>6 DEF EmitFrame
  <2>3. gap \in Nat /\ sent \in Nat /\ clock \in Nat /\ stream \in Sessions
    BY <1>2, <2>1, SpeechCaptureAssumption DEF AudioInv, Sessions
  <2> DEFINE more == Append(chan[stream], [n |-> sent + 1, t |-> clock + gap])
  <2>4. Listens(stream) =>
          more \in Seq(Frame) /\ QueueSound(worker[stream], more, TRUE, sent + 1, clock + gap)
    <3>1. worker[stream] \in Workers /\ chan[stream] \in Seq(Frame)
      BY <2>3 DEF AudioInv
    <3>2. Listens(stream) => QueueSound(worker[stream], chan[stream], TRUE, sent, clock)
      BY <2>3 DEF AudioInv, Listens
    <3> QED BY <2>3, <3>1, <3>2, QueueGrows
  <2>5. chan' = IF Listens(stream) THEN [chan EXCEPT ![stream] = more] ELSE chan
    BY <2>2, <2>3 DEF Listens, AudioInv
  <2> HIDE DEF more
  <2>6. chan' \in [Sessions -> Seq(Frame)]
    BY <2>3, <2>4, <2>5 DEF AudioInv
  <2>7. ASSUME NEW s \in Sessions
        PROVE  QueueSound(worker[s], chan'[s], Listens(s)', sent + 1, clock + gap)
    <3>1. CASE s = stream /\ Listens(s)
      <4>1. chan'[s] = more /\ Listens(s)' = TRUE
        BY <2>1, <2>3, <2>5, <3>1 DEF AudioInv, Listens
      <4> QED BY <2>4, <3>1, <4>1
    <3>2. CASE ~(s = stream /\ Listens(s))
      <4>1. chan'[s] = chan[s] /\ ~Listens(s)'
        BY <2>1, <2>3, <2>5, <3>2 DEF AudioInv, Listens
      <4>2. QueueSound(worker[s], chan[s], Listens(s), sent, clock)
        BY DEF AudioInv
      <4>3. QueueSound(worker[s], chan[s], FALSE, sent + 1, clock + gap)
        BY <4>2, QueueCloses
      <4> QED BY <4>1, <4>3, QueueStays
    <3> QED BY <3>1, <3>2
  <2>8. SessionsFresh'
    <3>1. \A s \in Sessions : s > session => chan'[s] = chan[s]
      BY <1>2, <2>1, <2>3, <2>5 DEF AudioInv, Sessions
    <3> QED BY <2>1, <3>1 DEF AudioInv, SessionsFresh
  <2> QED BY <1>1, <2>1, <2>2, <2>3, <2>6, <2>7, <2>8 DEF AudioInv
<1>7. ASSUME NEW s \in Sessions, Worker(s) PROVE AudioInv'
  <2>1. PICK v, queue : Turns(s, v, queue)
    BY <1>7, WorkerTurns
  <2>2. /\ worker' = [worker EXCEPT ![s] = v] /\ chan' = [chan EXCEPT ![s] = queue]
        /\ UNCHANGED <<etd, app, session, stream, sent, clock>>
        /\ v \in Workers /\ queue \in Seq(Frame) /\ worker[s].pc \notin {"none", "done"}
    BY <2>1 DEF Turns, Elsewhere, configVars, callerVars, WorkerSound
  <2>3. worker' \in [Sessions -> Workers] /\ chan' \in [Sessions -> Seq(Frame)]
    BY <2>2 DEF AudioInv
  <2>4. SessionsFresh'
    <3>1. session < s => worker[s].pc = "none"
      BY DEF AudioInv, SessionsFresh, NewWorker
    <3>2. ~(session < s)
      BY <2>2, <3>1
    <3>3. app = "starting" => session # s
      BY <2>2 DEF AudioInv, SessionsFresh
    <3>4. app = "starting" => worker'[session] = worker[session]
      BY <1>1, <1>2, <2>2, <3>3 DEF AudioInv, IInv, Sessions
    <3>5. \A e \in Sessions : e > session => worker'[e] = worker[e] /\ chan'[e] = chan[e]
      BY <1>2, <2>2, <3>2 DEF AudioInv, Sessions
    <3> QED BY <2>2, <3>4, <3>5 DEF AudioInv, SessionsFresh
  <2>5. ASSUME NEW e \in Sessions
        PROVE  WorkerSound(worker'[e], etd) /\ QueueSound(worker'[e], chan'[e], Listens(e)', sent, clock)
    <3>1. CASE e = s
      <4>1. worker'[e] = v /\ chan'[e] = queue /\ Listens(e)' = (Listens(s) /\ v.pc # "done")
        BY <2>2, <3>1 DEF AudioInv, Listens
      <4> QED BY <2>1, <4>1 DEF Turns
    <3>2. CASE e # s
      <4>1. worker'[e] = worker[e] /\ chan'[e] = chan[e]
        BY <2>2, <3>2 DEF AudioInv
      <4>2. Listens(e)' = Listens(e)
        BY <2>2, <4>1 DEF Listens
      <4> QED BY <4>1, <4>2 DEF AudioInv
    <3> QED BY <3>1, <3>2
  <2> QED BY <1>1, <2>2, <2>3, <2>4, <2>5 DEF AudioInv
<1>8. CASE UNCHANGED vars
  <2>1. UNCHANGED <<etd, worker, audioVars, stream, session, app>>
    BY <1>8 DEF vars, configVars, callerVars, audioVars
  <2>2. SessionsFresh'
    BY <2>1 DEF AudioInv, SessionsFresh, audioVars
  <2> QED BY <1>1, <2>1, <2>2, CallerKeeps
<1> QED BY <1>3, <1>4, <1>5, <1>6, <1>7, <1>8 DEF Next, Caller

\* The inductive invariant of the capture: who joins which worker, what each has
\* taken of its queue and what its utterance holds.
THEOREM Invariance == Spec => []AudioInv
BY AudioInitHolds, AudioStepKeeps, PTL DEF Spec

\* The audio of an utterance is whole, and an interim transcript's up to the frame
\* before, for any frames, failures of the VAD and sessions at a time.
THEOREM AudioSurvives == Spec => []AudioIsWhole
<1>1. AudioInv => AudioIsWhole
  BY DEF AudioInv, AudioIsWhole, WorkerSound, AudioSound
<1> QED BY <1>1, Invariance, PTL

\* No utterance is left open over its timeout between two frames.
THEOREM SilenceEnds == Spec => []NeverOverdue
<1>1. ASSUME AudioInv, NEW s \in Sessions, worker[s].pc = "top",
             worker[s].seg.state = "TrailingSilence",
             worker[s].frame.t - worker[s].seg.silenceStart > 0
      PROVE  worker[s].frame.t - worker[s].seg.silenceStart
               < IF worker[s].seg.incomplete THEN 3 * SilenceTimeout ELSE SilenceTimeout
  <2> DEFINE w == worker[s]
  <2>1. w \in Workers /\ WorkerSound(w, etd)
    BY <1>1 DEF AudioInv
  <2>2. w.frame.t \in Nat /\ w.seg.silenceStart \in Nat
    BY <2>1 DEF Workers, Frame, Segs
  <2>3. w.frame.t = w.seg.silenceStart \/ ~SilenceOver(w.seg, w.frame)
    BY <1>1, <2>1 DEF WorkerSound, SilenceSound, Unfed
  <2>4. ~SilenceOver(w.seg, w.frame)
    BY <1>1, <2>2, <2>3
  <2> HIDE DEF w
  <2>5. w.frame.t - w.seg.silenceStart
          < IF w.seg.incomplete THEN 3 * SilenceTimeout ELSE SilenceTimeout
    BY <2>2, <2>4, SegmenterAssumption DEF SilenceOver, TimeoutOf, Extended
  <2> QED BY <2>5 DEF w
<1>2. AudioInv => NeverOverdue
  BY <1>1 DEF NeverOverdue
<1> QED BY <1>2, Invariance, PTL

\* An utterance is cut at the predictor's word, or after a whole timeout without
\* voice: a pause that ended does not count.
THEOREM CutsAreSilent == Spec => []EndsAfterSilence
<1>1. AudioInv => EndsAfterSilence
  BY DEF AudioInv, EndsAfterSilence, WorkerSound, SilenceSound
<1> QED BY <1>1, Invariance, PTL

=============================================================================
