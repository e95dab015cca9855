----------------------------- MODULE VoiceAgent -----------------------------
(***************************************************************************)
(* The voice conversation (crates/llm-agent): the speech callback queues   *)
(* transcripts, SpeechRunner::run takes them one at a time, LlmAgent's     *)
(* loop asks the provider and runs the tools it wants, and the outcomes go *)
(* to the caller on a second bounded channel.                              *)
(*                                                                         *)
(* A transcript is the number of its utterance, or Blank.  The history     *)
(* holds messages of LlmWire, which every request sends anew.              *)
(***************************************************************************)
EXTENDS LlmWire

CONSTANTS Capacity,       \* of both channels, DEFAULT_CHANNEL_CAPACITY
          MaxIterations,  \* AgentConfig.max_iterations
          MaxUtterances,  \* bound on the utterances
          Contents        \* what the service may send as the content of a turn

ASSUME VoiceAgentAssumption ==
  /\ Capacity \in Nat \ {0}
  /\ MaxIterations \in Nat /\ MaxUtterances \in Nat
  /\ \A content \in Contents : content \in Seq(Blocks)

VARIABLES said,       \* utterances so far, Blank ones included
          accepted,   \* history: the utterances that entered the queue
          sender,     \* some TranscriptSender is alive
          rxIn,       \* the transcripts queued
          pc,         \* where the runner awaits: "recv", "ask", "tools", "send"
          current,    \* the utterance being resolved
          iteration,  \* requests made for it that were answered
          history,    \* ConversationMemory
          outcome,    \* what the runner is about to send
          out,        \* the outcomes queued
          consumer,   \* the OutcomeReceiver is alive
          got         \* history: the outcomes the consumer has read

callerVars == <<said, accepted, sender>>
consumerVars == <<consumer, got>>
agentVars == <<current, iteration, history, outcome>>
voiceVars == <<callerVars, rxIn, pc, agentVars, out, consumerVars>>

Blank == 0
Utterances == 1 .. MaxUtterances

\* of is history: an AgentOutcome does not say which utterance it belongs to.
Outcome(u, n, failed) == [of |-> u, iterations |-> n, failed |-> failed]

NoOutcome == Outcome(Blank, 0, FALSE)

\* What the service may answer.  A turn cut off at max_tokens may have got as far
\* as asking for a tool.
Replies ==
  {IntoTurnResponse(content, reason) :
     content \in Contents, reason \in {"end_turn", "max_tokens", "tool_use", "refusal"}}

Possible(reply) ==
  /\ reply.stop = "ToolUse" => Filtered(reply.blocks, {"tool_use"}) # <<>>
  /\ reply.stop = "EndTurn" => Filtered(reply.blocks, {"tool_use"}) = <<>>

VoiceInit ==
  /\ said = 0 /\ accepted = <<>> /\ sender = TRUE
  /\ rxIn = <<>> /\ out = <<>>
  /\ pc = "recv" /\ current = Blank /\ iteration = 0
  /\ history = <<>> /\ outcome = NoOutcome
  /\ consumer = TRUE /\ got = <<>>

-----------------------------------------------------------------------------
(* The speech side. *)

CanQueue == pc # "ended" /\ Len(rxIn) < Capacity

\* speech_callback: try_send, or the transcript is dropped.  It filters blank
\* ones, which other holders of a TranscriptSender may send.
Speak ==
  /\ sender /\ said < MaxUtterances
  /\ said' = said + 1
  /\ \E transcript \in {said + 1, Blank} :
       IF CanQueue
         THEN /\ rxIn' = Append(rxIn, transcript)
              /\ accepted' = IF transcript = Blank THEN accepted ELSE Append(accepted, transcript)
         ELSE UNCHANGED <<rxIn, accepted>>
  /\ UNCHANGED <<sender, pc, agentVars, out, consumerVars>>

\* The last sender is dropped, with the callback that holds it.
DropSender ==
  /\ sender /\ sender' = FALSE
  /\ UNCHANGED <<said, accepted, rxIn, pc, agentVars, out, consumerVars>>

-----------------------------------------------------------------------------
(* SpeechRunner::run. *)

Ended == pc' = "ended" /\ rxIn' = <<>> /\ current' = Blank /\ outcome' = NoOutcome

\* The next transcript is taken.  respond starts with the user's turn; with no
\* iteration allowed it does not converge before it has asked.
Take ==
  /\ pc = "recv" /\ rxIn # <<>>
  /\ rxIn' = Tail(rxIn)
  /\ IF Head(rxIn) = Blank
       THEN UNCHANGED <<pc, agentVars>>
       ELSE /\ current' = Head(rxIn)
            /\ iteration' = 0
            /\ history' = Append(history, UserText)
            /\ IF MaxIterations = 0
                 THEN pc' = "send" /\ outcome' = Outcome(Head(rxIn), 0, TRUE)
                 ELSE pc' = "ask" /\ UNCHANGED outcome
  /\ UNCHANGED <<callerVars, out, consumerVars>>

\* recv returns None once the queue is empty and no sender is left.
ChannelClosed ==
  /\ pc = "recv" /\ rxIn = <<>> /\ ~sender
  /\ Ended
  /\ UNCHANGED <<callerVars, iteration, history, out, consumerVars>>

\* Seeded fault: a failed turn tears the runner down.
FailEndsRunner == Ended /\ UNCHANGED <<iteration, history>>

\* Seeded fault: a failed turn is logged and nothing else.
FailSwallowed == pc' = "recv" /\ current' = Blank /\ UNCHANGED <<rxIn, iteration, history, outcome>>

\* respond fails: the history keeps what it has, and the failure goes out.
Fail ==
  /\ pc' = "send" /\ outcome' = Outcome(current, 0, TRUE)
  /\ UNCHANGED <<rxIn, current, iteration, history>>

ProviderFails ==
  /\ pc = "ask"
  /\ Fail
  /\ UNCHANGED <<callerVars, out, consumerVars>>

\* The provider's turn is recorded; it is the answer, or it asks for tools.
ProviderAnswers ==
  /\ pc = "ask"
  /\ \E reply \in Replies :
       /\ Possible(reply)
       /\ history' = Append(history, Message("assistant", reply.blocks))
       /\ iteration' = iteration + 1
       /\ IF reply.stop = "ToolUse"
            THEN pc' = "tools" /\ UNCHANGED outcome
            ELSE pc' = "send" /\ outcome' = Outcome(current, iteration + 1, FALSE)
  /\ UNCHANGED <<callerVars, rxIn, current, out, consumerVars>>

\* run_tool_calls: one result for each tool_use, also for a tool that fails or
\* is unknown.
WithResults(blocks) == Append(history, ToolResults(blocks))

\* The results are one user turn, and the loop goes on while it may.
RunTools ==
  /\ pc = "tools"
  /\ history' = WithResults(Last(history).content)
  /\ IF iteration < MaxIterations
       THEN pc' = "ask" /\ UNCHANGED outcome
       ELSE pc' = "send" /\ outcome' = Outcome(current, 0, TRUE)
  /\ UNCHANGED <<callerVars, rxIn, current, iteration, out, consumerVars>>

\* send waits for room, and fails when nobody will read.
SendOutcome ==
  /\ pc = "send" /\ consumer /\ Len(out) < Capacity
  /\ out' = Append(out, outcome)
  /\ pc' = "recv" /\ current' = Blank /\ outcome' = NoOutcome
  /\ UNCHANGED <<callerVars, rxIn, iteration, history, consumerVars>>

SendFails ==
  /\ pc = "send" /\ ~consumer
  /\ Ended
  /\ UNCHANGED <<callerVars, iteration, history, out, consumerVars>>

-----------------------------------------------------------------------------
(* The caller's side. *)

ReadOutcome ==
  /\ consumer /\ out # <<>>
  /\ got' = Append(got, Head(out))
  /\ out' = Tail(out)
  /\ UNCHANGED <<callerVars, rxIn, pc, agentVars, consumer>>

DropConsumer ==
  /\ consumer /\ consumer' = FALSE
  /\ out' = <<>>
  /\ UNCHANGED <<callerVars, rxIn, pc, agentVars, got>>

-----------------------------------------------------------------------------

Runner == Take \/ ChannelClosed \/ SendOutcome \/ SendFails

VoiceNext ==
  \/ Speak \/ DropSender
  \/ Runner
  \/ ProviderFails \/ ProviderAnswers \/ RunTools
  \/ ReadOutcome \/ DropConsumer

VoiceSpec == VoiceInit /\ [][VoiceNext]_voiceVars

\* The runtime polls the runner, and the caller reads in a loop while it keeps
\* the receiver.  Nothing makes the provider or a tool return.
FairSpec == VoiceSpec /\ WF_voiceVars(Runner) /\ WF_voiceVars(ReadOutcome)

-----------------------------------------------------------------------------

VoiceTypeOK ==
  /\ said \in 0 .. MaxUtterances
  /\ sender \in BOOLEAN /\ consumer \in BOOLEAN
  /\ rxIn \in Seq({Blank} \cup Utterances) /\ Len(rxIn) <= Capacity
  /\ accepted \in Seq(Utterances)
  /\ pc \in {"recv", "ask", "tools", "send", "ended"}
  /\ current \in {Blank} \cup Utterances
  /\ iteration \in 0 .. MaxIterations
  /\ history \in Seq([role : {"user", "assistant"}, content : Seq(Blocks)])
  /\ outcome = NoOutcome \/ (pc = "send" /\ outcome.of = current)
  /\ \A q \in {out, got} :
       q \in Seq([of : Utterances, iterations : 0 .. MaxIterations, failed : BOOLEAN])
  /\ Len(out) <= Capacity

OutcomesOf(q) == [n \in DOMAIN q |-> q[n].of]

InHand == IF current = Blank THEN <<>> ELSE <<current>>

\* Where an utterance is: among the outcomes read, those queued, in the agent's
\* hands, or still waiting.
Places == OutcomesOf(got) \o OutcomesOf(out) \o InHand \o rxIn

\* OutcomeReceiver: "one per resolved utterance, in order".  While somebody reads,
\* the utterances that entered the queue are those that have a place; each has one,
\* and they are in the order they were said.
OneOutcomeEach ==
  consumer =>
    /\ ToSet(accepted) = ToSet(Places) \ {Blank}
    /\ \A i, j \in DOMAIN Places :
         i < j /\ Places[i] # Blank /\ Places[j] # Blank => Places[i] < Places[j]

\* What goes to the service is well formed, whatever it has sent before: the
\* last message is the user's or carries results, nothing blank is left in it,
\* and results follow the very turn that asked for them (anthropic.rs:87-89,
\* agent.rs:58-77).
ResultsFollowRequests == pc = "ask" => Acceptable(WireMessages(history))

ProviderReturns == ~ <>[](pc \in {"ask", "tools"})

\* The consumer is never left with "thinking" on the screen: provided that the
\* provider and the tools return, also with a failure, every utterance in the
\* queue gets its outcome, unless the consumer is gone.
OutcomesArrive ==
  ProviderReturns =>
    \A u \in Utterances :
      Contains(accepted, u) ~> (Contains(OutcomesOf(got), u) \/ ~consumer)

\* The runner ends after its senders are gone, when what they queued has been
\* resolved.
RunnerEnds == ProviderReturns => (~sender ~> pc = "ended")

-----------------------------------------------------------------------------
(* A statement of the sources that the code does not keep. *)

\* agent.rs: the assistant's turn is recorded, with its tool_use blocks, "so
\* history and the next turn stay consistent".  A turn cut off at max_tokens is
\* taken for the answer: its tool_use blocks never get a result, and are sent
\* again with every later request.
HistoryConsistent == pc = "ask" => Answered(WireMessages(history))

=============================================================================
