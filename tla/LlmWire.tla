-------------------------------- MODULE LlmWire --------------------------------
(***************************************************************************)
(* crates/llm: the messages of a conversation (types.rs), and what the     *)
(* Anthropic provider makes of them on the way out and of the service's    *)
(* answer on the way in (providers/anthropic.rs).  The Gemini and Ollama   *)
(* providers exist as stubs.                                               *)
(*                                                                         *)
(* A block is [type, id], with the id of a tool call or 0.                 *)
(***************************************************************************)
EXTENDS Naturals, FiniteSets, SequencesExt

\* A text is "blank" when it is empty; what the service thought has no ContentBlock.
BlockTypes == {"text", "blank", "tool_use", "tool_result", "audio", "thinking"}
Blocks == [type : BlockTypes, id : Nat]

Block(type, id) == [type |-> type, id |-> id]
Message(role, content) == [role |-> role, content |-> content]

\* What s has at the positions, in its order.
Selected(s, positions) ==
  [k \in 1 .. Cardinality(positions) |->
     s[CHOOSE n \in positions : Cardinality({m \in positions : m <= n}) = k]]

Filtered(content, types) == Selected(content, {n \in DOMAIN content : content[n].type \in types})

UserText == Message("user", <<Block("text", 0)>>)

\* One result for each tool_use, in the order of the requests.
ToolResults(content) ==
  LET requests == Filtered(content, {"tool_use"})
  IN  Message("user", [n \in DOMAIN requests |-> Block("tool_result", requests[n].id)])

-----------------------------------------------------------------------------
(* In. *)

\* OwnedContentBlock: what is not a text or a tool_use is not kept.
IntoContentBlocks(content) == Filtered(content, {"text", "tool_use"})

\* WireResponse: every other reason, or none, ends the turn.
IntoTurnResponse(content, reason) ==
  [blocks |-> IntoContentBlocks(content),
   stop |-> CASE reason = "tool_use" -> "ToolUse"
              [] reason = "max_tokens" -> "MaxTokens"
              [] OTHER -> "EndTurn"]

-----------------------------------------------------------------------------
(* Out. *)

\* WireContentBlock: no blank text, no audio.
TryFromBlock(content) == Filtered(content, {"text", "tool_use", "tool_result"})

\* Seeded fault: turns of which nothing is left go out as they are.
KeepsEmpty(m) == TRUE

\* A message must hold something.
Keeps(m) == m.content # <<>>

\* The messages of a request, or none when there is audio among them.
WireMessages(messages) ==
  LET wire == [n \in DOMAIN messages |->
                 Message(messages[n].role, TryFromBlock(messages[n].content))]
  IN IF \E n \in DOMAIN messages : Filtered(messages[n].content, {"audio"}) # <<>> THEN <<>>
     ELSE Selected(wire, {n \in DOMAIN wire : Keeps(wire[n])})

-----------------------------------------------------------------------------
(* What the service accepts: anthropic.rs:87-89, :164-166 and the format of  *)
(* the tool_result blocks, which follow the very turn that asked for them.   *)

ResultIds(m) == LET rs == Filtered(m.content, {"tool_result"}) IN [n \in DOMAIN rs |-> rs[n].id]
UseIds(m) == LET us == Filtered(m.content, {"tool_use"}) IN [n \in DOMAIN us |-> us[n].id]

Acceptable(wire) ==
  /\ wire # <<>> /\ Head(wire).role = "user" /\ Last(wire).role = "user"
  /\ \A n \in DOMAIN wire :
       /\ wire[n].content # <<>>
       /\ Filtered(wire[n].content, {"blank", "audio", "thinking"}) = <<>>
       /\ ResultIds(wire[n]) # <<>> =>
            /\ n > 1 /\ wire[n - 1].role = "assistant"
            /\ UseIds(wire[n - 1]) = ResultIds(wire[n])

\* Every call has its result in the message that follows.
Answered(wire) ==
  \A n \in DOMAIN wire :
    UseIds(wire[n]) # <<>> => n < Len(wire) /\ ResultIds(wire[n + 1]) = UseIds(wire[n])
================================================================================
