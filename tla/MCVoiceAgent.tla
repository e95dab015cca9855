----------------------------- MODULE MCVoiceAgent -----------------------------
(* The service's turns for TLC: nothing but thoughts, an answer, and two calls. *)
EXTENDS VoiceAgent

MCContents ==
  {<<Block("thinking", 0)>>,
   <<Block("thinking", 0), Block("text", 0)>>,
   <<Block("blank", 0), Block("tool_use", 1), Block("tool_use", 2)>>}
===============================================================================
