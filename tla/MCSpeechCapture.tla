---------------------------- MODULE MCSpeechCapture ----------------------------
(* A short session that a second start may supersede, and a longer one. *)
EXTENDS SpeechCapture

MCFrames == <<1, 3>>
================================================================================
