---------------------------- MODULE MCAppCapture ----------------------------
(* AppCapture with two sizes and widths that make the window's growth visible. *)
EXTENDS AppCapture

MCWinWidths == {4, 5}
=============================================================================
