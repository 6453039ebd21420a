----------------------------- MODULE MCPlayer -----------------------------
(***************************************************************************)
(* Small instances of Player.  Three buffers are enough for a queue with a *)
(* first, a middle and a last one while another is being played.           *)
(***************************************************************************)
EXTENDS Player

TwoBuffers == 1 .. 2
ThreeBuffers == 1 .. 3
=============================================================================
