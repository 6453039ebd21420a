----------------------------- MODULE MCSession -----------------------------
(***************************************************************************)
(* Small instances of Session: every kind of device, and numbers of gains  *)
(* for which the binary search ends in every way.                          *)
(***************************************************************************)
EXTENDS Session
=============================================================================
