----------------------------- MODULE MCReceiver -----------------------------
(***************************************************************************)
(* Small instances of Receiver.                                            *)
(***************************************************************************)
EXTENDS Receiver
=============================================================================
