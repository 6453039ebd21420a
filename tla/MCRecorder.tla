---------------------------- MODULE MCRecorder ----------------------------
(***************************************************************************)
(* Small instances of Recorder: two songs, whose artists and titles become *)
(* the same file name.                                                     *)
(***************************************************************************)
EXTENDS Recorder

TwoSongs == {"song", "live"}
SameName == [s \in {"song", "live"} |-> "song"]
=============================================================================
