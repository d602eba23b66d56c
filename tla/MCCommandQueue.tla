--------------------------- MODULE MCCommandQueue ---------------------------
(* CommandQueue for TLC. *)
EXTENDS CommandQueue

(* CHANGELOG.md 1.1.0: "a burst of open/close/stop commands can no longer  *)
(* be dropped or reordered".  Checked without HalfDuplex: a scene that     *)
(* moves two covers writes both commands before the stick answers.         *)
BurstKept == NothingLost
=============================================================================
