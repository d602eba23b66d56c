--------------------------- MODULE MCCoverTracking --------------------------
(* CoverTracking for TLC. *)
EXTENDS CoverTracking

(* ARCHITECTURE.md: the presses of a bound remote drive position tracking  *)
(* "without HA ever sending a command to the motor".  Checked with         *)
(* Overlap, a remote used during a set-position move.                      *)
PressNotOverruled ==
    [][~bidir /\ (\E t \in LoopId : LoopWakes(t)) /\ move # None /\ move.by = "press"
         => mdir' = mdir]_vars
=============================================================================
