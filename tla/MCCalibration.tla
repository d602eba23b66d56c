---- MODULE MCCalibration ----
(* TLC's instance of Calibration. *)
EXTENDS Calibration, TLC

MCEnum == {16}

(* Dialogs differ in nothing but their names. *)
Symmetry == Permutations(Dialog)
====
