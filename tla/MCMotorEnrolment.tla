---- MODULE MCMotorEnrolment ----
(* TLC's instance of MotorEnrolment. *)
EXTENDS MotorEnrolment, TLC

MCEnum == {16, 17}
====
